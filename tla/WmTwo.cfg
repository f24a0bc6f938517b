SPECIFICATION Spec
CONSTANTS
    Windows = {w1, w2}
    Owner <- OwnedByFirst
    Patient = {w1}
    QueueBound = 3
    ReadBound = 4
    StartCount = 2
    Commands <- TwoWindowCommands
    NoWindow = none
    Frames <- SixFrames
    NoFrame = 0
    Workspaces <- TwoWorkspaces
    MaxWorkspaces = 2
    IgnoreMax = 1
INVARIANTS
    FocusIsCoherent
PROPERTIES
    DesktopIsTold
CHECK_DEADLOCK FALSE
