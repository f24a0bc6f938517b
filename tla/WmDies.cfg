SPECIFICATION Spec
CONSTANTS
    Windows = {w1}
    Owner <- NoOwner
    Patient = {w1}
    QueueBound = 2
    ReadBound = 20
    StartCount = 1
    Commands <- FocusCommands
    NoWindow = none
    Frames <- SixFrames
    NoFrame = 0
    Workspaces <- TwoWorkspaces
    MaxWorkspaces = 2
    IgnoreMax = 2
INVARIANTS
    WmSurvives
CHECK_DEADLOCK FALSE
