SPECIFICATION Spec
CONSTANTS
    Windows = {w1}
    Owner <- NoOwner
    Patient = {w1}
    QueueBound = 3
    ReadBound = 20
    StartCount = 2
    Commands <- AllCommands
    NoWindow = none
    Frames <- SixFrames
    NoFrame = 0
    Workspaces <- TwoWorkspaces
    MaxWorkspaces = 2
    IgnoreMax = 2
INVARIANTS
    NoWindowIsLost
PROPERTIES
    NeverThrownOut
    MappedIsFramed
    DestroyedIsForgotten
CHECK_DEADLOCK FALSE
