SPECIFICATION Spec
CONSTANTS
    Kinds = {audio, network}
    NoKind = none
    PipeCap = 3
    MaxRestarts = 2
INVARIANTS
    OnePopup
    LastAskedIsShown
PROPERTIES
    ExitIsHandled
    NoOrphan
    PipeIsServed
CHECK_DEADLOCK FALSE
