SPECIFICATION SnapSpec
CONSTANTS
    Targets = {left, right}
    None = none
    WakeRoom = 2
    MaxGeneration = 7
INVARIANTS
    BackdropIsCurrent
    RequestsPassOnce
PROPERTIES
    ImplementsLatest
    RequestIsAnswered
    DropReturns
\* A worker that was dropped has really stopped.
CHECK_DEADLOCK FALSE
