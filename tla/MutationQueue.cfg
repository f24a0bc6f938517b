SPECIFICATION Spec
CONSTANTS
    Capacity = 2
    PipeRoom = 2
    ReadChunk = 2
    MaxSubmit = 6
INVARIANTS
    NoLostWake
    ShutdownDrains
PROPERTIES
    ImplementsService
    AcceptedIsAnswered
    ShutdownReturns
\* A dispatcher that was shut down has really stopped.
CHECK_DEADLOCK FALSE
