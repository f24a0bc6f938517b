SPECIFICATION Spec
CONSTANTS
    MaxAttempts = 2
    ChannelRoom = 2
    MaxLives = 2
    MaxChanges = 2
    MaxNoSinks = 1
    MaxAsked = 2
INVARIANTS
    KnowsItsServer
    RetryIsPending
PROPERTIES
    CatchesUp
CHECK_DEADLOCK FALSE
