SPECIFICATION Spec
CONSTANTS
    Providers = {network, audio, media}
    Guarded = {network, audio}
    Threaded = {audio}
    Flattened = FALSE
    MaxMutations = 2
    MaxRevision = 2
    MaxRotations = 1
INVARIANTS
    RightProvider
PROPERTIES
    ImplementsOneCall
    Answered
CHECK_DEADLOCK FALSE
