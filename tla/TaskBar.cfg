SPECIFICATION Spec
CONSTANTS
    Ids = {w1, w2}
    NoId = none
    NoRef = nothing
    Apps = {a, b}
    NoApp = noApp
    MaxOpens = 1
    MaxAsks = 2
    MaxCalls = 2
    QueueBound = 2
    EventBound = 1
INVARIANTS
    StripIsWellFormed
    StripShowsCache
    OneCommandPerReference
PROPERTIES
    ActsOnWhatWasSeen
    SlotsKeepTheirOrder
SYMMETRY Symmetry
CHECK_DEADLOCK FALSE
