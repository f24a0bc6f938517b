SPECIFICATION Spec
CONSTANTS
    Outputs = {o1, o2}
    Crtcs = {k1, k2}
    Modes = {m1, m2}
    Clients = {c1, c2}
    NoClient = noclient
    NoOutput = nooutput
    NoCrtc = nocrtc
    Dark = dark
    TimerRuns = TRUE
    MaxTime = 3
    MaxChanges = 2
    MaxScalings = 1
    MaxFaults = 1
SYMMETRY Interchangeable
INVARIANTS
    SidesAgree
    AnswerIsLive
    UnconfirmedIsRevertible
PROPERTIES
    ImplementsTrial
    KeepsWhatItWasAsked
CHECK_DEADLOCK FALSE
