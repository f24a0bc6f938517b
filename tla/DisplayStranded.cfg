SPECIFICATION Spec
CONSTANTS
    Outputs = {o1, o2}
    Crtcs = {k1, k2}
    Modes = {m1, m2}
    Clients = {c1}
    NoClient = noclient
    NoOutput = nooutput
    NoCrtc = nocrtc
    Dark = dark
    TimerRuns = FALSE
    MaxTime = 3
    MaxChanges = 1
    MaxScalings = 0
    MaxFaults = 0
PROPERTIES
    UnconfirmedEnds
CHECK_DEADLOCK FALSE
