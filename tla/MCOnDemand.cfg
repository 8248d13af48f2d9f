CONSTANTS
    Callers = {p1, p2}
    Services = {s1}
    Names = {n1}
    Workers = {w1, w2}
    GracePeriod = 0
    MaxTime = 2
    Delay = 1
    MaxRequests = 2
    Once = {p2}
    Parts = 2
    None = None
SPECIFICATION SystemFairSpec
VIEW CurrentView
INVARIANTS
    SystemTypeOK
    AllPartsRan
PROPERTIES
    StopIsNoticed
    Answered
