CONSTANTS
    Callers = {p1, p2}
    Services = {s1}
    Names = {n1}
    GracePeriod = 1
    MaxTime = 2
    None = None
SPECIFICATION Spec
SYMMETRY Symmetry
VIEW CurrentView
INVARIANTS
    TypeOK
    DownMeansDown
    TriggersRun
    UpIsForwarded
PROPERTY CachedUpAlone
