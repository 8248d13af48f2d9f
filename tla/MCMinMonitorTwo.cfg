CONSTANTS
    Callers = {p1, p2}
    Services = {s1}
    Names = {n1}
    GracePeriod = 1
    MaxTime = 3
    None = None
SPECIFICATION Spec
PROPERTY CachedUpIsRecent
