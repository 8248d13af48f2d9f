CONSTANTS
    Callers = {p1}
    Workers = {w1}
    Delay = 2
    MaxCalls = 3
    None = None
SPECIFICATION FairSpec
PROPERTY EveryRequestFires
