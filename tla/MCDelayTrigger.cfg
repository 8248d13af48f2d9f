CONSTANTS
    Callers = {p1, p2}
    Workers = {w1, w2}
    Delay = 2
    MaxCalls = 3
    None = None
SPECIFICATION FairSpec
INVARIANTS
    TypeOK
    StuckOnlyAfterFiring
PROPERTIES
    Debounces
    QuietOfAll
    RequestsFire
