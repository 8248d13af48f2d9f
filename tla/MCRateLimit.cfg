CONSTANTS
    Callers = {p1, p2}
    MaxAllowed = 2
    Period = 1
    MaxCalls = 2
    MaxTime = 4
    NoList = NoList
SPECIFICATION FairSpec
INVARIANTS
    TypeOK
    WindowLimit
    PanicsOnlyMeeting
PROPERTIES
    RefusedMeansFull
    CallsEnd
CHECK_DEADLOCK FALSE
