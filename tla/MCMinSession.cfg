CONSTANTS
    Clients = {c1, c2}
    Requests = {r1, r2}
    Cores = {k1, k2, k3, k4}
    Names = {n1, n2}
    Values = {v1, v2}
    Keys = {x}
    Data = {d}
    MaxCookies = 2
    None = None
    Tampered = {Bogus}
    Foreign = Foreign
SPECIFICATION Spec
SYMMETRY Symmetry
VIEW LiveView
INVARIANTS
    TypeOK
    SessionIsolation
    RevokedStaysRevoked
    SessionsAreDistinct
    GivenCookiesWork
PROPERTIES
    StoredSessionIsStable
    StoredDataIsKept
\* The pools of names and values are finite, so the model stops.
CHECK_DEADLOCK FALSE
