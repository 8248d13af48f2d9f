CONSTANTS
    Clients = {c1}
    Requests = {r1}
    Cores = {k1, k2, k3}
    Names = {n1, n2}
    Values = {v1, v2}
    Keys = {x}
    Data = {d}
    MaxCookies = 2
    None = None
    Tampered = {Bogus}
    Foreign = Foreign
SPECIFICATION Spec
INVARIANT RejectedCookieIsReplaced
CHECK_DEADLOCK FALSE
