CONSTANTS
    Clients = {c1, c2}
    Requests = {r1, r2}
    LoginIds = {h1}
    Cores = {k1, k2, k3, k4}
    Names = {n1, n2}
    Values = {v1, v2}
    Tokens = {t1, t2}
    MaxCookies = 2
    Tampered = {Bogus}
    Authd = Authd
    Users = {u1}
    Strangers = {u2}
    Passwords = {pw1, pw2}
    PasswordOf <- MCPasswordOf
    Salt = Salt
    Keys <- MCKeys
    Data <- MCData
    None = None
    Foreign = Foreign
SPECIFICATION LoginSpec
SYMMETRY Symmetry
CONSTRAINT Bounds
VIEW LiveView
INVARIANTS
    LoginTypeOK
    GateHolds
    XsrfIsOwn
PROPERTY LoginLasts
\* The pools of names, values and tokens are finite, so the model stops.
CHECK_DEADLOCK FALSE
