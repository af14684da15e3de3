CONSTANTS
    c1 = c1
    c2 = c2
    s1 = s1
    s2 = s2
    a1 = a1
    a2 = a2
    none = none
    Client = {c1, c2}
    Server = {s1}
    Addr = {a1, a2}
    Pool <- MCPool
    XidBits = 1
    None <- none
    Broadcast = TRUE
    Lossy = FALSE
    MaskLess = {}

SPECIFICATION Spec
INVARIANT UniqueResult
CHECK_DEADLOCK FALSE
