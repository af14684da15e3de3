CONSTANTS
    c1 = c1
    c2 = c2
    s1 = s1
    s2 = s2
    a1 = a1
    a2 = a2
    none = none
    Client = {c1}
    Server = {s1, s2}
    Addr = {a1, a2}
    Pool <- MCPool
    XidBits = 1
    None <- none
    Broadcast = FALSE
    Lossy = FALSE
    MaskLess = {}

SPECIFICATION Spec
PROPERTY FetchSucceeds
CHECK_DEADLOCK FALSE
