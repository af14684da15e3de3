CONSTANTS
    a1 = a1
    a2 = a2
    m1 = m1
    m2 = m2
    Addr <- MCAddr
    Mac <- MCMac
    MaxAge = 3
    RefreshTime = 1
    MaxHits = 1
    MaxClockSteps = 1

SPECIFICATION Spec
SYMMETRY Symmetry
INVARIANT TypeOK
INVARIANT EntryAgeBound
