CONSTANTS
    Width = 6
    Probe <- MCProbe
    Mac <- MCMac

SPECIFICATION Spec
INVARIANT LastIsAddress
