CONSTANTS
    Width = 6
    Probe <- MCProbe
    Mac <- MCMac

SPECIFICATION Spec
INVARIANT TypeOK
INVARIANT MaskForms
INVARIANT LastIsNetworkEnd
INVARIANT ClassifiersMatchPrefixes
INVARIANT SolicitedNodeMapping
INVARIANT Eui64Identifier
