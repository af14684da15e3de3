CONSTANTS
    h1 = h1
    h2 = h2
    h3 = h3
    a1 = a1
    a2 = a2
    a3 = a3
    allNodes = allNodes
    g1 = g1
    g2 = g2
    p1 = p1
    p2 = p2
    unspec = unspec
    none = none
    Host <- MCHost
    Addr <- MCAddr
    Group <- MCGroup
    AllNodes <- allNodes
    Unspec <- unspec
    None <- none
    Snm <- MCSnm
    Prefix <- MCPrefix
    Static <- OwnedStatic
    Tentative <- OwnedTentative
    TimelyNetwork = TRUE
    MaxResolve = 1

SPECIFICATION Spec
INVARIANT TypeOK
INVARIANT UniqueAssignment
INVARIANT CacheBindingsCorrect
INVARIANT DadEvidence
PROPERTY ResolutionCompletes
CHECK_DEADLOCK FALSE
