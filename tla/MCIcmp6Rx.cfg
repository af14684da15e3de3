CONSTANTS
    o1 = o1
    allNodes = allNodes
    snm1 = snm1
    x1 = x1
    r1 = r1
    r2 = r2
    n1 = n1
    p1 = p1
    p2 = p2
    q1 = q1
    q2 = q2
    any = any
    i1 = i1
    OwnAddr <- MCOwnAddr
    OwnGroup <- MCOwnGroup
    AllNodes <- allNodes
    OtherDst = {x1}
    PeerAddr <- MCPeerAddr
    Router <- MCRouter
    PrefixInfo <- MCPrefixInfo
    Port <- MCPort
    Wildcard <- any
    Socket <- MCSocket
    Id = {i1}
    MaxFrames = 3

SPECIFICATION Spec
INVARIANT TypeOK
INVARIANT SlaacHostsFromRa
INVARIANT UnreachableToMostSpecific
CHECK_DEADLOCK FALSE
