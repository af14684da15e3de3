----------------------------- MODULE MCIcmp6Rx -----------------------------
(* Model-checking instance of Icmp6Rx: one own address and its solicited- *)
(* node group, a router and a host on the link, an autoconf /64 prefix    *)
(* and a prefix without the autoconf flag, and three sockets on port q1   *)
(* that a datagram to n1:q2 matches at once: connected, bound to o1, and  *)
(* bound to the port only.  Nothing listens on q2.                        *)
EXTENDS Icmp6Rx, TLC

CONSTANTS o1, allNodes, snm1, x1, r1, r2, n1, p1, p2, q1, q2, any, i1

MCOwnAddr == {o1}
MCOwnGroup == {allNodes, snm1}
MCPeerAddr == {r1, r2, n1}
MCRouter == {r1, r2}
MCPrefixInfo == {[prefix |-> p1, autoconf |-> TRUE, len64 |-> TRUE],
                 [prefix |-> p2, autoconf |-> FALSE, len64 |-> TRUE]}
MCPort == {q1, q2}
MCSocket ==
    {[local_ip |-> o1, local_port |-> q1, remote_ip |-> n1, remote_port |-> q2],
     [local_ip |-> o1, local_port |-> q1, remote_ip |-> any, remote_port |-> any],
     [local_ip |-> any, local_port |-> q1, remote_ip |-> any, remote_port |-> any]}
=============================================================================
