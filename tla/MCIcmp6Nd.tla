----------------------------- MODULE MCIcmp6Nd -----------------------------
(* Model-checking instance of Icmp6Nd.                                    *)
(* Owned: h1 has a1 assigned; h2 tries a1 (taken) and a2 (free) through  *)
(* DAD; h3 has a3 on another network and resolves across it, so NS       *)
(* sources :: and a real address are both exercised.  a1 and a2 share    *)
(* the low 24 bits, so share a solicited-node group.                      *)
(* Race: h1 and h2 start with nothing and both try a1.                    *)
EXTENDS Icmp6Nd, TLC

CONSTANTS h1, h2, h3, a1, a2, a3, allNodes, g1, g2, p1, p2, unspec, none

MCHost == {h1, h2, h3}
MCAddr == {a1, a2, a3}
MCGroup == {allNodes, g1, g2}

MCSnm(a) == IF a = a3 THEN g2 ELSE g1
MCPrefix(a) == IF a = a3 THEN p2 ELSE p1

OwnedStatic == (h1 :> <<a1>>) @@ (h2 :> <<>>) @@ (h3 :> <<a3>>)
OwnedTentative == (h1 :> {}) @@ (h2 :> {a1, a2}) @@ (h3 :> {})

RaceStatic == [h \in MCHost |-> <<>>]
RaceTentative == (h1 :> {a1}) @@ (h2 :> {a1}) @@ (h3 :> {})
=============================================================================
