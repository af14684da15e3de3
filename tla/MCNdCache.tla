----------------------------- MODULE MCNdCache -----------------------------
(* Model-checking instance of NdCache: two neighbors, two MAC addresses,  *)
(* and the code's 60 s / 5 s ageing scaled to 3 s / 1 s, which keeps the  *)
(* fresh, refresh-window and expired bands all reachable.                 *)
EXTENDS NdCache, TLC

CONSTANTS a1, a2, m1, m2

MCAddr == {a1, a2}
MCMac == {m1, m2}

Symmetry == Permutations(MCAddr) \cup Permutations(MCMac)
=============================================================================
