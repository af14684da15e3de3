--------------------------- MODULE MCDhcp4Client ---------------------------
(* Model-checking instance of Dhcp4Client: two stacks and two servers,    *)
(* each server with one address of its own, and a one-bit xid so that     *)
(* two clients can draw the same one.                                     *)
EXTENDS Dhcp4Client, TLC

CONSTANTS c1, c2, s1, s2, a1, a2, none

MCPool(s) == IF s = s1 THEN {a1} ELSE {a2}
=============================================================================
