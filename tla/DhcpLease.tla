----------------------------- MODULE DhcpLease -----------------------------
(***************************************************************************)
(* What a DHCP client's fetch() promises, with the messages left out.      *)
(* Each client starts once, is busy for a while and then returns, either   *)
(* with nothing or with an address some server has leased to it.  Servers  *)
(* lease an address to one client at a time.  Every started fetch() ends: *)
(* it returns, or it fails with an exception and no address.              *)
(***************************************************************************)
CONSTANTS
    Client,  \* the stacks running fetch()
    Addr,    \* the addresses servers hand out
    None     \* fetch() returned nothing

VARIABLES
    state,    \* state[c]: "idle", "busy", "done" or "failed"
    granted,  \* granted[c]: the addresses leased to c
    result    \* result[c]: the address fetch() returned, or None

vars == <<state, granted, result>>

TypeOK ==
    /\ state \in [Client -> {"idle", "busy", "done", "failed"}]
    /\ granted \in [Client -> SUBSET Addr]
    /\ result \in [Client -> Addr \cup {None}]

Init ==
    /\ state = [c \in Client |-> "idle"]
    /\ granted = [c \in Client |-> {}]
    /\ result = [c \in Client |-> None]

Start(c) ==
    /\ state[c] = "idle"
    /\ state' = [state EXCEPT ![c] = "busy"]
    /\ UNCHANGED <<granted, result>>

\* A server leases a to c, possibly after c has given up waiting.
Grant(c, a) ==
    /\ state[c] # "idle"
    /\ \A d \in Client \ {c} : a \notin granted[d]
    /\ granted' = [granted EXCEPT ![c] = @ \cup {a}]
    /\ UNCHANGED <<state, result>>

Finish(c) ==
    /\ state[c] = "busy"
    /\ state' = [state EXCEPT ![c] = "done"]
    /\ \E r \in {None} \cup granted[c] : result' = [result EXCEPT ![c] = r]
    /\ UNCHANGED granted

Fail(c) ==
    /\ state[c] = "busy"
    /\ state' = [state EXCEPT ![c] = "failed"]
    /\ UNCHANGED <<granted, result>>

Next ==
    \E c \in Client : Start(c) \/ Finish(c) \/ Fail(c) \/ \E a \in Addr : Grant(c, a)

Spec ==
    /\ Init /\ [][Next]_vars
    /\ \A c \in Client : WF_vars(Start(c)) /\ WF_vars(Finish(c) \/ Fail(c))

=============================================================================
