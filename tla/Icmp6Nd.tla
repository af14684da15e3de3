------------------------------ MODULE Icmp6Nd ------------------------------
(***************************************************************************)
(* Neighbor Discovery between several PyTCP stacks on one link:            *)
(*   - the IPv6 RX filter of src/pytcp/protocols/ip6/phrx.py,              *)
(*   - the NS and NA branches of _phrx_icmp6, src/icmp6/phrx.py,           *)
(*   - the miss path of NdCache.find_entry and its NS source selection,    *)
(*     src/icmp6/nd_cache.py,                                              *)
(*   - the Duplicate Address Detection driver, which lives outside src/    *)
(*     and is modelled from spec sections 4.3 and 5.                       *)
(*                                                                         *)
(* A MAC address is identified with the host that owns it, so a cache     *)
(* entry maps an address to a host.  Entry ageing is the business of       *)
(* NdCache; here an entry, once learned, is kept.                          *)
(***************************************************************************)
EXTENDS Naturals, Sequences, FiniteSets, SequencesExt

CONSTANTS
    Host,          \* the stacks on the link
    Addr,          \* unicast IPv6 addresses
    Group,         \* multicast groups: all-nodes and solicited-node groups
    AllNodes,      \* ff02::1
    Unspec,        \* ::
    None,          \* Python None
    Snm(_),        \* Ip6Address.solicited_node_multicast
    Prefix(_),     \* the /64 network an address belongs to
    Static,        \* Static[h]: ip6_host configured before the stack runs
    Tentative,     \* Tentative[h]: addresses the stack will try through DAD
    TimelyNetwork, \* a probe and its answer always beat the 1 s DAD timeout
    MaxResolve     \* bound on find_entry misses per host

ASSUME /\ AllNodes \in Group
       /\ \A a \in Addr : Snm(a) \in Group \ {AllNodes}
       /\ Unspec \notin Addr \cup Group
       /\ Static \in [Host -> Seq(Addr)]
       /\ Tentative \in [Host -> SUBSET Addr]
       /\ TimelyNetwork \in BOOLEAN
       /\ MaxResolve \in Nat

VARIABLES
    ip6_host,      \* ip6_host[h]: sequence of assigned addresses, in order
    candidate,     \* ip6_unicast_candidate, or None
    dadPc,         \* state of the DAD driver of each host
    dadTodo,       \* tentative addresses not yet tried
    dadSignal,     \* the one-shot DAD event of the current attempt
    dadTlla,       \* icmp6_nd_dad_tlla: who advertised the candidate
    nd_cache,      \* nd_cache[h][a]: host whose MAC h has learned for a
    rxq,           \* rxq[h]: frames on their way to h, in link order
    resolves,      \* find_entry misses so far, per host
    asked          \* history: <<h, a>> for which h sent an NS while another
                   \* stack had a assigned and h was not probing a itself

vars == <<ip6_host, candidate, dadPc, dadTodo, dadSignal, dadTlla, nd_cache,
          rxq, resolves, asked>>

Types == {"NS", "NA"}

\* An ICMPv6 NS/NA; lla is its SLLA or TLLA option.
Packet == [type: Types, src: Addr \cup {Unspec}, dst: Addr \cup Group,
           target: Addr, lla: Host \cup {None}]

\* self.ip6_unicast
Unicast(h) == {ip6_host[h][i] : i \in 1..Len(ip6_host[h])}

\* self.ip6_multicast: all-nodes, the solicited-node group of every
\* assigned address and of the DAD candidate.
Multicast(h) ==
    {AllNodes} \cup {Snm(a) : a \in Unicast(h)}
               \cup {Snm(a) : a \in {candidate[h]} \ {None}}

TypeOK ==
    /\ \A h \in Host : ip6_host[h] \in Seq(Addr)
    /\ candidate \in [Host -> Addr \cup {None}]
    /\ dadPc \in [Host -> {"idle", "wait"}]
    /\ dadTodo \in [Host -> SUBSET Addr]
    /\ dadSignal \in [Host -> BOOLEAN]
    /\ dadTlla \in [Host -> Host \cup {None}]
    /\ nd_cache \in [Host -> [Addr -> Host \cup {None}]]
    /\ rxq \in [Host -> Seq(Packet)]
    /\ resolves \in [Host -> 0..MaxResolve]
    /\ asked \subseteq Host \X Addr

Init ==
    /\ ip6_host = Static
    /\ candidate = [h \in Host |-> None]
    /\ dadPc = [h \in Host |-> "idle"]
    /\ dadTodo = Tentative
    /\ dadSignal = [h \in Host |-> FALSE]
    /\ dadTlla = [h \in Host |-> None]
    /\ nd_cache = [h \in Host |-> [a \in Addr |-> None]]
    /\ rxq = [h \in Host |-> <<>>]
    /\ resolves = [h \in Host |-> 0]
    /\ asked = {}

(***************************************************************************)
(* _phtx_icmp6 down to the wire.  A multicast frame reaches every other    *)
(* host; a unicast frame reaches the host whose MAC the sender's cache     *)
(* holds for the destination, and is not sent when there is none.  q is    *)
(* the link before the send.                                               *)
(***************************************************************************)
Send(q, h, cache, type, src, dst, target, lla) ==
    LET receivers == IF dst \in Group THEN Host \ {h}
                     ELSE IF dst \in DOMAIN cache /\ cache[dst] \in Host \ {h}
                          THEN {cache[dst]}
                     ELSE {}
        frame == [type |-> type, src |-> src, dst |-> dst, target |-> target,
                  lla |-> lla]
    IN  [g \in Host |-> IF g \in receivers THEN Append(q[g], frame) ELSE q[g]]

(***************************************************************************)
(* NdCache._send_icmp6_neighbor_solicitation: the source is the last      *)
(* assigned address whose network contains the target, else ::.           *)
(***************************************************************************)
\* Mutant: ip6_src is not given the default "::" before the loop.
NsSourceNoDefault(h, a) ==
    LET i == SelectLastInSeq(ip6_host[h], LAMBDA x : Prefix(x) = Prefix(a))
    IN  IF i = 0 THEN None ELSE ip6_host[h][i]

NsSource(h, a) ==
    LET i == SelectLastInSeq(ip6_host[h], LAMBDA x : Prefix(x) = Prefix(a))
    IN  IF i = 0 THEN Unspec ELSE ip6_host[h][i]

\* find_entry(a) on a miss: NS to the solicited-node group, SLLA = own MAC.
FindEntryMiss(h, a) ==
    /\ a \notin Unicast(h)
    /\ nd_cache[h][a] = None
    /\ resolves[h] < MaxResolve
    /\ resolves' = [resolves EXCEPT ![h] = @ + 1]
    /\ asked' = IF /\ \E g \in Host \ {h} : a \in Unicast(g)
                   /\ a \notin dadTodo[h] \cup {candidate[h]}
                THEN asked \cup {<<h, a>>} ELSE asked
    /\ rxq' = Send(rxq, h, nd_cache[h], "NS", NsSource(h, a), Snm(a), a, h)
    /\ UNCHANGED <<ip6_host, candidate, dadPc, dadTodo, dadSignal, dadTlla, nd_cache>>

(***************************************************************************)
(* Inbound NS: answer for our own unicast addresses, learn the sender's   *)
(* SLLA, and answer a DAD probe (source ::) to all-nodes.  rest is the     *)
(* link once the frame has been taken off it.                              *)
(***************************************************************************)
\* Mutant: the DAD case forgotten, every NA goes back to the NS source.
NaDstToSource(p) == p.src

NaDst(p) == IF p.src = Unspec THEN AllNodes ELSE p.src

\* Mutant: the NA sent without its TLLA option.
RxNsNoTlla(h, p, rest) ==
    IF p.target \notin Unicast(h)
    THEN /\ rxq' = rest
         /\ UNCHANGED nd_cache
    ELSE LET cache == IF p.src # Unspec /\ p.lla # None
                         THEN [nd_cache[h] EXCEPT ![p.src] = p.lla]
                         ELSE nd_cache[h]
         IN  /\ nd_cache' = [nd_cache EXCEPT ![h] = cache]
             /\ rxq' = Send(rest, h, cache, "NA", p.target, NaDst(p), p.target, None)

\* Mutant: the SLLA filed under the NS target instead of the NS source.
RxNsLearnTarget(h, p, rest) ==
    IF p.target \notin Unicast(h)
    THEN /\ rxq' = rest
         /\ UNCHANGED nd_cache
    ELSE LET cache == IF p.src # Unspec /\ p.lla # None
                         THEN [nd_cache[h] EXCEPT ![p.target] = p.lla]
                         ELSE nd_cache[h]
         IN  /\ nd_cache' = [nd_cache EXCEPT ![h] = cache]
             /\ rxq' = Send(rest, h, cache, "NA", p.target, NaDst(p), p.target, h)

RxNs(h, p, rest) ==
    IF p.target \notin Unicast(h)
    THEN /\ rxq' = rest
         /\ UNCHANGED nd_cache
    ELSE LET cache == IF p.src # Unspec /\ p.lla # None
                         THEN [nd_cache[h] EXCEPT ![p.src] = p.lla]
                         ELSE nd_cache[h]
         IN  /\ nd_cache' = [nd_cache EXCEPT ![h] = cache]
             /\ rxq' = Send(rest, h, cache, "NA", p.target, NaDst(p), p.target, h)

\* Mutant: the candidate tested for presence, not compared with the target.
RxNaAnyCandidate(h, p, rest) ==
    /\ rxq' = rest
    /\ IF candidate[h] # None
       THEN /\ dadTlla' = [dadTlla EXCEPT ![h] = p.lla]
            /\ dadSignal' = [dadSignal EXCEPT ![h] = TRUE]
            /\ UNCHANGED nd_cache
       ELSE /\ nd_cache' = IF p.lla # None
                           THEN [nd_cache EXCEPT ![h][p.target] = p.lla]
                           ELSE nd_cache
            /\ UNCHANGED <<dadTlla, dadSignal>>

(***************************************************************************)
(* Inbound NA: an NA for the DAD candidate records its TLLA and releases   *)
(* the DAD event; any other NA with a TLLA updates the cache.              *)
(***************************************************************************)
RxNa(h, p, rest) ==
    /\ rxq' = rest
    /\ IF p.target = candidate[h]
       THEN /\ dadTlla' = [dadTlla EXCEPT ![h] = p.lla]
            /\ dadSignal' = [dadSignal EXCEPT ![h] = TRUE]
            /\ UNCHANGED nd_cache
       ELSE /\ nd_cache' = IF p.lla # None
                           THEN [nd_cache EXCEPT ![h][p.target] = p.lla]
                           ELSE nd_cache
            /\ UNCHANGED <<dadTlla, dadSignal>>

(***************************************************************************)
(* The RX thread of host h takes the next frame: the IPv6 destination      *)
(* filter, then the ICMPv6 handler for its type.                           *)
(***************************************************************************)
Receive(h) ==
    /\ rxq[h] # <<>>
    /\ LET p == Head(rxq[h])
           rest == [rxq EXCEPT ![h] = Tail(@)]
       IN  IF p.dst \notin Unicast(h) \cup Multicast(h)
           THEN /\ rxq' = rest
                /\ UNCHANGED <<nd_cache, dadTlla, dadSignal>>
           ELSE IF p.type = "NS"
           THEN /\ RxNs(h, p, rest)
                /\ UNCHANGED <<dadTlla, dadSignal>>
           ELSE RxNa(h, p, rest)
    /\ UNCHANGED <<ip6_host, candidate, dadPc, dadTodo, resolves, asked>>

(***************************************************************************)
(* The DAD driver (spec 4.3): register the candidate, which joins its      *)
(* solicited-node group, and probe with an NS from :: without SLLA.        *)
(***************************************************************************)
DadStart(h) ==
    /\ dadPc[h] = "idle"
    /\ \E a \in dadTodo[h] :
          /\ candidate' = [candidate EXCEPT ![h] = a]
          /\ dadTodo' = [dadTodo EXCEPT ![h] = @ \ {a}]
          /\ rxq' = Send(rxq, h, nd_cache[h], "NS", Unspec, Snm(a), a, None)
    /\ dadPc' = [dadPc EXCEPT ![h] = "wait"]
    /\ dadSignal' = [dadSignal EXCEPT ![h] = FALSE]
    /\ dadTlla' = [dadTlla EXCEPT ![h] = None]
    /\ UNCHANGED <<ip6_host, nd_cache, resolves, asked>>

\* The event was released by a matching NA: the address is in use.
DadCollision(h) ==
    /\ dadPc[h] = "wait"
    /\ dadSignal[h]
    /\ candidate' = [candidate EXCEPT ![h] = None]
    /\ dadPc' = [dadPc EXCEPT ![h] = "idle"]
    /\ UNCHANGED <<ip6_host, dadTodo, dadSignal, dadTlla, nd_cache, rxq, resolves, asked>>

\* A frame about address a is still on the link.
InFlight(a) == \E g \in Host : \E i \in 1..Len(rxq[g]) : rxq[g][i].target = a

(***************************************************************************)
(* The wait timed out: the candidate is installed.  Under TimelyNetwork    *)
(* the timeout cannot fire while a frame about the candidate is in flight. *)
(***************************************************************************)
DadTimeout(h) ==
    /\ dadPc[h] = "wait"
    /\ ~dadSignal[h]
    /\ TimelyNetwork => ~InFlight(candidate[h])
    /\ ip6_host' = [ip6_host EXCEPT ![h] = Append(@, candidate[h])]
    /\ candidate' = [candidate EXCEPT ![h] = None]
    /\ dadPc' = [dadPc EXCEPT ![h] = "idle"]
    /\ UNCHANGED <<dadTodo, dadSignal, dadTlla, nd_cache, rxq, resolves, asked>>

Next ==
    \/ \E h \in Host, a \in Addr : FindEntryMiss(h, a)
    \/ \E h \in Host : Receive(h)
    \/ \E h \in Host : DadStart(h) \/ DadCollision(h) \/ DadTimeout(h)

Fairness ==
    \A h \in Host : /\ WF_vars(Receive(h))
                    /\ WF_vars(DadStart(h))
                    /\ WF_vars(DadCollision(h))
                    /\ WF_vars(DadTimeout(h))

Spec == Init /\ [][Next]_vars /\ Fairness

(***************************************************************************)
(* Properties                                                              *)
(***************************************************************************)

(***************************************************************************)
(* DAD's promise: no address is assigned to two stacks on the link.  The   *)
(* probe of one stack must reach the owner, be answered to all-nodes and   *)
(* be matched against the candidate before the timeout installs it.        *)
(***************************************************************************)
UniqueAssignment ==
    \A a \in Addr, h1, h2 \in Host :
        (h1 # h2 /\ a \in Unicast(h1)) => a \notin Unicast(h2)

(***************************************************************************)
(* Every binding a stack learns from NS/NA traffic points at a stack that  *)
(* has the address assigned: NS sources, NA targets and the LLA options    *)
(* are taken from the right fields of the right packets.                   *)
(***************************************************************************)
CacheBindingsCorrect ==
    \A h \in Host, a \in Addr :
        nd_cache[h][a] # None => a \in Unicast(nd_cache[h][a])

(***************************************************************************)
(* A DAD attempt is released only by evidence of a duplicate: while the    *)
(* event of h's current attempt is set, the TLLA it captured names another *)
(* stack that has the candidate assigned.  The NA branch must match the    *)
(* target against the candidate of this attempt, and each attempt must     *)
(* start with a fresh event and no captured TLLA.                          *)
(***************************************************************************)
DadEvidence ==
    \A h \in Host :
        dadPc[h] = "wait" /\ dadSignal[h] =>
            /\ dadTlla[h] \in Host \ {h}
            /\ candidate[h] \in Unicast(dadTlla[h])

(***************************************************************************)
(* Address resolution completes: when find_entry has sent an NS for an    *)
(* address another stack has assigned, h eventually holds a binding for   *)
(* it for good.  The owner must answer with its TLLA to a destination     *)
(* that reaches h (all-nodes when the NS came from ::, the NS source      *)
(* otherwise, through the binding the owner just learned from the SLLA),  *)
(* and h's NA branch must file the TLLA under the target.                 *)
(***************************************************************************)
ResolutionCompletes ==
    <>[](\A <<h, a>> \in asked : nd_cache[h][a] # None)

=============================================================================
