------------------------------ MODULE Icmp6Rx ------------------------------
(***************************************************************************)
(* The branches of _phrx_icmp6 (src/icmp6/phrx.py) that Icmp6Nd leaves     *)
(* out, behind the IPv6 destination filter of _phrx_ip6:                   *)
(*   - parse failure, Router Solicitation, Router Advertisement, Echo      *)
(*     Request and Destination Unreachable;                                *)
(*   - the SLAAC driver that consumes the RA event (spec 4.4; its code is  *)
(*     not under src/), as a second thread racing the RX thread;           *)
(*   - the UDP socket registry and UdpMetadata.socket_patterns (spec 4.2,  *)
(*     not under src/), which the Unreachable branch searches.             *)
(*                                                                         *)
(* The RX thread handles one frame per step, so each Receive is atomic.    *)
(* Frames come from the link, at most MaxFrames of them.                   *)
(***************************************************************************)
EXTENDS Naturals, FiniteSets

CONSTANTS
    OwnAddr,     \* self.ip6_unicast
    OwnGroup,    \* self.ip6_multicast
    AllNodes,    \* ff02::1, in OwnGroup
    OtherDst,    \* destinations of frames meant for someone else
    PeerAddr,    \* addresses of the other nodes on the link
    Router,      \* the peers that send Router Advertisements
    PrefixInfo,  \* Prefix Information options: [prefix, autoconf, len64]
    Port,        \* UDP ports
    Wildcard,    \* the wildcard of a socket pattern
    Socket,      \* stack.sockets: the UDP sockets open on the stack
    Id,          \* Echo identifiers
    MaxFrames    \* frames the link delivers

ASSUME /\ AllNodes \in OwnGroup
       /\ Router \subseteq PeerAddr
       /\ MaxFrames \in Nat

VARIABLES
    icmp6_ra_prefixes,  \* [(prefix_info, router)] of the last RA
    raEvent,            \* count of event_icmp6_ra
    echoReplies,        \* Echo Replies handed to _phtx_icmp6
    notified,           \* notify_unreachable() calls: socket, quoted datagram
    slaacPc,            \* SLAAC driver: "init", "wait", "install", "done"
    slaacTodo,          \* prefixes SLAAC still has to try
    slaacHosts,         \* hosts SLAAC installed: [prefix, gateway]
    raSent,             \* history: (router, option) pairs routers advertised
    frames              \* frames received so far

vars == <<icmp6_ra_prefixes, raEvent, echoReplies, notified, slaacPc,
          slaacTodo, slaacHosts, raSent, frames>>

Dst == OwnAddr \cup OwnGroup \cup OtherDst

Prefix == {pi.prefix : pi \in PrefixInfo}

\* The first 48 bytes of the datagram quoted in an Unreachable: intact says
\* len(frame) >= 40 + 8 and the version nibble is 6; next is the byte at
\* offset 6, "EXT" when an extension header comes before UDP.
Datagram == [intact: BOOLEAN, next: {"UDP", "EXT"}, src: OwnAddr,
             dst: PeerAddr, sport: Port, dport: Port]

Frame ==
    [type: {"MALFORMED", "RS"}, src: PeerAddr, dst: Dst]
    \cup [type: {"ECHO_REQ"}, src: PeerAddr, dst: Dst, id: Id]
    \cup [type: {"RA"}, src: Router, dst: {AllNodes}, pi: SUBSET PrefixInfo]
    \cup [type: {"UNREACH"}, src: Router, dst: OwnAddr, data: Datagram]

TypeOK ==
    /\ icmp6_ra_prefixes \subseteq [pi: PrefixInfo, router: PeerAddr]
    /\ raEvent \in 0..MaxFrames
    /\ echoReplies \subseteq [src: Dst, dst: PeerAddr, id: Id]
    /\ notified \subseteq [sock: Socket, data: Datagram]
    /\ slaacPc \in {"init", "wait", "install", "done"}
    /\ slaacTodo \subseteq [pi: PrefixInfo, router: PeerAddr]
    /\ slaacHosts \subseteq [prefix: Prefix, gateway: PeerAddr]
    /\ raSent \subseteq [pi: PrefixInfo, router: Router]
    /\ frames \in 0..MaxFrames

Init ==
    /\ icmp6_ra_prefixes = {}
    /\ raEvent = 0
    /\ echoReplies = {}
    /\ notified = {}
    /\ slaacPc = "init"
    /\ slaacTodo = {}
    /\ slaacHosts = {}
    /\ raSent = {}
    /\ frames = 0

(***************************************************************************)
(* The handlers of the RX thread, one per ICMPv6 type.                     *)
(***************************************************************************)

\* Router Solicitation: logged and ignored.
RxRs(f) == UNCHANGED <<icmp6_ra_prefixes, raEvent, echoReplies, notified>>

\* Router Advertisement: the prefixes replace the previous list, the event
\* is released.
RxRa(f) ==
    /\ icmp6_ra_prefixes' = {[pi |-> pi, router |-> f.src] : pi \in f.pi}
    /\ raEvent' = raEvent + 1
    /\ UNCHANGED <<echoReplies, notified>>

\* Mutant: the reply keeps the request's addresses.
RxEchoRequestNoSwap(f) ==
    /\ echoReplies' = echoReplies \cup {[src |-> f.src, dst |-> f.dst, id |-> f.id]}
    /\ UNCHANGED <<icmp6_ra_prefixes, raEvent, notified>>

\* Echo Request: a reply from the request's destination to its source.
RxEchoRequest(f) ==
    /\ echoReplies' = echoReplies \cup {[src |-> f.dst, dst |-> f.src, id |-> f.id]}
    /\ UNCHANGED <<icmp6_ra_prefixes, raEvent, notified>>

\* The quick check of the quoted datagram before it is read as IPv6 + UDP.
IsIp6Udp(d) == d.intact /\ d.next = "UDP"

\* UdpMetadata from frame[8:24], frame[24:40] and the first four UDP bytes.
UdpMetadataOf(d) ==
    [local_ip |-> d.src, remote_ip |-> d.dst, local_port |-> d.sport,
     remote_port |-> d.dport]

\* UdpMetadata.socket_patterns, most specific first (spec 4.2).
SocketPatterns(m) ==
    << [local_ip |-> m.local_ip, local_port |-> m.local_port,
        remote_ip |-> m.remote_ip, remote_port |-> m.remote_port],
       [local_ip |-> m.local_ip, local_port |-> m.local_port,
        remote_ip |-> Wildcard, remote_port |-> Wildcard],
       [local_ip |-> Wildcard, local_port |-> m.local_port,
        remote_ip |-> Wildcard, remote_port |-> Wildcard] >>

\* Mutant: no return after notify_unreachable(), every matching socket is told.
RxUnreachableNoReturn(f) ==
    /\ IF IsIp6Udp(f.data)
       THEN LET m == UdpMetadataOf(f.data)
                pats == SocketPatterns(m)
                hits == {i \in 1..3 : pats[i] \in Socket}
            IN  notified' = notified \cup {[sock |-> pats[i], data |-> f.data] : i \in hits}
       ELSE UNCHANGED notified
    /\ UNCHANGED <<icmp6_ra_prefixes, raEvent, echoReplies>>

\* Destination Unreachable: notify the first socket a pattern finds.
RxUnreachable(f) ==
    /\ IF IsIp6Udp(f.data)
       THEN LET m == UdpMetadataOf(f.data)
                pats == SocketPatterns(m)
                hits == {i \in 1..3 : pats[i] \in Socket}
            IN  notified' = IF hits = {} THEN notified
                            ELSE LET i == CHOOSE j \in hits : \A k \in hits : j <= k
                                 IN  notified \cup {[sock |-> pats[i], data |-> f.data]}
       ELSE UNCHANGED notified
    /\ UNCHANGED <<icmp6_ra_prefixes, raEvent, echoReplies>>

(***************************************************************************)
(* The RX thread takes frame f: _phrx_ip6 drops it unless it is addressed  *)
(* to the stack, Icmp6Parser drops it when malformed, then the handler for *)
(* its type runs.                                                          *)
(***************************************************************************)
Receive(f) ==
    /\ frames < MaxFrames
    /\ frames' = frames + 1
    /\ raSent' = IF f.type = "RA"
                 THEN raSent \cup {[pi |-> pi, router |-> f.src] : pi \in f.pi}
                 ELSE raSent
    /\ IF f.dst \notin OwnAddr \cup OwnGroup \/ f.type = "MALFORMED"
       THEN UNCHANGED <<icmp6_ra_prefixes, raEvent, echoReplies, notified>>
       ELSE CASE f.type = "RS"       -> RxRs(f)
              [] f.type = "RA"       -> RxRa(f)
              [] f.type = "ECHO_REQ" -> RxEchoRequest(f)
              [] f.type = "UNREACH"  -> RxUnreachable(f)
    /\ UNCHANGED <<slaacPc, slaacTodo, slaacHosts>>

(***************************************************************************)
(* The SLAAC driver (spec 4.4): send an RS, wait on the RA event with a    *)
(* timeout, then try every autoconf /64 prefix of icmp6_ra_prefixes.  DAD  *)
(* is Icmp6Nd's business: here an attempt installs the host or finds the   *)
(* address in use.                                                         *)
(***************************************************************************)
SlaacSolicit ==
    /\ slaacPc = "init"
    /\ slaacPc' = "wait"
    /\ UNCHANGED <<icmp6_ra_prefixes, raEvent, echoReplies, notified,
                   slaacTodo, slaacHosts, raSent, frames>>

\* Mutant: every prefix of the list is tried, autoconf or not.
SlaacRaNoFilter ==
    /\ slaacPc = "wait"
    /\ raEvent > 0
    /\ raEvent' = raEvent - 1
    /\ slaacTodo' = icmp6_ra_prefixes
    /\ slaacPc' = "install"
    /\ UNCHANGED <<icmp6_ra_prefixes, echoReplies, notified, slaacHosts,
                   raSent, frames>>

\* The RA event is acquired; the prefix list is read once.
SlaacRa ==
    /\ slaacPc = "wait"
    /\ raEvent > 0
    /\ raEvent' = raEvent - 1
    /\ slaacTodo' = {p \in icmp6_ra_prefixes : p.pi.autoconf /\ p.pi.len64}
    /\ slaacPc' = "install"
    /\ UNCHANGED <<icmp6_ra_prefixes, echoReplies, notified, slaacHosts,
                   raSent, frames>>

\* The wait times out with the event still unreleased: no router.
SlaacNoRa ==
    /\ slaacPc = "wait"
    /\ raEvent = 0
    /\ slaacPc' = "done"
    /\ UNCHANGED <<icmp6_ra_prefixes, raEvent, echoReplies, notified,
                   slaacTodo, slaacHosts, raSent, frames>>

\* DAD for the EUI-64 address of p, then install it with p's router.
SlaacInstall ==
    /\ slaacPc = "install"
    /\ \E p \in slaacTodo :
          /\ slaacTodo' = slaacTodo \ {p}
          /\ \/ slaacHosts' = slaacHosts \cup
                               {[prefix |-> p.pi.prefix, gateway |-> p.router]}
             \/ UNCHANGED slaacHosts
    /\ UNCHANGED <<icmp6_ra_prefixes, raEvent, echoReplies, notified, slaacPc,
                   raSent, frames>>

SlaacDone ==
    /\ slaacPc = "install"
    /\ slaacTodo = {}
    /\ slaacPc' = "done"
    /\ UNCHANGED <<icmp6_ra_prefixes, raEvent, echoReplies, notified,
                   slaacTodo, slaacHosts, raSent, frames>>

Next ==
    \/ \E f \in Frame : Receive(f)
    \/ SlaacSolicit \/ SlaacRa \/ SlaacNoRa \/ SlaacInstall \/ SlaacDone

Spec == Init /\ [][Next]_vars

(***************************************************************************)
(* Properties                                                              *)
(***************************************************************************)

(***************************************************************************)
(* A host SLAAC installs has an autoconf /64 prefix that its gateway       *)
(* really advertised: the RA branch pairs each option with the RA's        *)
(* source, and the list SLAAC reads is that of one RA even when another    *)
(* RA replaces it while SLAAC is waiting or installing.                    *)
(***************************************************************************)
SlaacHostsFromRa ==
    \A h \in slaacHosts :
        \E pi \in PrefixInfo :
            /\ pi.prefix = h.prefix /\ pi.autoconf /\ pi.len64
            /\ [pi |-> pi, router |-> h.gateway] \in raSent

\* Socket s could have sent the quoted datagram d: same local port, and
\* each other field is d's or a wildcard.
Fits(s, d) ==
    /\ s.local_port = d.sport
    /\ s.local_ip \in {d.src, Wildcard}
    /\ s.remote_ip \in {d.dst, Wildcard}
    /\ s.remote_port \in {d.dport, Wildcard}

\* The fields a socket binds to a value rather than to the wildcard.
BoundFields(s) == {k \in {"local_ip", "remote_ip", "remote_port"} : s[k] # Wildcard}

(***************************************************************************)
(* The Unreachable branch tells exactly one socket, the most specific one  *)
(* open for the quoted datagram, and only for a quote that passed the      *)
(* version and next-header check: a connected socket is told before a      *)
(* socket bound to an address, and that one before a port-only socket,    *)
(* and a quote that one socket matched tells no other socket.              *)
(***************************************************************************)
UnreachableToMostSpecific ==
    \A n \in notified :
        /\ n.data.intact /\ n.data.next = "UDP"
        /\ Fits(n.sock, n.data)
        /\ \A s \in Socket : Fits(s, n.data) => BoundFields(s) \subseteq BoundFields(n.sock)

=============================================================================
