---------------------------- MODULE Dhcp4Client ----------------------------
(***************************************************************************)
(* Dhcp4Client.fetch of src/pytcp/dhcp4/client.py: Discover, wait for an   *)
(* Offer, Request, wait for an Ack, each wait ending in a 5 s timeout.     *)
(* Several clients (stacks, each identified with its MAC) and several      *)
(* DHCP servers share one broadcast domain.  The servers are the           *)
(* environment and follow RFC 2131: an Offer keeps an address for its      *)
(* client, a Request naming the server and that address is Acked, any      *)
(* other Request to it is Nak'ed.                                          *)
(*                                                                         *)
(* A client's socket is a FIFO of the server messages it receives, open    *)
(* from bind to close.  Replies go to the client's MAC, or to every open   *)
(* client socket when the servers broadcast them (Broadcast).  With Lossy  *)
(* any message may be lost and a wait may time out at any time; without    *)
(* it a wait times out only once no message of the exchange is in flight.  *)
(* A server with no subnet mask configured leaves option 1 out of its      *)
(* replies (MaskLess), which RFC 2131 4.3.1 allows.                        *)
(***************************************************************************)
EXTENDS Naturals, Sequences

CONSTANTS
    Client,     \* the stacks running fetch(), by MAC address
    Server,     \* DHCP servers, by server identifier
    Addr,       \* addresses the servers hand out
    Pool(_),    \* Pool(s): the addresses server s hands out
    XidBits,    \* width of the xid field (32 in the code)
    None,       \* Python None
    Broadcast,  \* servers broadcast their replies
    Lossy,      \* the link loses messages
    MaskLess    \* servers that send no subnet mask option

ASSUME /\ None \notin Addr \cup Server
       /\ \A s \in Server : Pool(s) \subseteq Addr
       /\ XidBits \in Nat \ {0}
       /\ Broadcast \in BOOLEAN
       /\ Lossy \in BOOLEAN
       /\ MaskLess \subseteq Server

VARIABLES
    pc,        \* where fetch() is: "init", "offer", "ack", "done", or
               \* "raised" when it has left by an exception
    bound,     \* bound[c]: c's socket is bound to port 68
    xid,       \* dhcp_xid
    offer,     \* (dhcp_srv_id, dhcp_yiaddr) of the Offer taken, or None
    rx,        \* dhcp_packet_rx of the Ack wait, or None
    result,    \* the address fetch() returned, or None
    sock,      \* sock[c]: server messages queued on c's port-68 socket
    srvq,      \* srvq[s]: client messages queued at server s
    offered,   \* offered[s][c]: the address s keeps for c, or None
    leased     \* leased[s][c]: the address s has Acked to c, or None

vars == <<pc, bound, xid, offer, rx, result, sock, srvq, offered, leased>>

\* The values the 4-byte xid field of Dhcp4Packet holds.
Xid == 0..(2^XidBits - 1)

ClientMsg == [type: {"DISCOVER", "REQUEST"}, xid: Xid, chaddr: Client,
              srv_id: Server \cup {None}, req_ip: Addr \cup {None}]

ServerMsg == [type: {"OFFER", "ACK", "NAK"}, xid: Xid, chaddr: Client,
              srv_id: Server, yiaddr: Addr \cup {None}, mask: BOOLEAN]

TypeOK ==
    /\ pc \in [Client -> {"init", "offer", "ack", "done", "raised"}]
    /\ bound \in [Client -> BOOLEAN]
    /\ xid \in [Client -> Xid]
    /\ offer \in [Client -> [srv: Server, yiaddr: Addr] \cup {None}]
    /\ rx \in [Client -> ServerMsg \cup {None}]
    /\ result \in [Client -> Addr \cup {None}]
    /\ sock \in [Client -> Seq(ServerMsg)]
    /\ srvq \in [Server -> Seq(ClientMsg)]
    /\ offered \in [Server -> [Client -> Addr \cup {None}]]
    /\ leased \in [Server -> [Client -> Addr \cup {None}]]

Init ==
    /\ pc = [c \in Client |-> "init"]
    /\ bound = [c \in Client |-> FALSE]
    /\ xid = [c \in Client |-> 0]
    /\ offer = [c \in Client |-> None]
    /\ rx = [c \in Client |-> None]
    /\ result = [c \in Client |-> None]
    /\ sock = [c \in Client |-> <<>>]
    /\ srvq = [s \in Server |-> <<>>]
    /\ offered = [s \in Server |-> [c \in Client |-> None]]
    /\ leased = [s \in Server |-> [c \in Client |-> None]]

\* s.send() to 255.255.255.255:67: every server gets it, unless lost.
SendToServers(m) ==
    \E got \in SUBSET Server :
        /\ ~Lossy => got = Server
        /\ srvq' = [s \in Server |-> IF s \in got THEN Append(srvq[s], m)
                                     ELSE srvq[s]]

\* s.close(): the socket is unbound and gone with whatever it still held.
Close(c) ==
    /\ bound' = [bound EXCEPT ![c] = FALSE]
    /\ sock' = [sock EXCEPT ![c] = <<>>]

\* A message of c's exchange is still on its way.
Pending(c) ==
    \/ sock[c] # <<>>
    \/ \E s \in Server : \E i \in 1..Len(srvq[s]) : srvq[s][i].chaddr = c

\* Mutant: random.randint(0, 0x100000000), one past the field.
DiscoverXidOverflow(c) ==
    /\ pc[c] = "init"
    /\ \E x \in 0..(2^XidBits) :
          /\ xid' = [xid EXCEPT ![c] = x]
          /\ SendToServers([type |-> "DISCOVER", xid |-> x, chaddr |-> c,
                            srv_id |-> None, req_ip |-> None])
    /\ pc' = [pc EXCEPT ![c] = "offer"]
    /\ bound' = [bound EXCEPT ![c] = TRUE]
    /\ UNCHANGED <<offer, rx, result, sock, offered, leased>>

(***************************************************************************)
(* fetch(): bind, connect, draw dhcp_xid and broadcast the Discover.       *)
(***************************************************************************)
Discover(c) ==
    /\ pc[c] = "init"
    /\ \E x \in Xid :
          /\ xid' = [xid EXCEPT ![c] = x]
          /\ SendToServers([type |-> "DISCOVER", xid |-> x, chaddr |-> c,
                            srv_id |-> None, req_ip |-> None])
    /\ pc' = [pc EXCEPT ![c] = "offer"]
    /\ bound' = [bound EXCEPT ![c] = TRUE]
    /\ UNCHANGED <<offer, rx, result, sock, offered, leased>>

\* Mutant: recv() without a timeout, so the wait never gives up.
OfferTimeoutNever(c) == FALSE

\* recv(timeout=5) raises ReceiveTimeout: close and return (None, None).
OfferTimeout(c) ==
    /\ pc[c] = "offer"
    /\ sock[c] = <<>>
    /\ ~Lossy => ~Pending(c)
    /\ pc' = [pc EXCEPT ![c] = "done"]
    /\ Close(c)
    /\ UNCHANGED <<xid, offer, rx, result, srvq, offered, leased>>

(***************************************************************************)
(* The Offer wait: anything but an Offer ends fetch() with (None, None);   *)
(* an Offer is answered by a broadcast Request naming its server and       *)
(* address, under the same dhcp_xid.                                       *)
(***************************************************************************)
RecvOffer(c) ==
    /\ pc[c] = "offer"
    /\ sock[c] # <<>>
    /\ LET m == Head(sock[c]) IN
       IF m.type # "OFFER"
       THEN /\ pc' = [pc EXCEPT ![c] = "done"]
            /\ Close(c)
            /\ UNCHANGED <<offer, srvq>>
       ELSE /\ offer' = [offer EXCEPT ![c] = [srv |-> m.srv_id, yiaddr |-> m.yiaddr]]
            /\ SendToServers([type |-> "REQUEST", xid |-> xid[c], chaddr |-> c,
                              srv_id |-> m.srv_id, req_ip |-> m.yiaddr])
            /\ sock' = [sock EXCEPT ![c] = Tail(@)]
            /\ pc' = [pc EXCEPT ![c] = "ack"]
            /\ UNCHANGED bound
    /\ UNCHANGED <<xid, rx, result, offered, leased>>

\* Mutant: the subnet mask asserted before s.close().
RecvAckAssertBeforeClose(c) ==
    /\ pc[c] = "ack"
    /\ sock[c] # <<>>
    /\ LET m == Head(sock[c]) IN
       /\ rx' = [rx EXCEPT ![c] = m]
       /\ \/ /\ m.type # "ACK"
             /\ pc' = [pc EXCEPT ![c] = "done"]
             /\ Close(c)
             /\ UNCHANGED result
          \/ /\ m.type = "ACK" /\ m.mask
             /\ pc' = [pc EXCEPT ![c] = "done"]
             /\ Close(c)
             /\ result' = [result EXCEPT ![c] = m.yiaddr]
          \/ /\ m.type = "ACK" /\ ~m.mask
             /\ pc' = [pc EXCEPT ![c] = "raised"]
             /\ UNCHANGED <<bound, sock, result>>
    /\ UNCHANGED <<xid, offer, srvq, offered, leased>>

(***************************************************************************)
(* The Ack wait: anything but an Ack closes the socket and ends fetch()    *)
(* with (None, None).  An Ack closes the socket; then the assert on its    *)
(* subnet mask either passes, and fetch() returns the Ack's yiaddr (with   *)
(* its mask), or raises AssertionError out of fetch().                     *)
(***************************************************************************)
RecvAck(c) ==
    /\ pc[c] = "ack"
    /\ sock[c] # <<>>
    /\ LET m == Head(sock[c]) IN
       /\ rx' = [rx EXCEPT ![c] = m]
       /\ Close(c)
       /\ \/ /\ m.type # "ACK"
             /\ pc' = [pc EXCEPT ![c] = "done"]
             /\ UNCHANGED result
          \/ /\ m.type = "ACK" /\ m.mask
             /\ pc' = [pc EXCEPT ![c] = "done"]
             /\ result' = [result EXCEPT ![c] = m.yiaddr]
          \/ /\ m.type = "ACK" /\ ~m.mask
             /\ pc' = [pc EXCEPT ![c] = "raised"]
             /\ UNCHANGED result
    /\ UNCHANGED <<xid, offer, srvq, offered, leased>>

AckTimeout(c) ==
    /\ pc[c] = "ack"
    /\ sock[c] = <<>>
    /\ ~Lossy => ~Pending(c)
    /\ pc' = [pc EXCEPT ![c] = "done"]
    /\ Close(c)
    /\ UNCHANGED <<xid, offer, rx, result, srvq, offered, leased>>

(***************************************************************************)
(* The servers (RFC 2131, not part of this repository).  A reply goes to   *)
(* the open socket of its client, or of every client when broadcast.       *)
(***************************************************************************)
Open == {c \in Client : bound[c]}

Reply(m) ==
    LET to == IF Broadcast THEN Open ELSE {m.chaddr} \cap Open
    IN  \E got \in SUBSET to :
           /\ ~Lossy => got = to
           /\ sock' = [c \in Client |-> IF c \in got THEN Append(sock[c], m)
                                        ELSE sock[c]]

\* Addresses of s's pool not kept for, nor leased to, another client.
Free(s, c) ==
    Pool(s) \ ({offered[s][d] : d \in Client \ {c}}
               \cup {leased[s][d] : d \in Client \ {c}})

ServerDiscover(s) ==
    /\ srvq[s] # <<>>
    /\ LET m == Head(srvq[s]) IN
       /\ m.type = "DISCOVER"
       /\ srvq' = [srvq EXCEPT ![s] = Tail(@)]
       /\ IF offered[s][m.chaddr] = None /\ Free(s, m.chaddr) = {}
          THEN UNCHANGED <<offered, sock>>
          ELSE \E a \in IF offered[s][m.chaddr] # None
                         THEN {offered[s][m.chaddr]} ELSE Free(s, m.chaddr) :
                  /\ offered' = [offered EXCEPT ![s][m.chaddr] = a]
                  /\ Reply([type |-> "OFFER", xid |-> m.xid, chaddr |-> m.chaddr,
                            srv_id |-> s, yiaddr |-> a, mask |-> s \notin MaskLess])
    /\ UNCHANGED <<pc, bound, xid, offer, rx, result, leased>>

ServerRequest(s) ==
    /\ srvq[s] # <<>>
    /\ LET m == Head(srvq[s]) IN
       /\ m.type = "REQUEST"
       /\ srvq' = [srvq EXCEPT ![s] = Tail(@)]
       /\ IF m.srv_id # s
          THEN /\ offered' = [offered EXCEPT ![s][m.chaddr] = None]
               /\ UNCHANGED <<leased, sock>>
          ELSE IF m.req_ip # None /\ m.req_ip = offered[s][m.chaddr]
          THEN /\ leased' = [leased EXCEPT ![s][m.chaddr] = m.req_ip]
               /\ Reply([type |-> "ACK", xid |-> m.xid, chaddr |-> m.chaddr,
                         srv_id |-> s, yiaddr |-> m.req_ip, mask |-> s \notin MaskLess])
               /\ UNCHANGED offered
          ELSE /\ Reply([type |-> "NAK", xid |-> m.xid, chaddr |-> m.chaddr,
                         srv_id |-> s, yiaddr |-> None, mask |-> s \notin MaskLess])
               /\ UNCHANGED <<offered, leased>>
    /\ UNCHANGED <<pc, bound, xid, offer, rx, result>>

Next ==
    \/ \E c \in Client : \/ Discover(c) \/ RecvOffer(c) \/ OfferTimeout(c)
                        \/ RecvAck(c) \/ AckTimeout(c)
    \/ \E s \in Server : ServerDiscover(s) \/ ServerRequest(s)

\* fetch() runs to its end, and servers answer what they receive.
Fairness ==
    /\ \A c \in Client : WF_vars(Discover(c) \/ RecvOffer(c) \/ OfferTimeout(c)
                                \/ RecvAck(c) \/ AckTimeout(c))
    /\ \A s \in Server : WF_vars(ServerDiscover(s) \/ ServerRequest(s))

Spec == Init /\ [][Next]_vars /\ Fairness

(***************************************************************************)
(* Properties                                                              *)
(***************************************************************************)

(***************************************************************************)
(* Whichever way fetch() has ended (a timeout, a reply of the wrong type,  *)
(* a returned Ack, or the AssertionError on an Ack without a subnet mask)  *)
(* its port-68 socket is closed and holds nothing: no reply of a server,   *)
(* late or broadcast, is queued for a fetch() that has ended.              *)
(***************************************************************************)
SocketReleased ==
    \A c \in Client : pc[c] \in {"done", "raised"} => ~bound[c] /\ sock[c] = <<>>

(***************************************************************************)
(* No two clients return the same address from fetch().                    *)
(***************************************************************************)
UniqueResult ==
    \A c, d \in Client : c # d /\ result[c] # None => result[c] # result[d]

(***************************************************************************)
(* fetch() implements DhcpLease: every fetch() ends, by returning or by   *)
(* raising, and returns an address only if the server whose Ack it took   *)
(* has leased that address to this client and to no other.  A client is   *)
(* busy from its Discover to its end; a lease is the Ack a server sends,  *)
(* whether or not the client is still there to take it.                  *)
(***************************************************************************)
Lease == INSTANCE DhcpLease WITH
    state <- [c \in Client |-> CASE pc[c] = "init" -> "idle"
                                 [] pc[c] = "done" -> "done"
                                 [] pc[c] = "raised" -> "failed"
                                 [] OTHER -> "busy"],
    granted <- [c \in Client |-> {leased[s][c] : s \in Server} \ {None}]

FetchImplementsLease == Lease!Spec

(***************************************************************************)
(* On a link that loses nothing, with servers that have addresses to give, *)
(* every fetch() returns an address.                                       *)
(***************************************************************************)
FetchSucceeds == <>(\A c \in Client : result[c] # None)

=============================================================================
