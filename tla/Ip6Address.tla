---------------------------- MODULE Ip6Address ----------------------------
(***************************************************************************)
(* Integer arithmetic of src/pytcp/lib/ip6_address.py: the range check of  *)
(* Ip6Address(int), Ip6Mask from "/n" and from an int, the network of an   *)
(* (address, mask) pair and Ip6Network.last.  The code works on 128-bit    *)
(* ints; here the width is the constant Width, and 2^Width - 1 stands for  *)
(* 0xFFFF...FFFF wherever the code spells out an all-ones literal.         *)
(*                                                                         *)
(* The state is one Ip6Network((Ip6Address(address), Ip6Mask("/n")))     *)
(* construction: its operands and the _address and _mask it stores.  Every *)
(* step builds a new one, so the invariants below are checked for every    *)
(* address and every prefix length.                                        *)
(*                                                                         *)
(* The fixed-prefix classifiers, solicited_node_multicast, multicast_mac,  *)
(* __bytes__ and Ip6Network.eui64 need the full 128 bits: there an int is  *)
(* held as eight 16-bit groups, most significant first, and the Python     *)
(* operators &, |, ^, << 16 and range() act on the groups.  The state adds *)
(* one such address, taken from the constant set Probe, and one MAC.       *)
(***************************************************************************)
EXTENDS Naturals, Sequences, Bitwise

CONSTANTS
    Width,   \* 128 in the code
    Probe,   \* 128-bit addresses to try, as eight 16-bit groups
    Mac      \* 48-bit MAC addresses to try, as three 16-bit groups

ASSUME Width \in Nat \ {0}

VARIABLES
    address,     \* int(Ip6Address) passed in
    prefixLen,   \* n of Ip6Mask("/n") passed in
    netAddress,  \* int(Ip6Network._address)
    netMask,     \* int(Ip6Network._mask)
    addr6,       \* int(Ip6Address) of a full-width address
    mac          \* int(MacAddress) passed to eui64

vars == <<address, prefixLen, netAddress, netMask, addr6, mac>>

Ones == 2^Width - 1

\* Ip6Address(int): accepted when address in range(340282366920938463463374607431768211455)
IsIp6AddressInt(x) == x \in 0..(Ones - 1)

\* Mutant: one "0" too many, int("1" * n + "0" * (129 - n), 2).
MaskFromLenLong(n) == (2^n - 1) * 2^(Width - n + 1)

\* Ip6Mask("/n"): int("1" * n + "0" * (128 - n), 2)
MaskFromLen(n) == Ones - (2^(Width - n) - 1)

\* Character i of f"{mask:0128b}", most significant first.
MaskBit(x, i) == (x \div 2^(Width - 1 - i)) % 2

\* Mutant: the test run from the first "1" looking for a "0".
ValidateBitsFromFirstOne(x) ==
    \A i, j \in 0..(Width - 1) : (i < j /\ MaskBit(x, i) = 1) => MaskBit(x, j) = 1

\* Ip6Mask._validate_bits: no "1" after the first "0" (True when no "0").
ValidateBits(x) ==
    \A i, j \in 0..(Width - 1) : (i < j /\ MaskBit(x, i) = 0) => MaskBit(x, j) = 0

\* Ip6Mask(int): accepted when in range(2^128) and _validate_bits().
IsIp6MaskInt(x) == x \in 0..Ones /\ ValidateBits(x)

\* Ip6Network((address, mask)): Ip6Address(int(address) & int(mask))
NetworkAddress(a, m) == a & m

\* Mutant: the host part counted as the network size, one too many.
LastBySize(a, m) == NetworkAddress(a, m) + (Ones - m) + 1

\* Ip6Network.last: int(address) + (~int(mask) & 0xFFFF...FFFF)
Last(a, m) == NetworkAddress(a, m) + (Ones - m)

(***************************************************************************)
(* Full-width ints as eight 16-bit groups, most significant first.  The   *)
(* bound 2^128 of range() is written with a first group of 65536.          *)
(***************************************************************************)
Grp == 1..8

WAnd(x, y) == [i \in Grp |-> x[i] & y[i]]
WOr(x, y)  == [i \in Grp |-> x[i] | y[i]]
WXor(x, y) == [i \in Grp |-> x[i] ^^ y[i]]

\* x << 16, for an x below 2^112
WShl16(x) == [i \in Grp |-> IF i < 8 THEN x[i + 1] ELSE 0]

\* x < y, comparing the groups from the most significant one
WLess(x, y) == \E i \in Grp : x[i] < y[i] /\ \A j \in 1..(i - 1) : x[j] = y[j]

\* x in range(lo, hi)
InRange(x, lo, hi) == ~WLess(x, lo) /\ WLess(x, hi)

(***************************************************************************)
(* The Ip6Address classifiers: the decimal range() literals of the code,   *)
(* written in groups.                                                      *)
(***************************************************************************)
IsGlobal(x) == InRange(x, <<\h2000, 0, 0, 0, 0, 0, 0, 0>>, <<\h4000, 0, 0, 0, 0, 0, 0, 0>>)

IsPrivate(x) == InRange(x, <<\hfc00, 0, 0, 0, 0, 0, 0, 0>>, <<\hfe00, 0, 0, 0, 0, 0, 0, 0>>)

\* Mutant: the range ends where fe80::/9 ends, at ff00::.
IsLinkLocalWide(x) == InRange(x, <<\hfe80, 0, 0, 0, 0, 0, 0, 0>>, <<\hff00, 0, 0, 0, 0, 0, 0, 0>>)

IsLinkLocal(x) == InRange(x, <<\hfe80, 0, 0, 0, 0, 0, 0, 0>>, <<\hfec0, 0, 0, 0, 0, 0, 0, 0>>)

IsMulticast(x) == InRange(x, <<\hff00, 0, 0, 0, 0, 0, 0, 0>>, <<65536, 0, 0, 0, 0, 0, 0, 0>>)

IsSolicitedNodeMulticast(x) ==
    InRange(x, <<\hff02, 0, 0, 0, 0, 1, \hff00, 0>>, <<\hff02, 0, 0, 0, 0, 2, 0, 0>>)

\* int(Ip6Address("ff02::1:ff00:0")) and the literal 0xFFFFFF
SnmPrefix == <<\hff02, 0, 0, 0, 0, 1, \hff00, 0>>
Low24 == <<0, 0, 0, 0, 0, 0, \h00ff, \hffff>>

\* Mutant: only the low 16 bits kept, & 0xFFFF.
SolicitedNodeMulticastLow16(x) == WOr(WAnd(x, <<0, 0, 0, 0, 0, 0, 0, \hffff>>), SnmPrefix)

\* solicited_node_multicast: self._address & 0xFFFFFF | int(Ip6Address("ff02::1:ff00:0"))
SolicitedNodeMulticast(x) == WOr(WAnd(x, Low24), SnmPrefix)

\* multicast_mac, after its assert self.is_multicast:
\* int(MacAddress(0x333300000000)) | self._address & 0xFFFFFFFF, as a MAC.
MulticastMac(x) ==
    LET w == WOr(<<0, 0, 0, 0, 0, \h3333, 0, 0>>, WAnd(x, <<0, 0, 0, 0, 0, 0, \hffff, \hffff>>))
    IN  <<w[6], w[7], w[8]>>

\* __bytes__: struct.pack("!LLLL", ...) of the four 32-bit words.
Bytes(x) == [i \in 1..16 |-> IF i % 2 = 1 THEN x[(i + 1) \div 2] \div 256 ELSE x[i \div 2] % 256]

\* int(mac_address) as a 128-bit int
WideMac(m) == <<0, 0, 0, 0, 0, m[1], m[2], m[3]>>

\* Mutant: the universal/local bit left as it is, no ^ 0x0200000000000000.
InterfaceIdNoFlip(m) ==
    WOr(WOr(WShl16(WAnd(WideMac(m), <<0, 0, 0, 0, 0, \hffff, \hff00, 0>>)), WAnd(WideMac(m), Low24)),
        <<0, 0, 0, 0, 0, \h00ff, \hfe00, 0>>)

\* eui64: (((mac & 0xFFFFFF000000) << 16) | mac & 0xFFFFFF | 0xFFFE000000) ^ 0x0200000000000000
InterfaceId(m) ==
    WXor(WOr(WOr(WShl16(WAnd(WideMac(m), <<0, 0, 0, 0, 0, \hffff, \hff00, 0>>)), WAnd(WideMac(m), Low24)),
             <<0, 0, 0, 0, 0, \h00ff, \hfe00, 0>>),
         <<0, 0, 0, 0, \h0200, 0, 0, 0>>)

\* int(Ip6Mask("/64"))
Mask64 == <<\hffff, \hffff, \hffff, \hffff, 0, 0, 0, 0>>

\* Ip6Host((address, mask)): the address kept, the network built as
\* Ip6Network((address, mask)), whose address is int(address) & int(mask).
Ip6HostOf(a, m) == [address |-> a, network |-> [address |-> WAnd(a, m), mask |-> m]]

\* Ip6Network((Ip6Address(x), Ip6Mask("/64"))).eui64(mac): the network address
\* int(x) & int(mask), then Ip6Host((Ip6Address(int(self._address) |
\* interface_id), Ip6Mask("/64"))).  The assert len(self.mask) == 64 holds.
Eui64(x, m) == Ip6HostOf(WOr(WAnd(x, Mask64), InterfaceId(m)), Mask64)

\* The 128-bit ints an Ip6Network holds.
TypeOK ==
    /\ address \in 0..Ones
    /\ prefixLen \in 0..Width
    /\ netAddress \in 0..Ones
    /\ netMask \in 0..Ones
    /\ addr6 \in [Grp -> 0..65535]
    /\ mac \in [1..3 -> 0..65535]

Init ==
    /\ address \in 0..Ones
    /\ prefixLen \in 0..Width
    /\ netMask = MaskFromLen(prefixLen)
    /\ netAddress = NetworkAddress(address, netMask)
    /\ addr6 \in Probe
    /\ mac \in Mac

\* Ip6Network((Ip6Address(a), Ip6Mask("/n"))) is built.
Build(a, n) ==
    /\ address' = a
    /\ prefixLen' = n
    /\ netMask' = MaskFromLen(n)
    /\ netAddress' = NetworkAddress(a, MaskFromLen(n))
    /\ UNCHANGED <<addr6, mac>>

\* The next network is built with one operand changed; every pair of an
\* address and a prefix length is reached this way.
NewNetwork ==
    \/ \E a \in 0..Ones : Build(a, prefixLen)
    \/ \E n \in 0..Width : Build(address, n)

\* A new full-width Ip6Address is built.
NewAddress ==
    /\ addr6' \in Probe
    /\ UNCHANGED <<address, prefixLen, netAddress, netMask, mac>>

\* Another MacAddress is passed to eui64.
NewMac ==
    /\ mac' \in Mac
    /\ UNCHANGED <<address, prefixLen, netAddress, netMask, addr6>>

Next == NewNetwork \/ NewAddress \/ NewMac

Spec == Init /\ [][Next]_vars

(***************************************************************************)
(* Properties                                                              *)
(***************************************************************************)

(***************************************************************************)
(* Ip6Mask(int) accepts exactly the masks "/0" .. "/128" produce: the      *)
(* string test of _validate_bits agrees with the arithmetic of the "/n"    *)
(* constructor, checked for every int the address width allows.           *)
(***************************************************************************)
MaskForms ==
    IsIp6MaskInt(address) <=> \E n \in 0..Width : address = MaskFromLen(n)

(***************************************************************************)
(* Ip6Network.last is the greatest address of the network: every address   *)
(* whose masked value is the network address lies between the network     *)
(* address and Last, and Last itself belongs to the network.               *)
(***************************************************************************)
LastIsNetworkEnd ==
    LET last == Last(netAddress, netMask)
    IN  /\ NetworkAddress(last, netMask) = netAddress
        /\ address \in netAddress..last
        /\ \A x \in 0..Ones :
              NetworkAddress(x, netMask) = netAddress => x \in netAddress..last

(***************************************************************************)
(* Ip6Address(int) takes every value of the address width: the network    *)
(* address and the last address of every network can be built as an       *)
(* Ip6Address, as Ip6Network and Ip6Network.last do.                       *)
(***************************************************************************)
LastIsAddress ==
    /\ IsIp6AddressInt(netAddress)
    /\ IsIp6AddressInt(Last(netAddress, netMask))


(***************************************************************************)
(* Prefix membership by bits, the way RFC 4291 writes the address types:   *)
(* the first n bits of x are those of p.                                   *)
(***************************************************************************)
WBit(x, i) == (x[i \div 16 + 1] \div 2^(15 - (i % 16))) % 2

InPrefix(x, p, n) == \A i \in 0..(n - 1) : WBit(x, i) = WBit(p, i)

(***************************************************************************)
(* The decimal range() literals of is_global, is_private, is_link_local,   *)
(* is_multicast and is_solicited_node_multicast are exactly the prefixes   *)
(* their comments name: 2000::/3, fc00::/7, fe80::/10, ff00::/8 and        *)
(* ff02::1:ff00:0/104, at every boundary address of those prefixes.        *)
(***************************************************************************)
ClassifiesByPrefix(x) ==
    /\ IsGlobal(x) <=> InPrefix(x, <<\h2000, 0, 0, 0, 0, 0, 0, 0>>, 3)
    /\ IsPrivate(x) <=> InPrefix(x, <<\hfc00, 0, 0, 0, 0, 0, 0, 0>>, 7)
    /\ IsLinkLocal(x) <=> InPrefix(x, <<\hfe80, 0, 0, 0, 0, 0, 0, 0>>, 10)
    /\ IsMulticast(x) <=> InPrefix(x, <<\hff00, 0, 0, 0, 0, 0, 0, 0>>, 8)
    /\ IsSolicitedNodeMulticast(x) <=> InPrefix(x, SnmPrefix, 104)

\* The probe addresses with that property, enumerated once.
ClassifiedByPrefix == {x : x \in {x \in Probe : ClassifiesByPrefix(x)}}

ClassifiersMatchPrefixes == addr6 \in ClassifiedByPrefix

(***************************************************************************)
(* The solicited-node address a Neighbor Solicitation for an address is    *)
(* sent to is one is_solicited_node_multicast recognises, carrying the     *)
(* address's low 24 bits (RFC 4291 2.7.1), and multicast_mac of it passes  *)
(* its is_multicast assertion and gives 33:33 followed by the last four    *)
(* octets of the group (RFC 2464 7).                                       *)
(***************************************************************************)
MapsToSolicitedNode(x) ==
    LET snm == SolicitedNodeMulticast(x)
        octets(m) == <<m[1] \div 256, m[1] % 256, m[2] \div 256, m[2] % 256,
                       m[3] \div 256, m[3] % 256>>
    IN  /\ IsSolicitedNodeMulticast(snm)
        /\ IsMulticast(snm)
        /\ SubSeq(Bytes(snm), 14, 16) = SubSeq(Bytes(x), 14, 16)
        /\ octets(MulticastMac(snm)) = <<\h33, \h33>> \o SubSeq(Bytes(snm), 13, 16)

MappedToSolicitedNode == {x : x \in {x \in Probe : MapsToSolicitedNode(x)}}

SolicitedNodeMapping == addr6 \in MappedToSolicitedNode

(***************************************************************************)
(* eui64 builds the host of the /64 network from the modified EUI-64       *)
(* identifier of RFC 4291 appendix A: the network's eight octets, then the *)
(* MAC's octets b0 with the universal/local bit inverted, b1, b2, ff, fe,  *)
(* b3, b4, b5; so the solicited-node group of that host is ff02::1:ff      *)
(* followed by the MAC's last three octets.  The Ip6Host it returns lies   *)
(* in the /64 network eui64 was called on.                                 *)
(***************************************************************************)
IsModifiedEui64Host(x, m) ==
    LET host == Eui64(x, m).address
        b == <<m[1] \div 256, m[1] % 256, m[2] \div 256, m[2] % 256,
               m[3] \div 256, m[3] % 256>>
    IN  /\ Bytes(host) = SubSeq(Bytes(x), 1, 8)
                         \o <<b[1] ^^ 2, b[2], b[3], \hff, \hfe, b[4], b[5], b[6]>>
        /\ SubSeq(Bytes(SolicitedNodeMulticast(host)), 14, 16) = SubSeq(b, 4, 6)
        /\ Eui64(x, m).network = [address |-> WAnd(x, Mask64), mask |-> Mask64]

\* The pairs with that property, enumerated by the set image once, so that
\* each state only looks its pair up.
ModifiedEui64Hosts ==
    {xm : xm \in {xm \in Probe \X Mac : IsModifiedEui64Host(xm[1], xm[2])}}

Eui64Identifier == <<addr6, mac>> \in ModifiedEui64Hosts

=============================================================================
