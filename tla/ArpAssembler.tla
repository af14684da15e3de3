---------------------------- MODULE ArpAssembler ----------------------------
(***************************************************************************)
(* ArpAssembler of src/pytcp/protocols/arp/fpa.py: the constructor with    *)
(* its keyword defaults and its assertion on oper, __len__, and assemble,  *)
(* which packs the fixed fields and the four addresses with                *)
(* struct.pack_into("!HH BBH 6s 4s 6s 4s").  MAC and IPv4 addresses are    *)
(* the byte sequences bytes() gives for them.                              *)
(*                                                                         *)
(* Every step builds a new assembler with one argument changed and        *)
(* assembles it, so the property is checked for every accepted            *)
(* combination of the arguments given.                                     *)
(***************************************************************************)
EXTENDS Naturals, Sequences

CONSTANTS
    Mac,   \* bytes(MacAddress) values to try
    Ip4,   \* bytes(Ip4Address) values to try
    Oper   \* oper values a caller may pass

VARIABLES
    arp,       \* the constructor arguments of the packet
    arpFrame   \* the bytes assemble leaves in the frame

arpVars == <<arp, arpFrame>>

\* protocols/arp/ps.py
ARP_OP_REQUEST == 1
ARP_OP_REPLY == 2
ARP_HEADER_LEN == 28

ArpArgs == [oper: Oper, sha: Mac, spa: Ip4, tha: Mac, tpa: Ip4]

\* assert oper in (ARP_OP_REQUEST, ARP_OP_REPLY)
ArpAccepted(a) == a.oper \in {ARP_OP_REQUEST, ARP_OP_REPLY}

\* ArpAssembler(): MacAddress(0), Ip4Address(0) and ARP_OP_REQUEST
ArpDefault ==
    [oper |-> ARP_OP_REQUEST, sha |-> <<0, 0, 0, 0, 0, 0>>, spa |-> <<0, 0, 0, 0>>,
     tha |-> <<0, 0, 0, 0, 0, 0>>, tpa |-> <<0, 0, 0, 0>>]

ArpBe16(x) == <<x \div 256, x % 256>>

\* struct "ns": the bytes cut or zero-padded to n.
PackS(bs, n) == [i \in 1..n |-> IF i <= Len(bs) THEN bs[i] ELSE 0]

\* Mutant: the target addresses packed before the sender's.
ArpAssembleTargetSwapped(a) ==
    ArpBe16(1) \o ArpBe16(\h0800) \o <<6, 4>> \o ArpBe16(a.oper)
    \o PackS(a.tha, 6) \o PackS(a.tpa, 4) \o PackS(a.sha, 6) \o PackS(a.spa, 4)

\* assemble: hrtype 1, prtype 0x0800, hrlen 6, prlen 4, oper, sha, spa, tha, tpa
ArpAssemble(a) ==
    ArpBe16(1) \o ArpBe16(\h0800) \o <<6, 4>> \o ArpBe16(a.oper)
    \o PackS(a.sha, 6) \o PackS(a.spa, 4) \o PackS(a.tha, 6) \o PackS(a.tpa, 4)

\* __len__
ArpLen(a) == ARP_HEADER_LEN

ArpTypeOK ==
    /\ arp \in ArpArgs
    /\ arpFrame \in Seq(0..255)

ArpInit ==
    /\ arp = ArpDefault
    /\ arpFrame = ArpAssemble(ArpDefault)

\* ArpAssembler(**a) then assemble(frame); refused by the assertion otherwise.
ArpRebuild(a) ==
    /\ ArpAccepted(a)
    /\ arp' = a
    /\ arpFrame' = ArpAssemble(a)

ArpNext ==
    \/ \E x \in Oper : ArpRebuild([arp EXCEPT !.oper = x])
    \/ \E x \in Mac : ArpRebuild([arp EXCEPT !.sha = x])
    \/ \E x \in Ip4 : ArpRebuild([arp EXCEPT !.spa = x])
    \/ \E x \in Mac : ArpRebuild([arp EXCEPT !.tha = x])
    \/ \E x \in Ip4 : ArpRebuild([arp EXCEPT !.tpa = x])

ArpSpec == ArpInit /\ [][ArpNext]_arpVars

(***************************************************************************)
(* Properties                                                              *)
(***************************************************************************)

ArpGet16(f, i) == f[i + 1] * 256 + f[i + 2]

(***************************************************************************)
(* A receiver reading the frame the RFC 826 way gets the packet back:      *)
(* hardware type Ethernet and protocol type IPv4, the operation the        *)
(* constructor accepted, and the sender and target addresses at the       *)
(* offsets the frame's own hln and pln give; __len__ is the frame length.  *)
(***************************************************************************)
ArpFrameDecodes ==
    LET hln == arpFrame[5]
        pln == arpFrame[6]
        at(i, n) == SubSeq(arpFrame, i + 1, i + n)
    IN  /\ Len(arpFrame) = ArpLen(arp)
        /\ ArpGet16(arpFrame, 0) = 1 /\ ArpGet16(arpFrame, 2) = \h0800
        /\ ArpGet16(arpFrame, 6) \in {ARP_OP_REQUEST, ARP_OP_REPLY}
        /\ ArpGet16(arpFrame, 6) = arp.oper
        /\ at(8, hln) = arp.sha
        /\ at(8 + hln, pln) = arp.spa
        /\ at(8 + hln + pln, hln) = arp.tha
        /\ at(8 + 2 * hln + pln, pln) = arp.tpa

=============================================================================
