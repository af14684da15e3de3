---------------------------- MODULE TcpAssembler ----------------------------
(***************************************************************************)
(* TcpAssembler of src/tcp/fpa.py: the constructor's header length and    *)
(* its alignment assertion, the raw form of each TCP option, and assemble, *)
(* which packs the header, options and data with struct.pack_into and     *)
(* then writes the Internet checksum at offset 16.  A frame is a sequence  *)
(* of byte values.                                                         *)
(*                                                                         *)
(* Every step assembles a new segment with one argument changed, so the   *)
(* invariants are checked for every combination of flags, option list,    *)
(* payload and field values given.  The properties read the frame    *)
(* back with the RFC 793 / 3168 / 3540 layout and verify the checksum the  *)
(* way a receiver does (RFC 1071), independently of how it was packed.     *)
(***************************************************************************)
EXTENDS Naturals, Sequences, SequencesExt, Bitwise

CONSTANTS
    Sport, Dport,  \* port numbers to try
    SeqNum,        \* sequence and acknowledgement numbers to try
    Win,           \* window values to try
    OptionLists,   \* option lists to try: sequences of option records
    Payload,       \* payloads to try: sequences of byte values
    PshdrSum       \* pseudo-header sums the IP layer passes in

FlagName == {"NS", "CWR", "ECE", "URG", "ACK", "PSH", "RST", "SYN", "FIN"}

VARIABLES
    seg,    \* the constructor arguments of the segment
    pshdr,  \* pshdr_sum passed to assemble
    frame   \* the bytes assemble leaves in the frame

vars == <<seg, pshdr, frame>>

Byte == 0..255

Bit(b) == IF b THEN 1 ELSE 0

Be16(x) == <<x \div 256, x % 256>>

Be32(x) == Be16(x \div 65536) \o Be16(x % 65536)

(***************************************************************************)
(* The option classes: __len__ (tcp.ps.TCP_OPT_*_LEN) and raw_option.      *)
(* The kind numbers are those of the class docstrings.                     *)
(***************************************************************************)
OptLen(o) ==
    CASE o.kind = "EOL"       -> 1
      [] o.kind = "NOP"       -> 1
      [] o.kind = "MSS"       -> 4
      [] o.kind = "WSCALE"    -> 3
      [] o.kind = "SACKPERM"  -> 2
      [] o.kind = "TIMESTAMP" -> 10

\* Mutant: the timestamp packed as "! BB L", without tsecr.
RawOptionShortTs(o) ==
    CASE o.kind = "EOL"       -> <<0>>
      [] o.kind = "NOP"       -> <<1>>
      [] o.kind = "MSS"       -> <<2, 4>> \o Be16(o.mss)
      [] o.kind = "WSCALE"    -> <<3, 3, o.wscale>>
      [] o.kind = "SACKPERM"  -> <<4, 2>>
      [] o.kind = "TIMESTAMP" -> <<8, 10>> \o Be32(o.tsval)

RawOption(o) ==
    CASE o.kind = "EOL"       -> <<0>>
      [] o.kind = "NOP"       -> <<1>>
      [] o.kind = "MSS"       -> <<2, 4>> \o Be16(o.mss)
      [] o.kind = "WSCALE"    -> <<3, 3, o.wscale>>
      [] o.kind = "SACKPERM"  -> <<4, 2>>
      [] o.kind = "TIMESTAMP" -> <<8, 10>> \o Be32(o.tsval) \o Be32(o.tsecr)

\* _raw_options: the raw options one after the other.
RawOptions(opts) == FlattenSeq([i \in 1..Len(opts) |-> RawOption(opts[i])])

\* self._hlen = TCP_HEADER_LEN + sum(len(option) for option in options)
HLen(opts) == 20 + FoldLeft(LAMBDA acc, o : acc + OptLen(o), 0, opts)

(***************************************************************************)
(* inet_cksum (misc/ip_helper.py, outside src/): the 16-bit ones'          *)
(* complement sum of the frame, odd length padded with a zero byte,        *)
(* starting from init, with the carries folded back in.                    *)
(***************************************************************************)
RECURSIVE OnesSum(_, _)
OnesSum(bs, acc) ==
    IF bs = <<>> THEN acc
    ELSE LET w == bs[1] * 256 + (IF Len(bs) > 1 THEN bs[2] ELSE 0)
             s == acc + w
         IN  OnesSum(IF Len(bs) > 2 THEN SubSeq(bs, 3, Len(bs)) ELSE <<>>,
                     (s % 65536) + (s \div 65536))

Fold16(x) == (x % 65536) + (x \div 65536)

InetCksum(bs, init) == 65535 - OnesSum(bs, Fold16(Fold16(init)))

(***************************************************************************)
(* assemble: struct.pack_into("! HH L L BBH HH ...") with the checksum     *)
(* field 0, then the checksum of that frame written at offset 16.          *)
(***************************************************************************)
FlagsByte(f) ==
    Bit("CWR" \in f) * 2^7 + Bit("ECE" \in f) * 2^6 + Bit("URG" \in f) * 2^5
    + Bit("ACK" \in f) * 2^4 + Bit("PSH" \in f) * 2^3 + Bit("RST" \in f) * 2^2
    + Bit("SYN" \in f) * 2 + Bit("FIN" \in f)

\* Mutant: the data offset shifted as a word count, hlen << 4.
PackedDataOffsetWords(s) == (HLen(s.options) * 2^4) | Bit("NS" \in s.flags)

\* self._hlen << 2 | self._flag_ns
PackedDataOffset(s) == (HLen(s.options) * 2^2) | Bit("NS" \in s.flags)

Packed(s) ==
    Be16(s.sport) \o Be16(s.dport) \o Be32(s.seq) \o Be32(s.ack)
    \o <<PackedDataOffset(s), FlagsByte(s.flags)>> \o Be16(s.win)
    \o <<0, 0>> \o Be16(s.urp) \o RawOptions(s.options) \o s.data

\* Mutant: the checksum taken over the frame alone, pshdr_sum not passed.
AssembleNoPshdr(s, init) ==
    LET f == Packed(s)
        ck == InetCksum(f, 0)
    IN  [f EXCEPT ![17] = ck \div 256, ![18] = ck % 256]

Assemble(s, init) ==
    LET f == Packed(s)
        ck == InetCksum(f, init)
    IN  [f EXCEPT ![17] = ck \div 256, ![18] = ck % 256]

\* The constructor arguments a caller may pass.
Segment ==
    [sport: Sport, dport: Dport, seq: SeqNum, ack: SeqNum,
     flags: SUBSET FlagName, win: Win, urp: Win,
     options: OptionLists, data: Payload]

TypeOK ==
    /\ seg \in Segment
    /\ pshdr \in PshdrSum
    /\ frame \in Seq(Byte)

\* TcpAssembler(...) raises AssertionError unless hlen % 4 == 0.
Accepted(s) == HLen(s.options) % 4 = 0

\* TcpAssembler(sport, dport) with every other argument at its default.
DefaultSegment ==
    [sport |-> CHOOSE p \in Sport : TRUE, dport |-> CHOOSE p \in Dport : TRUE,
     seq |-> 0, ack |-> 0, flags |-> {}, win |-> 0, urp |-> 0,
     options |-> <<>>, data |-> <<>>]

Init ==
    /\ seg = DefaultSegment
    /\ pshdr \in PshdrSum
    /\ frame = Assemble(seg, pshdr)

(***************************************************************************)
(* The next segment is assembled with one argument changed: a flag turned  *)
(* on or off, or another value for one field.  Every accepted combination  *)
(* of arguments is reached this way.                                       *)
(***************************************************************************)
Reassemble(s, init) ==
    /\ Accepted(s)
    /\ seg' = s
    /\ pshdr' = init
    /\ frame' = Assemble(s, init)

NewSegment ==
    \/ \E n \in FlagName :
          Reassemble([seg EXCEPT !.flags = IF n \in @ THEN @ \ {n} ELSE @ \cup {n}], pshdr)
    \/ \E x \in SeqNum : Reassemble([seg EXCEPT !.seq = x], pshdr)
    \/ \E x \in SeqNum : Reassemble([seg EXCEPT !.ack = x], pshdr)
    \/ \E x \in Win : Reassemble([seg EXCEPT !.win = x], pshdr)
    \/ \E x \in Win : Reassemble([seg EXCEPT !.urp = x], pshdr)
    \/ \E o \in OptionLists : Reassemble([seg EXCEPT !.options = o], pshdr)
    \/ \E d \in Payload : Reassemble([seg EXCEPT !.data = d], pshdr)
    \/ \E i \in PshdrSum : Reassemble(seg, i)

Next == NewSegment

Spec == Init /\ [][Next]_vars

(***************************************************************************)
(* Properties                                                              *)
(***************************************************************************)

\* Big-endian fields of the frame at a 0-based byte offset.
Get16(f, i) == f[i + 1] * 256 + f[i + 2]
Get32(f, i) == Get16(f, i) * 65536 + Get16(f, i + 2)

\* RFC 793 option parsing: EOL ends the list, NOP is one byte, any other
\* kind is followed by its length byte.
OptionKind == [n \in {0, 1, 2, 3, 4, 8} |->
                 CASE n = 0 -> "EOL" [] n = 1 -> "NOP" [] n = 2 -> "MSS"
                   [] n = 3 -> "WSCALE" [] n = 4 -> "SACKPERM"
                   [] n = 8 -> "TIMESTAMP"]

RECURSIVE ParseOptions(_)
ParseOptions(bs) ==
    IF bs = <<>> THEN <<>>
    ELSE IF bs[1] = 0 THEN <<"EOL">>
    ELSE IF bs[1] = 1 THEN <<"NOP">> \o ParseOptions(Tail(bs))
    ELSE IF Len(bs) < 2 \/ bs[2] < 2 \/ bs[2] > Len(bs) \/ bs[1] \notin DOMAIN OptionKind
         THEN <<"BAD">>
    ELSE <<OptionKind[bs[1]]>> \o ParseOptions(SubSeq(bs, bs[2] + 1, Len(bs)))

\* The RFC 3168 / 3540 positions of the flags in bytes 12 and 13.
FlagMask == [NS |-> <<12, 1>>, CWR |-> <<13, 128>>, ECE |-> <<13, 64>>,
             URG |-> <<13, 32>>, ACK |-> <<13, 16>>, PSH |-> <<13, 8>>,
             RST |-> <<13, 4>>, SYN |-> <<13, 2>>, FIN |-> <<13, 1>>]

FlagSet(f, n) == (f[FlagMask[n][1] + 1] \div FlagMask[n][2]) % 2 = 1

(***************************************************************************)
(* A receiver reading the frame with the RFC 793 layout gets back every    *)
(* argument: ports, numbers, the data offset in 32-bit words equal to the  *)
(* header length, every flag, window and urgent pointer; the options fill  *)
(* parse, in order, from the header up to the data offset, the payload     *)
(* follows it, and __len__ is the frame length.                            *)
(***************************************************************************)
HeaderFieldsDecode ==
    LET hlen == (frame[13] \div 16) * 4
    IN  /\ Len(frame) = HLen(seg.options) + Len(seg.data)
        /\ Get16(frame, 0) = seg.sport /\ Get16(frame, 2) = seg.dport
        /\ Get32(frame, 4) = seg.seq /\ Get32(frame, 8) = seg.ack
        /\ hlen = HLen(seg.options)
        /\ (frame[13] \div 2) % 8 = 0
        /\ {n \in FlagName : FlagSet(frame, n)} = seg.flags
        /\ Get16(frame, 14) = seg.win /\ Get16(frame, 18) = seg.urp
        /\ ParseOptions(SubSeq(frame, 21, hlen))
             = [i \in 1..Len(seg.options) |-> seg.options[i].kind]
        /\ SubSeq(frame, hlen + 1, Len(frame)) = seg.data

\* The plain sum of the frame's 16-bit big-endian words, odd byte padded.
RECURSIVE WordTotal(_)
WordTotal(bs) ==
    IF bs = <<>> THEN 0
    ELSE bs[1] * 256 + (IF Len(bs) > 1 THEN bs[2] ELSE 0)
         + WordTotal(IF Len(bs) > 2 THEN SubSeq(bs, 3, Len(bs)) ELSE <<>>)

(***************************************************************************)
(* The segment passes the receiver's checksum test, stated without         *)
(* inet_cksum's carry folding: a ones' complement sum is the plain sum     *)
(* modulo 0xFFFF, so the words of the whole frame, checksum included, and  *)
(* the pseudo-header sum add up to a multiple of 0xFFFF.  It fails if the  *)
(* checksum is written at another offset, computed before a field is      *)
(* packed, or computed without pshdr_sum.                                  *)
(***************************************************************************)
ChecksumVerifies == (WordTotal(frame) + pshdr) % 65535 = 0

=============================================================================
