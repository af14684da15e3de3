--------------------------- MODULE MCTcpAssembler ---------------------------
(* Model-checking instance of the two packet assemblers of the TX path,    *)
(* TcpAssembler and ArpAssembler.                                          *)
(*                                                                         *)
(* TCP: every flag combination, the option lists a TCP session sends (none, *)
(* the full SYN set padded with NOPs, timestamps) and one unaligned list   *)
(* the constructor must refuse; payloads of even and odd length.           *)
(* ARP: both operations and the two operation values the constructor must   *)
(* refuse; zero, locally administered and broadcast MACs.                  *)
(*                                                                         *)
(* A frame carries one packet: txKind names the assembler that built it.  *)
(* Each step either builds the next packet of the same kind with one       *)
(* argument changed, or starts the other kind with a new assembler at its  *)
(* constructor defaults, the one before being gone.                        *)
EXTENDS TcpAssembler, ArpAssembler, TLC

Mss == [kind |-> "MSS", mss |-> 1460]
Nop == [kind |-> "NOP"]
Eol == [kind |-> "EOL"]
Ws == [kind |-> "WSCALE", wscale |-> 7]
Sack == [kind |-> "SACKPERM"]
Ts == [kind |-> "TIMESTAMP", tsval |-> 16909060, tsecr |-> 2147483647]

MCOptionLists ==
    { <<>>, <<Ws>>, <<Nop, Nop, Ts>>,
      <<Mss, Nop, Ws, Sack, Nop, Nop, Nop, Nop, Ts>>, <<Ws, Eol>> }

MCPayload == { <<>>, <<255, 255, 255>> }

MCMac == { <<0, 0, 0, 0, 0, 0>>, <<2, 0, 0, 0, 0, 7>>, <<255, 255, 255, 255, 255, 255>> }

MCIp4 == { <<0, 0, 0, 0>>, <<192, 168, 9, 102>> }

VARIABLE txKind

allVars == <<vars, arpVars, txKind>>

MCInit ==
    /\ Init
    /\ ArpInit
    /\ txKind = "TCP"

TcpTx == txKind = "TCP" /\ NewSegment /\ UNCHANGED <<arpVars, txKind>>

ArpTx == txKind = "ARP" /\ ArpNext /\ UNCHANGED <<vars, txKind>>

ToArp ==
    /\ txKind = "TCP"
    /\ txKind' = "ARP"
    /\ arp' = ArpDefault /\ arpFrame' = ArpAssemble(ArpDefault)
    /\ seg' = DefaultSegment /\ frame' = Assemble(DefaultSegment, pshdr)
    /\ UNCHANGED pshdr

ToTcp ==
    /\ txKind = "ARP"
    /\ txKind' = "TCP"
    /\ seg' = DefaultSegment /\ frame' = Assemble(DefaultSegment, pshdr)
    /\ arp' = ArpDefault /\ arpFrame' = ArpAssemble(ArpDefault)
    /\ UNCHANGED pshdr

MCNext == TcpTx \/ ArpTx \/ ToArp \/ ToTcp

MCSpec == MCInit /\ [][MCNext]_allVars

\* The types of both assemblers' arguments and frames.
MCTypeOK == TypeOK /\ ArpTypeOK /\ txKind \in {"TCP", "ARP"}
=============================================================================
