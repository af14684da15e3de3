# TLA+ models of the PyTCP stack

This directory holds TLA+ models of the parts of the stack under `src/`. Each
model comes with TLC configurations that check it. The models cover the
concurrent and protocol-level parts: the ICMPv6 Neighbor Discovery (ND) cache,
ND and DAD between several stacks on one link, ICMPv6 router and error handling,
the DHCPv4 client exchange, the arithmetic of the IPv6 address types, and
the byte layout of the TCP segment and ARP packet assemblers.

## The system

| Part | Source | What changes state |
|------|--------|--------------------|
| ND cache | `src/icmp6/nd_cache.py` | `add_entry` (RX thread), `find_entry` (application and TX threads), `_maintain_cache` (timer thread, once a second) |
| ICMPv6 RX handler | `src/icmp6/phrx.py` | NS: reply and learn the SLLA. NA: signal DAD or learn the TLLA. RA: store the prefixes and release the RA event. Echo: reply. Unreachable: notify a UDP socket |
| IPv6 RX dispatch | `src/pytcp/protocols/ip6/phrx.py` | drops frames not addressed to `ip6_unicast` or `ip6_multicast`, then dispatches on next header |
| IPv6 address types | `src/pytcp/lib/ip6_address.py` | none (immutable values): range checks, mask validation, network and `last`, the fixed-prefix classifiers, solicited-node group, multicast MAC, `__bytes__`, `eui64` |
| DHCPv4 client | `src/pytcp/dhcp4/client.py` | `fetch`: Discover, wait for an Offer, Request, wait for an Ack, with a 5 s timeout at each wait |
| TCP assembler | `src/tcp/fpa.py` | `assemble`: packs header, flags, options and data into the frame, then writes the checksum |
| ARP assembler | `src/pytcp/protocols/arp/fpa.py` | the constructor's `oper` assertion; `assemble`: fixed-layout packing of the addresses |

Some collaborators are not under `src/`: the host-address registry, the DAD and
SLAAC driver, the timer, the TX ring and the sockets. They are described in
`spec.md`, and where a model needs them they are modelled from its sections.
The map in `PROJECT.json` marks those definitions as `spec_modelled`.

The parts interact as follows:

- The RX thread runs `_phrx_ip6` and then `_phrx_icmp6`. These feed the ND cache
  through `add_entry`.
- They also feed the DAD driver. They set `icmp6_nd_dad_tlla` and release
  `event_icmp6_nd_dad`.
- The timer thread sweeps the cache and sends refreshing NS.
- Lookups from other threads send NS on a miss.
- The NS goes out with a source chosen from the host registry, and its answers
  come back through the RX thread.

The hard behaviours are these:

- the sweep's check-then-pop, racing RX adds;
- several stacks doing DAD against each other over a link;
- the one-second DAD timeout against a late answer;
- the lack of retries;
- RA prefixes overwritten by a later RA;
- unchecked DHCP transaction ids;
- boundary values of the 128-bit arithmetic.

## Modules

### NdCache (`NdCache.tla`, `MCNdCache.tla`)

**State.** The model covers `src/icmp6/nd_cache.py` with three actors:

- `nd_cache`: a function from `Addr` to a `CacheEntry` record or `NoEntry`;
- the sweep's program counter `swPc`, its snapshot `swTodo` of `list(self.nd_cache)`, and its current key `swKey`;
- `swept`: whether this second's sweep has run;
- `txNs`: the NS handed to TX.

**Actions.** The actions follow the code:

- `AddEntry` is `add_entry`.
- `FindEntry` is `find_entry`, a hit or a miss with its NS.
- `SweepStart`, `SweepNext`, `SweepAgeCheck`, `SweepPop`, `SweepWindowCheck` and `SweepRefresh` each do one dict read or write of `_maintain_cache` (lines 72-94). A step between them models the GIL handing over to another thread.
- `Tick` moves time on by one second.

**Time.** Time is kept as each entry's age in whole seconds. Ages saturate at
`MaxAge + 2`, which is above every threshold the code compares against.
`Tick` is enabled only once the sweep of the current second is done. This
matches the timer's `register_method(..., delay=1000)`.

**Wall clock.** `creation_time` and the sweep's comparisons use
`time.time()`. `ClockStepBack` sets that clock back by a second, which lowers
every measured `age`, while the ghost field `life` keeps the real time since
the entry was created. `MaxClockSteps` bounds the steps; the race run sets it
to 0 so that its trace shows the race alone.

### Icmp6Nd (`Icmp6Nd.tla`, `MCIcmp6Nd.tla`)

This module models several stacks on one Ethernet link. Each stack has a FIFO
receive queue, so the link never reorders frames. A MAC address is identified
with the host that owns it.

**Actions.**

- `Receive(h)` is `_phrx_ip6`'s destination filter followed by the NS branch (`RxNs`) or the NA branch (`RxNa`) of `_phrx_icmp6`.
- `FindEntryMiss` is the miss path of `find_entry`. `NsSource` is its source selection: the last assigned address on the target's network, else `::`.
- `DadStart`, `DadCollision` and `DadTimeout` model the DAD driver of spec 4.3. Its code is not in the repository.

**History.** `asked` records each pair `<<h, a>>` for which `find_entry` sent an NS while another stack had `a` assigned and `h` was not probing `a` itself. It feeds only `ResolutionCompletes` and constrains no step.

**Bounds.** `MaxResolve` bounds the misses per host.

**Timeout.** With `TimelyNetwork` set, the 1 s DAD timeout cannot fire while a
frame about the candidate is still queued. The assumption is that one second is
longer than a link round trip.

### Ip6Address (`Ip6Address.tla`, `MCIp6Address.tla`)

This module models the integer arithmetic of `Ip6Address(int)`,
`Ip6Mask("/n")`, `Ip6Mask(int)` with `_validate_bits`, `Ip6Network((addr, mask))`
and `Ip6Network.last`.

**State.** One `Ip6Network((Ip6Address(address), Ip6Mask("/n")))`
construction: the operands `address` and `prefixLen`, and the `_address` and
`_mask` the network stores (`netAddress`, `netMask`). `NewNetwork` builds a new
one from any operands.

**Width.** The code works at 128 bits; the model works at `Width` bits. Every
all-ones literal of the code becomes `2^Width - 1`. The properties do not
depend on the width, and six bits are enough to reach every prefix class:
`/0`, `/Width`, and the prefixes in between.

**Full width.** The classifiers (`is_global`, `is_private`, `is_link_local`,
`is_multicast`, `is_solicited_node_multicast`), `solicited_node_multicast`,
`multicast_mac`, `__bytes__` and `Ip6Network.eui64` depend on where the bits
sit in 128, so they are modelled at full width. An int is eight 16-bit
groups, most significant first (TLC's integers are 32-bit). `WAnd`, `WOr`,
`WXor`, `WShl16` and `InRange` are Python's `&`, `|`, `^`, `<< 16` and
`in range()` on such ints. The decimal literals of the code are written in
groups; the bound 2^128 of `is_multicast` has a first group of 65536.
`Eui64` returns the `Ip6Host` record that `Ip6HostOf` builds from an address and a mask. `addr6` is a full-width address from `Probe`, and `mac` a MAC from `Mac`.
`NewAddress` and `NewMac` replace them. `NewNetwork` changes one operand of
the reduced-width network per step.

The full-width properties are stated as membership of the current
`addr6` (and `mac`) in a constant set that TLC enumerates once. Evaluating
16-bit `Bitwise` operators in each of the ~30 000 states would take minutes.

### Icmp6Rx (`Icmp6Rx.tla`, `MCIcmp6Rx.tla`)

This module models the branches of `_phrx_icmp6` that ND does not use, behind
the destination filter of `_phrx_ip6`, and the SLAAC consumer of the RA event
(spec 4.3, code not in the repository).

- `Receive(f)` takes one frame: a malformed one is dropped, an RS is ignored,
  an RA overwrites `icmp6_ra_prefixes` with its prefixes paired with its
  source and releases `event_icmp6_ra` (`raEvent` counts releases), an Echo
  Request adds a reply to `echoReplies`, and a Destination Unreachable quoting
  an intact UDP datagram notifies the first socket whose pattern matches
  (`notified`) and stops there. `MaxFrames` bounds the frames received.
- `SlaacSolicit`, `SlaacRa`, `SlaacNoRa`, `SlaacInstall` and `SlaacDone` are
  the SLAAC driver: send an RS, wait for the event, read the prefixes, keep
  the autoconf /64 ones, then install each unless DAD finds it taken.
- `raSent` is a history variable: every (prefix, router) pair some RA carried.

The socket set has a connected socket and a wildcard socket on another port;
the prefix set has an autoconf /64 prefix and a prefix SLAAC must skip; two
routers send RAs, so a second RA can replace the first while SLAAC reads it.

### Dhcp4Client (`Dhcp4Client.tla`, `MCDhcp4Client.tla`)

This module models `Dhcp4Client.fetch` for several clients, each a stack on
the same broadcast domain, against RFC 2131 servers that form the environment.

- `Discover` draws `dhcp_xid` (`XidBits` wide) and sends a Discover to the
  servers. `RecvOffer` takes the next message: anything but an Offer ends
  `fetch`, an Offer makes it send a Request with the offered address and the
  server id. `RecvAck` takes the next message and closes the socket; a
  non-Ack ends `fetch` with `(None, None)`, an Ack with a subnet mask is
  returned, and an Ack without one fails the `assert` of `client.py:151` and
  leaves `fetch` by `AssertionError` (`pc = "raised"`). `OfferTimeout` and
  `AckTimeout` are the 5 s timeouts. `bound` is the port-68 binding, set by
  `s.bind` in `Discover` and cleared by every `s.close()`; servers' replies
  reach only bound sockets.
- A server answers a Discover with an Offer from its `Pool`, and a Request
  with an Ack (lease recorded), a Nak, or nothing when the Request names
  another server. `Broadcast` makes the replies go to every open socket;
  `Lossy` lets any message be lost. A server in `MaskLess` has no subnet
  mask to send and leaves option 1 out of its replies (RFC 2131 4.3.1).
- A timeout fires only when nothing for the client is pending, unless the
  link is lossy: a 5 s wait is longer than a server's answer.

**Abstract specification.** `DhcpLease` says what `fetch` promises with the
messages left out: a client starts, is busy, and returns nothing or an
address leased to it, or fails with an exception and no address; a server
leases an address to one client at a time; every started `fetch` ends (weak
fairness of `Start` and of `Finish \/ Fail`).
`Dhcp4Client` maps onto it with `Lease == INSTANCE DhcpLease WITH ...`:
`"init"` is idle, `"offer"` and `"ack"` are busy, and `granted[c]` is the set
of addresses the servers' `leased` holds for `c`. A server's Ack is the
`Grant` step, the client's return is `Finish`, the `AssertionError` exit
(`"raised"`) is `Fail`, and every other step is a
stutter. The run checks `Lease!Spec` as the property `FetchImplementsLease`.

### TcpAssembler (`TcpAssembler.tla`, `MCTcpAssembler.tla`)

This module models `TcpAssembler` of `src/tcp/fpa.py`. A frame is a sequence
of byte values.

- `HLen` is the constructor's `_hlen`, `Accepted` its alignment assertion.
- `OptLen` and `RawOption` are `__len__` and `raw_option` of the six option
  classes; `RawOptions` is `_raw_options`.
- `Packed` is the `struct.pack_into` of `assemble`, with `PackedDataOffset`
  (`hlen << 2 | flag_ns`) and `FlagsByte`; `Assemble` then writes the Internet
  checksum at offset 16. `inet_cksum` is outside `src/` and is modelled from
  RFC 1071 (`OnesSum`).
- `Init` is a segment with the constructor's defaults; `NewSegment` assembles
  the next segment with one argument changed, so every accepted combination
  of the constants is reached.

The properties read the frame back with the RFC 793 layout (`Get16`,
`Get32`, `FlagSet`, `ParseOptions`), independently of how it was packed.

### ArpAssembler (`ArpAssembler.tla`, composed in `MCTcpAssembler.tla`)

This module models `ArpAssembler` of `src/pytcp/protocols/arp/fpa.py`.

- `ArpDefault` is the constructor's keyword defaults, and `ArpAccepted` its
  `assert oper in (ARP_OP_REQUEST, ARP_OP_REPLY)`.
- `ArpAssemble` is the `struct.pack_into("!HH BBH 6s 4s 6s 4s")`, with
  `PackS` for the `6s`/`4s` fields (cut or zero-padded). `ArpLen` is
  `__len__`.
- `ArpNext` builds the next packet with one argument changed; operation
  values 0 and 3 are offered and refused.

`ArpFrameDecodes` reads the frame as RFC 826 does: the address fields are
found at offsets computed from the frame's own `hln` and `pln` bytes.

`MCTcpAssembler` composes the two assemblers as the two kinds of packet the TX
path builds. A frame carries one packet, and `txKind` names its assembler.
`TcpTx` and `ArpTx` build the next packet of the same kind. `ToArp` and
`ToTcp` start the other kind with a fresh assembler at its defaults. The
state space is the sum of the two (65 536 + 72 states), not their product.

## Runs

| Run | cfg | Expect | What it shows |
|-----|-----|--------|---------------|
| nd_cache_ageing | MCNdCache.cfg | pass | `EntryAgeBound`: no entry's measured age (`time.time() - creation_time`) exceeds `max_age`, plus the one second between sweeps, under any interleaving of sweep, lookups, refreshes, adds and one wall-clock step back. Two addresses, two MACs, `MaxAge=3`, `RefreshTime=1`, which reach expiry, the refresh window and re-adds |
| nd_cache_sweep_race | MCNdCacheRace.cfg | violation | `SweepEvictsOnlyExpired`: TLC finds an `add_entry` landing between the age check (line 82) and `pop` (line 83). The fresh entry is discarded |
| nd_cache_clock_step | MCNdCacheClock.cfg | violation | `EntryLifeBound`: after the wall clock is set back one second, an entry lives more than `max_age` plus the sweep second of real time (`nd_cache.py:55`, `:82`) |
| nd_dad_owned_address | MCIcmp6Nd.cfg | pass | See below |
| nd_dad_simultaneous | MCIcmp6NdRace.cfg | violation | Two stacks probing the same tentative address both install it. The NS for a tentative address is dropped at `phrx.py:67` |
| ip6_network_arith | Ip6Address.cfg | pass | `MaskForms` (the masks `Ip6Mask(int)` accepts are exactly the `/n` masks), `LastIsNetworkEnd`, `ClassifiersMatchPrefixes` (the classifiers' decimal range literals are exactly 2000::/3, fc00::/7, fe80::/10, ff00::/8 and ff02::1:ff00:0/104 at every boundary address), `SolicitedNodeMapping` (the solicited-node group of an address keeps its low 24 bits, is recognised as such, and `multicast_mac` maps it to 33:33 plus its last four octets) and `Eui64Identifier` (`eui64` gives the RFC 4291 modified EUI-64 host, whose solicited-node group is determined by the MAC's last three octets) |
| ip6_all_ones_address | Ip6AddressLast.cfg | violation | `Ip6Address(int)` rejects the all-ones value (`ip6_address.py:91`), so `Ip6Network.last` of `::/0` raises |
| icmp6_rx_branches | MCIcmp6Rx.cfg | pass | `SlaacHostsFromRa` (an installed host's prefix and gateway came from one RA, even when a later RA overwrites the list) and `UnreachableToMostSpecific` (an Unreachable tells exactly one socket, and only for a quote that passed the version and next-header check: the most specific open socket that could have sent the quoted datagram). Three frames, two routers, and three sockets on one port that a datagram matches at once |
| dhcp_lossy | MCDhcp4Client.cfg | pass | `SocketReleased` (every exit of `fetch`, the `AssertionError` after `s.close()` included, leaves port 68 unbound with nothing queued) and `FetchImplementsLease` (`fetch` refines `DhcpLease`: it always ends although any message may be lost, and returns an address only if that address is leased to it and to no other client). Two clients, two servers, one-bit xids; `s2` sends no subnet mask |
| dhcp_second_server | MCDhcp4ClientTwoServers.cfg | violation | `FetchSucceeds`: the second server's Offer is taken as the answer to the Request (`client.py:136`) |
| dhcp_broadcast_replies | MCDhcp4ClientBroadcast.cfg | violation | `UniqueResult`: with broadcast replies two clients adopt one Ack (`client.py:90`) |
| tcp_assemble | MCTcpAssembler.cfg | pass | `ArpFrameDecodes` (every accepted ARP packet reads back at the offsets its own `hln` and `pln` give), `HeaderFieldsDecode` (an RFC 793 reader gets back every argument, flag, option and the payload) and `ChecksumVerifies` (the words of the frame plus the pseudo-header sum add up to a multiple of 0xFFFF, a reference stated without `OnesSum`) |

**nd_dad_owned_address.** The configuration has three stacks:

- h1 owns a1.
- h2 tries a1 (taken) and a2 (free, but in the same solicited-node group).
- h3 owns a3 on another prefix and resolves across it.

The run checks four properties:

- `UniqueAssignment`;
- `CacheBindingsCorrect`: every learned binding points at an owner;
- `DadEvidence`: while an attempt's event is set, its captured TLLA names
  another stack that holds the candidate. This catches an NA branch that
  releases the event for an NA about some other address, such as the answer
  to h2's own address-less NS (source `::`, answered to all-nodes) arriving
  during its probe of a2;
- `ResolutionCompletes` (liveness): once `find_entry` has sent an NS for an
  address another stack holds, the asking stack eventually holds a binding
  for it for good. It needs the owner's NA to carry its TLLA and to reach the
  asker: to all-nodes for h3's and h2's NSs from `::`, and back to the NS
  source for h1 asking a2, through the binding h2 learned from the SLLA.
  Asks for an address the stack is itself probing are left out. For those,
  the NA branch at `phrx.py:104` takes the owner's answer as DAD evidence
  and never caches it; TLC shows this when they are included.

The NA branch (`phrx.py:104-106`) compares the target with the stack's
current candidate, then writes the TLLA and releases the event through the
stack's attributes. The model takes these as one step. A DAD timeout and a
new attempt between the compare and the release would hand an old answer
to the new attempt. Under `TimelyNetwork` that window is closed, because an
answer is handled well before the one-second deadline.

Symmetry over addresses and MACs is used in nd_cache_ageing. The addresses and
MACs are interchangeable model values there. Icmp6Nd uses no symmetry, because
its hosts play different roles.

## Bounds

- `nd_cache_ageing`: ages saturate above `MaxAge`, so every comparison of the sweep is reached.
- `icmp6_rx_branches`: `MaxFrames = 3` lets two RAs and an RS interleave with the SLAAC steps.
- `dhcp_lossy`: one-bit xids make two clients draw the same xid, which is the case the xid check would matter for. One of the two servers is in `MaskLess`, so Acks with and without a subnet mask both occur.
- `ip6_network_arith`: at full width, `Probe` holds the first and last address of each classifier prefix, the addresses just outside each, `::`, `::1`, all ones and a global unicast address with non-zero low octets. The MACs are 00:11:22:33:44:55, a locally administered MAC and the broadcast MAC, so the universal/local bit is seen both clear and set.
- `tcp_assemble`: all 512 flag sets, the option lists a TCP session sends (none, the full SYN set, timestamps, window scale with EOL) and one unaligned list, an empty and an odd-length payload, and 32-bit fields at 0 and 2^31 - 1, the largest integer TLC holds. The pseudo-header sum is one with carries to fold.

## Fairness

`Icmp6Nd` assumes weak fairness of each host's `Receive`. This is justified
because the RX thread drains the tap device in a loop. The queue is FIFO, so
every frame is eventually handled.

It also assumes weak fairness of the DAD driver's steps. The driver is a
sequential script that blocks only on the event with a timeout. No fairness
is assumed for `FindEntryMiss`: a miss is the choice of a caller.

`Dhcp4Client` assumes weak fairness of each client's steps and each server's
replies. `fetch` is a sequential function whose every wait has a 5 s
timeout, and a server answers each message it receives.

`NdCache`, `Icmp6Rx`, `Ip6Address`, `TcpAssembler` and `ArpAssembler` check only safety
properties, so they assume no fairness.

## Findings

1. The sweep race (`nd_cache.py:83`) loses a freshly learned neighbour.
2. Ages are wall-clock differences (`nd_cache.py:55`, `:82`): a clock set back keeps entries past `max_age`, where the spec asks for a monotonic timestamp.
3. Simultaneous DAD (`phrx.py:67`) assigns one address to two stacks. The spec follows the code here; RFC 4862 does not.
4. `Ip6Address(int)` range is off by one (`ip6_address.py:91`).
5. `fetch` fails when a second server's Offer arrives before the Ack (`client.py:136`).
6. `fetch` never checks xid or chaddr, so with broadcast replies two clients take one address (`client.py:90`).

A simpler observation, not given a run: the Echo branch answers from
`packet_rx.ip6.dst` (`phrx.py:140`), so a ping to a multicast group is
answered from that group. The spec says "swapped addresses"; RFC 4443 2.2
asks for a unicast source.

## Not modelled, and the plan

- **A wall clock set forward**, which expires every entry at once; it only makes resolution slower.
- **`fetch` under `python -O`.** The `if __debug__:` logging shows the code is meant to run optimised too; there the `assert` of `client.py:151` is gone and an Ack without a mask returns `str(yiaddr) + "None"`. The model follows the default build, where the assert raises; the optimised outcome is a string-formatting matter no property here distinguishes.
- **Frame loss and duplication on the ND link.** Loss makes `UniqueAssignment` fail at once, since a lost NA lets DAD time out on a taken address; that is the same behaviour `TimelyNetwork = FALSE` already allows. Letting the link deliver a single frame twice (a `Duplicate` step bounded to one per run) pushes the three-stack DAD configuration past fifteen minutes of checking. So duplication is not part of any run. By inspection, a duplicated NA for an old candidate takes the cache branch of `phrx.py:109`, and a duplicated NS is answered twice.
- **TCP options longer than 40 bytes**, where `struct.pack_into` raises.
- **String parsing and formatting of the IPv6 address types** (`IP6_REGEX`, `inet_pton`/`inet_ntop`): character-level conversions done by the C library. The bytes and copy constructors, and the string and copy forms of `Ip6Host`, only unpack or store their operands.
- **RA prefixes of several routers.** Each RA replaces `icmp6_ra_prefixes` (`phrx.py:130`), so SLAAC tries only the last router's prefixes. `Icmp6Rx` checks that what SLAAC installs came from a real RA; that an earlier router's prefixes are dropped is the behaviour spec 4.2 prescribes, and RFC 4862 5.5.3 differs.
