------------------------------ MODULE NdCache ------------------------------
(***************************************************************************)
(* The ICMPv6 Neighbor Discovery cache of src/icmp6/nd_cache.py.           *)
(*                                                                         *)
(* Three threads touch the cache:                                          *)
(*   - the timer thread runs NdCache._maintain_cache once per second; the  *)
(*     sweep is split at the points where the code re-reads the dict, so   *)
(*     the other threads can run between its check and its act;            *)
(*   - the RX thread calls add_entry from the ICMPv6 NS/NA handlers;       *)
(*   - application/TX threads call find_entry to resolve a neighbor.       *)
(*                                                                         *)
(* Time is kept as the age of each entry, time.time() - creation_time, in  *)
(* whole seconds; a Tick ages every entry by one second.  Ages saturate at *)
(* AgeCap, which is above every threshold the code compares against.       *)
(* time.time() is the wall clock: it may be set back (NTP, an operator),   *)
(* which lowers every measured age at once.  Each entry also carries its   *)
(* life, the seconds that really passed since it was created.              *)
(***************************************************************************)
EXTENDS Integers, FiniteSets

CONSTANTS
    Addr,          \* Ip6Address keys of the cache
    Mac,           \* MacAddress values learned from the wire
    MaxAge,        \* config.nd_cache_entry_max_age
    RefreshTime,   \* config.nd_cache_entry_refresh_time
    MaxHits,       \* saturation bound of hit_count (the code only tests > 0)
    MaxClockSteps  \* how many times the wall clock may be set back

ASSUME /\ MaxAge \in Nat \ {0}
       /\ RefreshTime \in 1..MaxAge
       /\ MaxHits \in Nat \ {0}
       /\ MaxClockSteps \in Nat

VARIABLES
    nd_cache,   \* self.nd_cache: Addr -> CacheEntry, or NoEntry when absent
    swPc,       \* program counter of the timer thread inside _maintain_cache
    swTodo,     \* keys of list(self.nd_cache) not yet visited by the sweep
    swKey,      \* ip6_address the sweep is currently working on
    swept,      \* the sweep of the current second has run
    txNs,       \* targets of Neighbor Solicitations handed to the TX ring
    clockSteps  \* times the wall clock has been set back

vars == <<nd_cache, swPc, swTodo, swKey, swept, txNs, clockSteps>>

AgeCap == MaxAge + 2

NoEntry == [absent |-> TRUE]

\* NdCache.CacheEntry; creation_time is kept as an age, which a clock set
\* back can make negative; life is a ghost field, the real age.
Entry == [mac: Mac, permanent: BOOLEAN, age: -MaxClockSteps..AgeCap,
          life: 0..AgeCap, hit_count: 0..MaxHits]

\* Mutant: __init__ forgets to set creation_time.
CacheEntryNoTime(mac, permanent) ==
    [mac |-> mac, permanent |-> permanent, life |-> 0, hit_count |-> 0]

CacheEntry(mac, permanent) ==
    [mac |-> mac, permanent |-> permanent, age |-> 0, life |-> 0, hit_count |-> 0]

Cached == {k \in Addr : nd_cache[k] # NoEntry}

SweepPcs == {"idle", "loop", "age", "pop", "window", "refresh"}

TypeOK ==
    /\ nd_cache \in [Addr -> Entry \cup {NoEntry}]
    /\ swPc \in SweepPcs
    /\ swTodo \subseteq Addr
    /\ swKey \in Addr
    /\ swept \in BOOLEAN
    /\ txNs \subseteq Addr
    /\ clockSteps \in 0..MaxClockSteps

Init ==
    /\ nd_cache = [k \in Addr |-> NoEntry]
    /\ swPc = "idle"
    /\ swTodo = {}
    /\ swKey \in Addr
    /\ swept = FALSE
    /\ txNs = {}
    /\ clockSteps = 0

(***************************************************************************)
(* _send_icmp6_neighbor_solicitation: the NS is enqueued with the TX ring. *)
(* Source selection and option layout are modelled in Icmp6Nd.             *)
(***************************************************************************)
SendNs(k) == txNs' = txNs \cup {k}

(***************************************************************************)
(* RX thread: add_entry replaces the entry by a fresh CacheEntry object.   *)
(***************************************************************************)
AddEntry(k, m) ==
    /\ nd_cache' = [nd_cache EXCEPT ![k] = CacheEntry(m, FALSE)]
    /\ UNCHANGED <<swPc, swTodo, swKey, swept, txNs, clockSteps>>

\* A statically configured neighbor, CacheEntry(mac, permanent=True).
AddPermanent(k, m) ==
    /\ nd_cache' = [nd_cache EXCEPT ![k] = CacheEntry(m, TRUE)]
    /\ UNCHANGED <<swPc, swTodo, swKey, swept, txNs, clockSteps>>

(***************************************************************************)
(* find_entry: a hit counts itself and returns the MAC; a miss sends an NS *)
(* and returns None.  hit_count saturates at MaxHits.                      *)
(***************************************************************************)
FindEntry(k) ==
    /\ IF nd_cache[k] # NoEntry
          THEN /\ nd_cache' = [nd_cache EXCEPT ![k].hit_count =
                                  IF @ < MaxHits THEN @ + 1 ELSE @]
               /\ UNCHANGED txNs
          ELSE /\ SendNs(k)
               /\ UNCHANGED nd_cache
    /\ UNCHANGED <<swPc, swTodo, swKey, swept, clockSteps>>

\* The TX thread takes a queued solicitation off the ring.
TxDrain(k) ==
    /\ k \in txNs
    /\ txNs' = txNs \ {k}
    /\ UNCHANGED <<nd_cache, swPc, swTodo, swKey, swept, clockSteps>>

(***************************************************************************)
(* The timer thread: _maintain_cache, one step per read of the dict.       *)
(***************************************************************************)

\* for ip6_address in list(self.nd_cache): the snapshot of keys.
SweepStart ==
    /\ swPc = "idle"
    /\ ~swept
    /\ swTodo' = Cached
    /\ swPc' = "loop"
    /\ UNCHANGED <<nd_cache, swKey, swept, txNs, clockSteps>>

\* Next key of the snapshot; permanent entries are skipped.
SweepNext ==
    /\ swPc = "loop"
    /\ \E k \in swTodo :
          /\ swTodo' = swTodo \ {k}
          /\ swKey' = k
          /\ swPc' = IF nd_cache[k].permanent THEN "loop" ELSE "age"
    /\ UNCHANGED <<nd_cache, swept, txNs, clockSteps>>

SweepDone ==
    /\ swPc = "loop"
    /\ swTodo = {}
    /\ swPc' = "idle"
    /\ swept' = TRUE
    /\ UNCHANGED <<nd_cache, swTodo, swKey, txNs, clockSteps>>

\* Mutant: the refresh branch tested before the expiry branch.
SweepAgeCheckRefreshFirst ==
    /\ swPc = "age"
    /\ swPc' = IF /\ nd_cache[swKey].age > MaxAge - RefreshTime
                  /\ nd_cache[swKey].hit_count > 0 THEN "refresh"
               ELSE IF nd_cache[swKey].age > MaxAge THEN "pop" ELSE "window"
    /\ UNCHANGED <<nd_cache, swTodo, swKey, swept, txNs, clockSteps>>

\* if time.time() - creation_time > nd_cache_entry_max_age
SweepAgeCheck ==
    /\ swPc = "age"
    /\ swPc' = IF nd_cache[swKey].age > MaxAge THEN "pop" ELSE "window"
    /\ UNCHANGED <<nd_cache, swTodo, swKey, swept, txNs, clockSteps>>

\* self.nd_cache.pop(ip6_address): removes whatever entry is there now.
SweepPop ==
    /\ swPc = "pop"
    /\ nd_cache' = [nd_cache EXCEPT ![swKey] = NoEntry]
    /\ swPc' = "loop"
    /\ UNCHANGED <<swTodo, swKey, swept, txNs, clockSteps>>

\* elif age > max_age - refresh_time and hit_count
SweepWindowCheck ==
    /\ swPc = "window"
    /\ swPc' = IF /\ nd_cache[swKey].age > MaxAge - RefreshTime
                  /\ nd_cache[swKey].hit_count > 0
               THEN "refresh" ELSE "loop"
    /\ UNCHANGED <<nd_cache, swTodo, swKey, swept, txNs, clockSteps>>

\* hit_count = 0 and a refreshing NS; creation_time is left alone.
SweepRefresh ==
    /\ swPc = "refresh"
    /\ nd_cache' = [nd_cache EXCEPT ![swKey].hit_count = 0]
    /\ SendNs(swKey)
    /\ swPc' = "loop"
    /\ UNCHANGED <<swTodo, swKey, swept, clockSteps>>

Older(x) == IF x < AgeCap THEN x + 1 ELSE x

(***************************************************************************)
(* One second passes.  stack.timer runs the sweep every 1000 ms, so the    *)
(* clock moves on only after this second's sweep has run.                  *)
(***************************************************************************)
Tick ==
    /\ swPc = "idle"
    /\ swept
    /\ nd_cache' = [k \in Addr |->
                      IF nd_cache[k] = NoEntry THEN NoEntry
                      ELSE [nd_cache[k] EXCEPT !.age = Older(@), !.life = Older(@)]]
    /\ swept' = FALSE
    /\ UNCHANGED <<swPc, swTodo, swKey, txNs, clockSteps>>

(***************************************************************************)
(* The wall clock is set back by one second: time.time() - creation_time   *)
(* drops by one for every entry, while no real time passes.                *)
(***************************************************************************)
ClockStepBack ==
    /\ clockSteps < MaxClockSteps
    /\ clockSteps' = clockSteps + 1
    /\ nd_cache' = [k \in Addr |->
                      IF nd_cache[k] = NoEntry THEN NoEntry
                      ELSE [nd_cache[k] EXCEPT !.age = @ - 1]]
    /\ UNCHANGED <<swPc, swTodo, swKey, swept, txNs>>

Next ==
    \/ \E k \in Addr, m \in Mac : AddEntry(k, m)
    \/ \E k \in Addr, m \in Mac : AddPermanent(k, m)
    \/ \E k \in Addr : FindEntry(k)
    \/ \E k \in Addr : TxDrain(k)
    \/ SweepStart \/ SweepNext \/ SweepDone
    \/ SweepAgeCheck \/ SweepPop \/ SweepWindowCheck \/ SweepRefresh
    \/ Tick
    \/ ClockStepBack

Spec == Init /\ [][Next]_vars

(***************************************************************************)
(* Properties                                                              *)
(***************************************************************************)

\* The bound the sweep keeps: MaxAge once this second's sweep has run, one
\* second more while it is due or under way.
AgeBound == MaxAge + (IF swPc = "idle" /\ swept THEN 0 ELSE 1)

(***************************************************************************)
(* Hard expiry as the code measures it: a non-permanent entry's            *)
(* time.time() - creation_time is never above MaxAge once this second's    *)
(* _maintain_cache has run, and never above MaxAge + 1 (the one-second     *)
(* sweep jitter) in between, however lookups, refreshes, RX adds and clock *)
(* changes interleave with the sweep.                                      *)
(***************************************************************************)
EntryAgeBound ==
    \A k \in Cached : ~nd_cache[k].permanent => nd_cache[k].age <= AgeBound

(***************************************************************************)
(* Hard expiry of spec sections 3 and 9, with created_at a monotonic       *)
(* timestamp: the time that really passed since a non-permanent entry was  *)
(* (re)inserted stays within the same bound.                              *)
(***************************************************************************)
EntryLifeBound ==
    \A k \in Cached : ~nd_cache[k].permanent => nd_cache[k].life <= AgeBound

(***************************************************************************)
(* Spec section 8: after add(K, M) and no later add(K, _), a lookup of K   *)
(* within MaxAge returns M.  Only the sweep removes entries, so this says  *)
(* the sweep never pops an entry that is not yet expired, even when an RX  *)
(* add_entry lands between its age check and its pop.                      *)
(***************************************************************************)
SweepEvictsOnlyExpired ==
    [][\A k \in Cached : k \notin Cached' => nd_cache[k].life > MaxAge]_vars

=============================================================================
