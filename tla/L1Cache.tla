------------------------------- MODULE L1Cache ------------------------------
(***************************************************************************)
(* The L1 micro-cache on its own: any sequence of get_detailed, set and    *)
(* delete calls, while time passes and the wall clock may be stepped.      *)
(*                                                                         *)
(* The code reads two clocks: time.monotonic() for the deadline of this    *)
(* process's copy and time.time() for the timestamps an envelope brings    *)
(* along.  Both are modelled, because the second may jump.                 *)
(***************************************************************************)
EXTENDS L1Store, FiniteSets

CONSTANTS
    L1Keys,
    Ttl,            \* lifetime an envelope gives (expires - created)
    L1Ttl,          \* ttl argument of set: lifetime of this process's copy
    StaleWindow,    \* stale_until - expires
    MaxTime,        \* bound on both clocks
    MaxSteps        \* bound on adjustments of the wall clock

ASSUME TtlAssumption ==
    /\ Ttl \in Nat \ {0} /\ L1Ttl \in 1..Ttl
    /\ StaleWindow \in Nat /\ MaxTime \in Nat /\ MaxSteps \in Nat

VARIABLES
    store,      \* self._store
    mono,       \* time.monotonic()
    epoch,      \* time.time()
    steps,      \* wall-clock adjustments so far
    reply,      \* history: the last lookup, what it reported, and how long ago
                \* (monotonic time) this process wrote the entry
    written,    \* history: when each key was last set
    since       \* history: the keys used since each key was last used, or Gone
                \* for a key deleted, found expired or never set

l1Vars == <<store, mono, epoch, steps, reply, written, since>>

Gone == L1Keys
NoReply == [outcome |-> "none", age |-> 0]

StoredKeys == {store[i].key : i \in DOMAIN store}

\* The store holds at most one entry per key and is never overfull.
L1TypeOK ==
    /\ Len(store) <= MaxEntries
    /\ Cardinality(StoredKeys) = Len(store)
    /\ \A i \in DOMAIN store :
          /\ store[i].key \in L1Keys
          /\ store[i].created <= store[i].expires
          /\ store[i].expires <= store[i].stale
    /\ mono \in 0..MaxTime
    /\ epoch \in 0..MaxTime

L1Init ==
    /\ store = <<>>
    /\ mono = 0
    /\ epoch = 0
    /\ steps = 0
    /\ reply = NoReply
    /\ written = [k \in L1Keys |-> 0]
    /\ since = [k \in L1Keys |-> Gone]

\* k becomes the most recently used key.
Use(k) ==
    since' = [j \in L1Keys |-> IF j = k THEN {} ELSE since[j] \cup {k}]

GetDetailed(k, allow_stale) ==
    LET outcome == Outcome(store, k, allow_stale, mono, epoch)
    IN  /\ store' = AfterGet(store, k, allow_stale, mono, epoch)
        /\ reply' = [outcome |-> outcome, age |-> mono - written[k]]
        /\ IF outcome = "miss"
             THEN since' = [since EXCEPT ![k] = Gone]
             ELSE Use(k)
        /\ UNCHANGED <<mono, epoch, steps, written>>

\* set, called with the timestamps of an envelope created at `created'.
Set(k, created) ==
    LET expires == created + Ttl
    IN  /\ store' = AfterSet(store, L1Entry(k, k, created, expires,
                                            expires + StaleWindow, mono + L1Ttl))
        /\ written' = [written EXCEPT ![k] = mono]
        /\ Use(k)
        /\ reply' = NoReply
        /\ UNCHANGED <<mono, epoch, steps>>

Delete(pattern) ==
    /\ store' = AfterDelete(store, pattern)
    /\ since' = [k \in L1Keys |-> IF k \in pattern THEN Gone ELSE since[k]]
    /\ reply' = NoReply
    /\ UNCHANGED <<mono, epoch, steps, written>>

L1Tick ==
    /\ mono < MaxTime /\ epoch < MaxTime
    /\ mono' = mono + 1
    /\ epoch' = epoch + 1
    /\ reply' = NoReply
    /\ UNCHANGED <<store, steps, written, since>>

\* The wall clock is adjusted; the monotonic clock is not.
StepClock ==
    /\ steps < MaxSteps
    /\ steps' = steps + 1
    /\ epoch' \in 0..MaxTime
    /\ reply' = NoReply
    /\ UNCHANGED <<store, mono, written, since>>

L1Next ==
    \/ \E k \in L1Keys, allow_stale \in BOOLEAN : GetDetailed(k, allow_stale)
    \/ \E k \in L1Keys, created \in 0..epoch : Set(k, created)
    \/ \E pattern \in SUBSET L1Keys : Delete(pattern)
    \/ L1Tick
    \/ StepClock

L1Spec == L1Init /\ [][L1Next]_l1Vars

(***************************************************************************)
(* Properties                                                              *)
(***************************************************************************)

(* Least recently used goes first: an entry that was set or hit, and since *)
(* then neither deleted nor found expired, is still stored as long as fewer*)
(* than max_entries other keys have been used after it.                    *)
RecentlyUsedKept ==
    \A k \in L1Keys :
        k \notin since[k] /\ Cardinality(since[k]) < MaxEntries => Holds(store, k)

(* Monotonic expiration: whatever happens to the wall clock, a hit reported*)
(* fresh is of an entry this process wrote less than its L1 lifetime ago.  *)
FreshDespiteClockSteps == reply.outcome = "fresh" => reply.age < L1Ttl

(* The process's own layer is sound: it never outgrows its bound, evicts   *)
(* the least recently used entry, and calls an entry fresh by the time     *)
(* that went by and not by the clock on the wall, which may step back.     *)
L1Sound == L1TypeOK /\ RecentlyUsedKept /\ FreshDespiteClockSteps
=============================================================================
