------------------------------- MODULE L1Store ------------------------------
(***************************************************************************)
(* The L1 micro-cache of app/api/core/cache.py as operators on its store.  *)
(* Every method of L1Cache does its work under one lock, so each is a      *)
(* function from the store to the next one.  The OrderedDict is a sequence *)
(* of entries with distinct keys, least recently used first.               *)
(***************************************************************************)
EXTENDS Integers, Sequences, Subsequences

CONSTANT MaxEntries     \* max_entries

ASSUME MaxEntriesAssumption == MaxEntries \in Nat \ {0}

\* L1Entry: what the tiers compare is kept, the payload is `value'.
\* `mono' is expires_at_mono; the other times are wall-clock times.
L1Entry(k, v, created, expires, stale, mono) ==
    [key |-> k, value |-> v, created |-> created, expires |-> expires,
     stale |-> stale, mono |-> mono]

\* Where the entries are whose keys a pattern does not match; the others are deleted.
Staying(store, pattern) == {i \in DOMAIN store : store[i].key \notin pattern}

\* delete is a pattern of one key, clear the pattern of all keys.
AfterDelete(store, pattern) == Picked(store, Staying(store, pattern))

Without(store, k) == AfterDelete(store, {k})
Holds(store, k) == \E i \in DOMAIN store : store[i].key = k
EntryOf(store, k) == store[CHOOSE i \in DOMAIN store : store[i].key = k]
MoveToEnd(store, k) == Append(Without(store, k), EntryOf(store, k))

(***************************************************************************)
(* get_detailed                                                            *)
(***************************************************************************)

\* Mutant of Fresh: freshness judged by the wall clock alone.
FreshByEpoch(e, mono, epoch) == epoch < e.expires

Fresh(e, mono, epoch) == epoch < e.expires /\ mono < e.mono

\* What a lookup reports: a fresh hit, a hit within the stale window (only to a
\* caller that allows it), or a miss.
Outcome(store, k, allow_stale, mono, epoch) ==
    CASE ~Holds(store, k) -> "miss"
      [] Holds(store, k) /\ Fresh(EntryOf(store, k), mono, epoch) -> "fresh"
      [] /\ Holds(store, k)
         /\ ~Fresh(EntryOf(store, k), mono, epoch)
         /\ allow_stale
         /\ epoch < EntryOf(store, k).stale -> "stale"
      [] OTHER -> "miss"

\* A hit moves the entry to the recent end; a miss deletes it, including an
\* entry still within its stale window when this caller does not allow stale.
AfterGet(store, k, allow_stale, mono, epoch) ==
    IF Outcome(store, k, allow_stale, mono, epoch) = "miss"
      THEN Without(store, k)
      ELSE MoveToEnd(store, k)

(***************************************************************************)
(* set                                                                     *)
(***************************************************************************)

AfterSet(store, e) ==
    LET grown == Append(Without(store, e.key), e)
    IN  IF Len(grown) > MaxEntries THEN Tail(grown) ELSE grown
=============================================================================
