----------------------------- MODULE KeyedMutex -----------------------------
(***************************************************************************)
(* What the single-flight manager promises: one mutual-exclusion lock per  *)
(* cache key, created on demand and never confused with the lock of        *)
(* another key.  SingleFlight implements it; TieredCache is built on it.   *)
(***************************************************************************)
CONSTANTS
    Keys,       \* cache keys
    Procs,      \* threads that may produce a value
    NoProc      \* owner of a key that nobody holds, none of Procs

VARIABLE owner  \* the thread inside the flight of each key

\* A key is held by one thread or by none.
TypeOK == owner \in [Keys -> Procs \cup {NoProc}]

Init == owner = [k \in Keys |-> NoProc]

\* Mutant of Acquire: the lock does not exclude.
AcquireRegardless(p, k) == owner' = [owner EXCEPT ![k] = p]

Acquire(p, k) ==
    /\ owner[k] = NoProc
    /\ owner' = [owner EXCEPT ![k] = p]

Release(p, k) ==
    /\ owner[k] = p
    /\ owner' = [owner EXCEPT ![k] = NoProc]

Next == \E p \in Procs, k \in Keys : Acquire(p, k) \/ Release(p, k)

Spec == Init /\ [][Next]_owner
=============================================================================
