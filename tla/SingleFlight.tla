---------------------------- MODULE SingleFlight ----------------------------
(***************************************************************************)
(* SingleFlightManager of app/api/core/cache.py and the protocol its two   *)
(* users follow (get_or_set and the SWR refresh worker):                   *)
(*                                                                         *)
(*     lock = acquire_flight(key); lock.acquire()                          *)
(*     try: ... finally: lock.release(); release_flight(key)               *)
(*                                                                         *)
(* The manager keeps a table from keys to a lock object and a reference    *)
(* count; the entry is deleted with its last reference, and the next miss  *)
(* on the key makes a new lock object.  Mutual exclusion on a key therefore*)
(* rests on the count: two lock objects for one key would let two          *)
(* producers in.                                                           *)
(***************************************************************************)
EXTENDS Integers, FiniteSets

CONSTANTS
    Keys,       \* cache keys
    Procs,      \* request threads and SWR workers
    Locks,      \* lock objects (threading.Lock instances)
    NoProc,     \* holder of a lock nobody holds
    NoLock,     \* a thread outside the protocol refers to no lock
    NoKey       \* ... and to no key

ASSUME ProcsAssumption == IsFiniteSet(Procs) /\ NoProc \notin Procs
ASSUME NoLockAssumption == NoLock \notin Locks
ASSUME NoKeyAssumption == NoKey \notin Keys

VARIABLES
    table,      \* self._locks: the entries, a function over the keys present
    holder,     \* which thread holds each lock object
    pc,         \* where each thread is in the protocol
    key,        \* the key it asked for
    lock        \* its local variable `lock'

flightVars == <<table, holder, pc, key, lock>>

Entry == [lock : Locks, refs : Nat \ {0}]

\* Types of the table, of the lock objects and of the threads.
FlightTypeOK ==
    /\ DOMAIN table \subseteq Keys
    /\ table \in [DOMAIN table -> Entry]
    /\ holder \in [Locks -> Procs \cup {NoProc}]
    /\ pc \in [Procs -> {"idle", "waiting", "producing", "leaving"}]
    /\ key \in [Procs -> Keys \cup {NoKey}]
    /\ lock \in [Procs -> Locks \cup {NoLock}]

Present == DOMAIN table

FlightInit ==
    /\ table = [k \in {} |-> 0]
    /\ holder = [l \in Locks |-> NoProc]
    /\ pc = [p \in Procs |-> "idle"]
    /\ key = [p \in Procs |-> NoKey]
    /\ lock = [p \in Procs |-> NoLock]

\* threading.Lock() returns an object that nobody refers to yet.
NewLocks ==
    {l \in Locks : /\ \A k \in Present : table[k].lock # l
                   /\ \A p \in Procs : lock[p] # l}

WithEntry(k, e) == [j \in Present \cup {k} |-> IF j = k THEN e ELSE table[j]]
WithoutEntry(k) == [j \in Present \ {k} |-> table[j]]

Join(p, k, l) ==
    /\ pc' = [pc EXCEPT ![p] = "waiting"]
    /\ key' = [key EXCEPT ![p] = k]
    /\ lock' = [lock EXCEPT ![p] = l]
    /\ UNCHANGED holder

(***************************************************************************)
(* acquire_flight, one step under _pool_lock                               *)
(***************************************************************************)

\* Mutant of JoinFlight: the reference of a second thread is not counted.
JoinFlightUncounted(p, k) ==
    /\ pc[p] = "idle"
    /\ k \in Present
    /\ UNCHANGED table
    /\ Join(p, k, table[k].lock)

JoinFlight(p, k) ==
    /\ pc[p] = "idle"
    /\ k \in Present
    /\ table' = WithEntry(k, [table[k] EXCEPT !.refs = @ + 1])
    /\ Join(p, k, table[k].lock)

OpenFlight(p, k) ==
    /\ pc[p] = "idle"
    /\ k \notin Present
    /\ \E l \in NewLocks :
          /\ table' = WithEntry(k, [lock |-> l, refs |-> 1])
          /\ Join(p, k, l)

(***************************************************************************)
(* lock.acquire(), lock.release()                                          *)
(***************************************************************************)
\* Mutant of Lock: a thread that sees another one waiting backs off and tries
\* again, as the other one does.
LockBacksOff(p) ==
    /\ pc[p] = "waiting"
    /\ holder[lock[p]] = NoProc
    /\ IF \E q \in Procs \ {p} : pc[q] = "waiting" /\ lock[q] = lock[p]
         THEN UNCHANGED <<holder, pc>>
         ELSE /\ holder' = [holder EXCEPT ![lock[p]] = p]
              /\ pc' = [pc EXCEPT ![p] = "producing"]
    /\ UNCHANGED <<table, key, lock>>

Lock(p) ==
    /\ pc[p] = "waiting"
    /\ holder[lock[p]] = NoProc
    /\ holder' = [holder EXCEPT ![lock[p]] = p]
    /\ pc' = [pc EXCEPT ![p] = "producing"]
    /\ UNCHANGED <<table, key, lock>>

Unlock(p) ==
    /\ pc[p] = "producing"
    /\ holder' = [holder EXCEPT ![lock[p]] = NoProc]
    /\ pc' = [pc EXCEPT ![p] = "leaving"]
    /\ UNCHANGED <<table, key, lock>>

(***************************************************************************)
(* release_flight, one step under _pool_lock                               *)
(***************************************************************************)
Leave(p) ==
    /\ pc[p] = "leaving"
    /\ pc' = [pc EXCEPT ![p] = "idle"]
    /\ key' = [key EXCEPT ![p] = NoKey]
    /\ lock' = [lock EXCEPT ![p] = NoLock]
    /\ UNCHANGED holder

\* Mutant of DropReference: the first thread to leave deletes the entry.
DropReferenceDeletes(k) == table' = WithoutEntry(k)

DropReference(k) ==
    table' = IF table[k].refs <= 1
               THEN WithoutEntry(k)
               ELSE WithEntry(k, [table[k] EXCEPT !.refs = @ - 1])

ReleaseFlight(p) ==
    /\ Leave(p)
    /\ IF key[p] \in Present THEN DropReference(key[p]) ELSE UNCHANGED table

FlightNext ==
    \E p \in Procs :
        \/ \E k \in Keys : JoinFlight(p, k) \/ OpenFlight(p, k)
        \/ Lock(p)
        \/ Unlock(p)
        \/ ReleaseFlight(p)

FlightSpec == FlightInit /\ [][FlightNext]_flightVars

\* A thread outside lock.acquire() runs on: producers return or raise, and
\* the manager's own lock is held for a few instructions only.  A free lock
\* object is granted to one of its waiters, but threading.Lock promises no order
\* among them.
FlightFairness ==
    /\ \A p \in Procs : WF_flightVars(Unlock(p) \/ ReleaseFlight(p))
    /\ \A l \in Locks : WF_flightVars(\E p \in Procs : lock[p] = l /\ Lock(p))

FlightFairSpec == FlightSpec /\ FlightFairness

(***************************************************************************)
(* Properties                                                              *)
(***************************************************************************)
Participants(k) == {p \in Procs : pc[p] # "idle" /\ key[p] = k}

(* The promise of the class ("only 1 producer executes for simultaneous    *)
(* misses"): no two threads are between acquire and release on one key.    *)
OneProducerPerKey ==
    \A p, q \in Procs :
        pc[p] = "producing" /\ pc[q] = "producing" /\ key[p] = key[q] => p = q

(* A key's entry counts exactly the threads between acquire_flight and     *)
(* release_flight on it and is absent when there is none: the table neither*)
(* loses an entry in use nor leaks one for every key ever asked for.       *)
RefsCountParticipants ==
    \A k \in Keys :
        /\ k \in Present <=> Participants(k) # {}
        /\ k \in Present => table[k].refs = Cardinality(Participants(k))

(* A lock object serves one key: a producer of one key never waits for, nor*)
(* releases, the flight of another.                                        *)
LocksNotShared ==
    \A p, q \in Procs :
        pc[p] # "idle" /\ pc[q] # "idle" => (key[p] = key[q] <=> lock[p] = lock[q])

(* The table of flights is sound: one producer a key, a reference for      *)
(* every participant, and no lock that two keys share, through every order *)
(* in which callers join, wait, give up and drop the last reference.       *)
FlightSound ==
    FlightTypeOK /\ OneProducerPerKey /\ RefsCountParticipants /\ LocksNotShared

Producers(k) == {p \in Procs : pc[p] = "producing" /\ key[p] = k}

TheOne(S) == CHOOSE p \in S : TRUE

Owner ==
    [k \in Keys |-> IF Producers(k) = {} THEN NoProc ELSE TheOne(Producers(k))]

Mutex == INSTANCE KeyedMutex WITH owner <- Owner

(* The table of reference-counted locks implements one mutex per key.      *)
ImplementsMutex == Mutex!Spec

(* Coalescing never turns into a standstill: while a thread waits for a    *)
(* key, some thread is, or will be, producing that key.                    *)
WaitersProgress ==
    \A k \in Keys :
        (\E p \in Procs : pc[p] = "waiting" /\ key[p] = k)
            ~> (\E p \in Procs : pc[p] = "producing" /\ key[p] = k)
=============================================================================
