-------------------------- MODULE TieredCacheProofs -------------------------
(***************************************************************************)
(* Safety of the tiered cache, for any keys, threads, lifetimes and size of*)
(* L1, with Redis failing at any command.                                  *)
(*                                                                         *)
(* Four arguments, one for each property.  A value keeps the time it was   *)
(* produced at in whatever tier it is (Entry, Stamped), so no copy of it   *)
(* lives longer than the first.  A key marked active has one job, queued   *)
(* or running, and keeps its mark until that job is over (Refreshes).  A   *)
(* producer's result is not older than what L2 holds of its key, because   *)
(* nobody else writes that key until it has left the flight (NotOvertaken).*)
(* And after a commit that found no thread at work, either everything      *)
(* cached is of the new version or nobody has moved but the thread that    *)
(* invalidates (Undisturbed).                                              *)
(***************************************************************************)
EXTENDS TieredCache, L1StoreProofs, SequenceTheorems

(* What the tiers hold: timestamps and expiry follow from the birth of the *)
(* value.                                                                  *)
Stamped == {env \in Envelope : env.created = env.value.born}

Entry ==
    {e \in [key : Keys, value : Payload, created : Times, expires : Int, stale : Int, mono : Int] :
        /\ e.created = e.value.born
        /\ e.expires = Expires(e)
        /\ e.stale = StaleUntil(e.key, e)}

Tiers ==
    /\ now \in Times /\ db \in Versions
    /\ l1 \in Seq(Entry) /\ KeysDistinct(l1) /\ Len(l1) <= MaxEntries
    /\ l2 \in [Keys -> Stamped \cup {Nil}]

(* Where a thread has an envelope in hand that it is going to store.       *)
Carrying == {"backfill", "backfillStale", "refill", "storeL2", "storeL1"}

Threads ==
    /\ pc \in [Procs -> PC]
    /\ key \in [Procs -> Keys \cup {Nil}]
    /\ hand \in [Procs -> Stamped \cup {Nil}]
    /\ wpc \in {"idle", "l1", "scan", "l2"}
    /\ pattern \subseteq Keys
    /\ \A p \in Procs : (pc[p] = "idle") <=> (key[p] = Nil)
    /\ \A p \in Procs : pc[p] \in Carrying => hand[p] \in Stamped
    /\ \A p \in Procs : pc[p] \in {"schedule", "backfillStale"} => key[p] \in StaleKeys

(* The flight of a key is held by the thread inside it and by nobody else. *)
Held ==
    /\ owner \in [Keys -> Procs \cup {NoProc}]
    /\ \A p \in Procs : pc[p] \in InFlight => owner[key[p]] = p
    /\ \A k \in Keys : owner[k] # NoProc => key[owner[k]] = k /\ pc[owner[k]] \in InFlight

Queued(k) == \E i \in DOMAIN queue : queue[i] = k

(* One job for each key marked active, and no other.                       *)
Refreshes ==
    /\ active \subseteq StaleKeys
    /\ queue \in Seq(active)
    /\ \A i, j \in DOMAIN queue : queue[i] = queue[j] => i = j
    /\ \A w \in Workers : key[w] # Nil => key[w] \in active /\ ~Queued(key[w])
    /\ \A v, w \in Workers : key[v] = key[w] /\ key[v] # Nil => v = w
    /\ \A k \in active : Queued(k) \/ \E w \in Workers : key[w] = k

(* Nothing is newer than the database, and what a producer is about to     *)
(* write is not older than what it will replace.                           *)
NotOvertaken ==
    /\ \A k \in Keys : l2[k] # Nil => l2[k].value.version <= db
    /\ \A p \in Procs : pc[p] \in Carrying => hand[p].value.version <= db
    /\ \A p \in Procs :
          pc[p] = "storeL2" /\ l2[key[p]] # Nil => l2[key[p]].value.version <= hand[p].value.version

Current == {e \in Entry : e.value.version = db}

(* All that is cached or about to be is of the version last committed.     *)
Clean ==
    /\ l1 \in Seq(Current)
    /\ \A k \in Keys : l2[k] # Nil => l2[k].value.version = db
    /\ \A p \in Procs : pc[p] \in Carrying => hand[p].value.version = db

(* The thread that invalidates has come this far and nobody else has moved.*)
Pending ==
    /\ ~Busy
    /\ wpc # "idle"
    /\ wpc \in {"l1", "scan"} => pattern = Keys
    /\ wpc \in {"scan", "l2"} => l1 \in Seq(Current)
    /\ wpc = "l2" =>
          \A k \in Keys : l2[k] # Nil /\ k \notin pattern => l2[k].value.version = db

Undisturbed == quiet => Clean \/ Pending

Inv == Tiers /\ Threads /\ Held /\ Refreshes /\ NotOvertaken /\ AgeCeiling /\ Undisturbed

USE StaleKeysAssumption, ProcsAssumption, TimesAssumption, FailAssumption

(***************************************************************************)
(* The tiers                                                               *)
(***************************************************************************)

(* The entry _write_l1 makes of an envelope.                               *)
EntryFor(k, env) ==
    L1Entry(k, env.value, env.created, Expires(env), StaleUntil(k, env), now + L1Ttl)

LEMMA EntryForFacts ==
    ASSUME now \in Times, NEW k \in Keys, NEW env \in Stamped
    PROVE  /\ EntryFor(k, env) \in Entry
           /\ env.value.version = db => EntryFor(k, env) \in Current
<1>1. /\ env.value \in Payload /\ env.created \in Times /\ env.created = env.value.born
      /\ Ttl \in Nat /\ L1Ttl \in Nat /\ StaleWindow \in Nat /\ now \in Nat /\ env.created \in Nat
  BY DEF Stamped, Envelope, Times
<1>2. Expires(env) \in Int /\ StaleUntil(k, env) \in Int
  BY <1>1 DEF Expires, StaleUntil
<1> QED
  BY <1>1, <1>2 DEF EntryFor, L1Entry, Entry, Current, Expires, StaleUntil

(* Sequences over a smaller set.                                           *)
LEMMA WriteFacts ==
    ASSUME Tiers, NEW k \in Keys, NEW env \in Stamped, WriteL1(k, env)
    PROVE  /\ l1' \in Seq(Entry) /\ KeysDistinct(l1') /\ Len(l1') <= MaxEntries
           /\ l1 \in Seq(Current) /\ env.value.version = db => l1' \in Seq(Current)
<1> DEFINE e == EntryFor(k, env)
<1>1. l1' = AfterSet(l1, e)
  BY DEF WriteL1, EntryFor
<1>2. e \in Entry /\ (env.value.version = db => e \in Current)
  BY EntryForFacts DEF Tiers
<1> HIDE DEF e
<1>3. l1' \in Seq(Entry) /\ KeysDistinct(l1') /\ Len(l1') <= MaxEntries
  BY <1>1, <1>2, SetKeeps DEF Tiers
<1>4. ASSUME l1 \in Seq(Current), env.value.version = db PROVE l1' \in Seq(Current)
  BY <1>1, <1>2, <1>4, SetKeeps DEF Tiers
<1> QED
  BY <1>3, <1>4

LEMMA LookupFacts ==
    ASSUME Tiers, NEW k \in Keys, NEW allow_stale \in BOOLEAN, L1Get(k, allow_stale)
    PROVE  /\ l1' \in Seq(Entry) /\ KeysDistinct(l1') /\ Len(l1') <= MaxEntries
           /\ l1 \in Seq(Current) => l1' \in Seq(Current)
<1>1. l1' = AfterGet(l1, k, allow_stale, now, now)
  BY DEF L1Get
<1>2. /\ l1' \in Seq(Entry) /\ KeysDistinct(l1') /\ Len(l1') <= Len(l1)
  BY <1>1, GetKeeps DEF Tiers
<1>3. ASSUME l1 \in Seq(Current) PROVE l1' \in Seq(Current)
  BY <1>1, <1>3, GetKeeps DEF Tiers
<1>4. Len(l1) \in Nat /\ Len(l1') \in Nat /\ MaxEntries \in Nat /\ Len(l1) <= MaxEntries
  BY <1>2, MaxEntriesAssumption DEF Tiers
<1> QED
  BY <1>2, <1>3, <1>4

(* What a lookup reports is an entry of the key that was asked for, and it *)
(* has not outlived its window.                                            *)
LEMMA HitFacts ==
    ASSUME Tiers, NEW k \in Keys, NEW allow_stale \in BOOLEAN,
           L1Outcome(k, allow_stale) # "miss"
    PROVE  /\ EntryOf(l1, k) \in Entry /\ EntryOf(l1, k).key = k
           /\ L1Outcome(k, allow_stale) = "fresh" => now < EntryOf(l1, k).expires
           /\ now < EntryOf(l1, k).expires \/ (allow_stale /\ now < EntryOf(l1, k).stale)
<1>1. Holds(l1, k)
  BY DEF L1Outcome, Outcome
<1>2. EntryOf(l1, k) \in Entry /\ EntryOf(l1, k).key = k
  BY <1>1, EntryFacts DEF Tiers
<1> DEFINE e == EntryOf(l1, k)
<1>3. \/ L1Outcome(k, allow_stale) = "fresh" /\ Fresh(e, now, now)
      \/ L1Outcome(k, allow_stale) = "stale" /\ allow_stale /\ now < e.stale
  BY DEF L1Outcome, Outcome
<1>4. Fresh(e, now, now) => now < e.expires
  BY DEF Fresh
<1> HIDE DEF e
<1>5. L1Outcome(k, allow_stale) = "fresh" => now < e.expires
  BY <1>3, <1>4
<1>6. now < e.expires \/ (allow_stale /\ now < e.stale)
  BY <1>3, <1>4, Zenon
<1> QED
  BY <1>2, <1>5, <1>6 DEF e

(* Tiers is kept by the steps of the threads.                              *)
LEMMA ThreadTiers ==
    ASSUME Inv, NEW p \in Procs,
           \/ \E k \in Keys : Get(p, k)
           \/ RequestStep(p) \/ StartJob(p) \/ Discard(p) \/ Join(p) \/ FlightStep(p)
    PROVE  Tiers'
<1>0. Tiers /\ Threads
  BY DEF Inv
<1>1. ASSUME NEW k \in Keys, Get(p, k) PROVE Tiers'
  <2> DEFINE allow_stale == k \in StaleKeys
  <2>1. L1Get(k, allow_stale) /\ UNCHANGED <<now, db, l2>> /\ allow_stale \in BOOLEAN
    BY <1>1 DEF Get
  <2> HIDE DEF allow_stale
  <2> QED
    BY <1>0, <2>1, LookupFacts DEF Tiers
<1>2. CASE Backfill(p) \/ Refill(p) \/ StoreL1(p)
  <2>1. /\ WriteL1(key[p], hand[p]) /\ UNCHANGED <<now, db, l2>>
        /\ pc[p] \in Carrying /\ pc[p] # "idle"
    BY <1>2 DEF Backfill, Refill, StoreL1, Carrying, shared
  <2>2. key[p] \in Keys /\ hand[p] \in Stamped
    BY <1>0, <2>1 DEF Threads
  <2> QED
    BY <1>0, <2>1, <2>2, WriteFacts DEF Tiers
<1>3. CASE RecheckL1(p)
  <2>1. L1Get(key[p], FALSE) /\ UNCHANGED <<now, db, l2>> /\ key[p] \in Keys
    BY <1>0, <1>3 DEF RecheckL1, shared, Threads
  <2> QED
    BY <1>0, <2>1, LookupFacts DEF Tiers
<1>4. CASE Drop(p)
  <2>1. UNCHANGED <<now, db, l1>> /\ (l2' = [l2 EXCEPT ![key[p]] = Nil] \/ UNCHANGED l2)
    BY <1>4 DEF Drop, shared
  <2> QED
    BY <1>0, <2>1 DEF Tiers
<1>5. CASE StoreL2(p)
  <2> DEFINE env == [hand[p] EXCEPT !.created = now, !.value.born = now]
  <2>1. UNCHANGED <<now, db, l1>> /\ (l2' = [l2 EXCEPT ![key[p]] = env] \/ UNCHANGED l2)
    BY <1>5 DEF StoreL2, shared
  <2>2. env \in Stamped
    <3>1. hand[p] \in Stamped /\ now \in Times
      BY <1>0, <1>5 DEF StoreL2, Threads, Carrying, Tiers
    <3> QED
      BY <3>1 DEF Stamped, Envelope, Payload
  <2> QED
    BY <1>0, <2>1, <2>2 DEF Tiers
<1>6. CASE UNCHANGED <<now, db, l1, l2>>
  BY <1>0, <1>6 DEF Tiers
<1>7. ReadL2(p) \/ Schedule(p) \/ StartJob(p) \/ Discard(p) \/ Join(p) \/ RecheckL2(p) \/ Produce(p) \/ Unlock(p)
        => UNCHANGED <<now, db, l1, l2>>
  BY DEF ReadL2, Schedule, StartJob, Discard, Join, RecheckL2, Produce, Unlock, shared
<1> QED
  BY <1>1, <1>2, <1>3, <1>4, <1>5, <1>6, <1>7 DEF RequestStep, FlightStep

(* Tiers is kept by commits, invalidations and the passing of time.        *)
LEMMA WriterTiers ==
    ASSUME Inv, Commit \/ (\E S \in SUBSET Keys : InvalidateEntity(S)) \/ Invalidation \/ Tick
    PROVE  Tiers'
<1>0. Tiers
  BY DEF Inv
<1>1. CASE Commit
  BY <1>0, <1>1 DEF Commit, Tiers, Versions
<1>2. CASE InvalidateL1
  <2>1. l1' = AfterDelete(l1, pattern) /\ UNCHANGED <<now, db, l2>>
    BY <1>2 DEF InvalidateL1
  <2>2. l1' \in Seq(Entry) /\ KeysDistinct(l1') /\ Len(l1') <= Len(l1)
    BY <1>0, <2>1, DeleteKeeps DEF Tiers
  <2>3. Len(l1) \in Nat /\ Len(l1') \in Nat /\ MaxEntries \in Nat
    BY <1>0, <2>2, MaxEntriesAssumption DEF Tiers
  <2> QED
    BY <1>0, <2>1, <2>2, <2>3 DEF Tiers
<1>3. ASSUME NEW k \in Keys, InvalidateL2(k) PROVE Tiers'
  BY <1>0, <1>3 DEF InvalidateL2, Tiers
<1>4. CASE Tick
  BY <1>0, <1>4 DEF Tick, Tiers, Times
<1>5. CASE UNCHANGED <<now, db, l1, l2>>
  BY <1>0, <1>5 DEF Tiers
<1>6. (\E S \in SUBSET Keys : InvalidateEntity(S)) \/ Scan \/ ScanFails \/ InvalidateDone
        => UNCHANGED <<now, db, l1, l2>>
  BY DEF InvalidateEntity, Scan, ScanFails, InvalidateDone
<1> QED
  BY <1>1, <1>2, <1>3, <1>4, <1>5, <1>6 DEF Invalidation

(***************************************************************************)
(* The threads                                                             *)
(***************************************************************************)

LEMMA ThreadThreads ==
    ASSUME Inv, NEW p \in Procs,
           \/ \E k \in Keys : Get(p, k)
           \/ RequestStep(p) \/ StartJob(p) \/ Discard(p) \/ Join(p) \/ FlightStep(p)
    PROVE  Threads'
<1>0. Tiers /\ Threads /\ Refreshes
  BY DEF Inv
<1> USE <1>0 DEF Threads, PC, InFlight, Carrying, Goto, Return, Takes
<1>1. ASSUME NEW k \in Keys, Get(p, k) PROVE Threads'
  <2>1. L1Outcome(k, k \in StaleKeys) = "stale" => k \in StaleKeys
    BY DEF L1Outcome, Outcome
  <2> QED
    BY <1>1, <2>1 DEF Get
<1>2. CASE ReadL2(p)
  <2>1. l2[key[p]] \in Stamped \cup {Nil} /\ key[p] \in Keys
    BY <1>2 DEF ReadL2, Tiers
  <2> QED
    BY <1>2, <2>1 DEF ReadL2, L2Miss, FreshInL2, StaleInL2, shared
<1>3. CASE Backfill(p) \/ Schedule(p) \/ Drop(p)
  BY <1>3 DEF Backfill, Schedule, Drop, shared
<1>4. CASE RecheckL1(p) \/ Refill(p)
  BY <1>4 DEF RecheckL1, Refill, shared
<1>5. CASE RecheckL2(p)
  <2>1. l2[key[p]] \in Stamped \cup {Nil} /\ key[p] \in Keys
    BY <1>5 DEF RecheckL2, Tiers
  <2> QED
    BY <1>5, <2>1 DEF RecheckL2, L2Miss, FreshInL2, shared
<1>6. CASE StartJob(p)
  <2>0. queue \in Seq(active) /\ queue # <<>> /\ active \subseteq StaleKeys
    BY <1>6 DEF StartJob, Refreshes
  <2>a. Head(queue) \in active
    BY <2>0, HeadTailProperties
  <2>1. Head(queue) \in Keys
    BY <2>0, <2>a
  <2> QED
    BY <1>6, <2>1 DEF StartJob
<1>7. CASE Discard(p) \/ Unlock(p) \/ Join(p)
  BY <1>7 DEF Discard, Unlock, Join
<1>8. CASE Produce(p)
  <2>1. [value |-> [version |-> db, born |-> now], created |-> now] \in Stamped
    BY DEF Stamped, Envelope, Payload, Tiers
  <2> QED
    BY <1>8, <2>1 DEF Produce, shared
<1>9. CASE StoreL2(p)
  <2> DEFINE env == [hand[p] EXCEPT !.created = now, !.value.born = now]
  <2>0. hand[p] \in Stamped /\ now \in Times
    BY <1>9 DEF StoreL2, Tiers
  <2>1. env \in Stamped
    BY <2>0 DEF Stamped, Envelope, Payload
  <2> HIDE DEF env
  <2>2. /\ pc[p] = "storeL2" /\ UNCHANGED <<key, wpc, pattern>>
        /\ \/ hand' = [hand EXCEPT ![p] = env] /\ pc' = [pc EXCEPT ![p] = "storeL1"]
           \/ hand' = hand /\ pc' = [pc EXCEPT ![p] = "unlock"]
    BY <1>9 DEF StoreL2, shared, env
  <2> QED
    BY <2>1, <2>2
<1>10. CASE StoreL1(p)
  BY <1>10 DEF StoreL1, shared
<1> QED
  BY <1>1, <1>2, <1>3, <1>4, <1>5, <1>6, <1>7, <1>8, <1>9, <1>10 DEF RequestStep, FlightStep

LEMMA WriterThreads ==
    ASSUME Inv, Commit \/ (\E S \in SUBSET Keys : InvalidateEntity(S)) \/ Invalidation \/ Tick
    PROVE  Threads'
<1>0. Threads /\ UNCHANGED <<pc, key, hand>>
  BY DEF Inv, Commit, InvalidateEntity, Invalidation, InvalidateL1, Scan, ScanFails,
         InvalidateL2, InvalidateDone, Tick, threads
<1>1. wpc' \in {"idle", "l1", "scan", "l2"} /\ pattern' \subseteq Keys
  BY <1>0 DEF Threads, Commit, InvalidateEntity, Invalidation, InvalidateL1, Scan, ScanFails,
         InvalidateL2, InvalidateDone, Tick
<1> QED
  BY <1>0, <1>1 DEF Threads

(* Who holds which flight.                                                 *)
LEMMA ThreadHeld ==
    ASSUME Inv, NEW p \in Procs,
           \/ \E k \in Keys : Get(p, k)
           \/ RequestStep(p) \/ StartJob(p) \/ Discard(p) \/ Join(p) \/ FlightStep(p)
    PROVE  Held'
<1>0. Tiers /\ Threads /\ Held /\ NoProc \notin Procs /\ Nil \notin Keys
  BY DEF Inv
<1> USE <1>0 DEF Threads, Held, InFlight, Goto, Return, Takes
<1>1. ASSUME NEW k \in Keys, Get(p, k) PROVE Held'
  <2>1. /\ pc[p] = "idle" /\ owner' = owner
        /\ \/ UNCHANGED <<pc, key>>
           \/ pc' = [pc EXCEPT ![p] = "schedule"] /\ key' = [key EXCEPT ![p] = k]
           \/ pc' = [pc EXCEPT ![p] = "readL2"] /\ key' = [key EXCEPT ![p] = k]
    BY <1>1 DEF Get
  <2> QED
    BY <2>1
<1>2. CASE Backfill(p) \/ Schedule(p)
  BY <1>2 DEF Backfill, Schedule, shared
<1>3. CASE ReadL2(p) \/ Drop(p) \/ RecheckL2(p)
  BY <1>3 DEF ReadL2, Drop, RecheckL2, L2Miss, shared
<1>4. CASE RecheckL1(p) \/ Refill(p) \/ Produce(p)
  <2>1. /\ pc[p] \in {"recheckL1", "refill", "produce"} /\ owner' = owner /\ key' = key
        /\ \/ pc' = [pc EXCEPT ![p] = "unlock"]
           \/ pc' = [pc EXCEPT ![p] = "recheckL2"]
           \/ pc' = [pc EXCEPT ![p] = "storeL2"]
    BY <1>4 DEF RecheckL1, Refill, Produce, shared
  <2> QED
    BY <2>1
<1>9. CASE StoreL2(p) \/ StoreL1(p)
  <2>1. /\ pc[p] \in {"storeL2", "storeL1"} /\ owner' = owner /\ key' = key
        /\ pc' = [pc EXCEPT ![p] = "storeL1"] \/ pc' = [pc EXCEPT ![p] = "unlock"]
    BY <1>9 DEF StoreL2, StoreL1, shared
  <2> QED
    BY <2>1
<1>5. CASE StartJob(p)
  BY <1>5 DEF StartJob
<1>6. CASE Discard(p)
  BY <1>6 DEF Discard
<1>7. CASE Join(p)
  BY <1>7 DEF Join, Flight!Acquire
<1>8. CASE Unlock(p)
  BY <1>8 DEF Unlock, Flight!Release
<1> QED
  BY <1>1, <1>2, <1>3, <1>4, <1>5, <1>6, <1>7, <1>8, <1>9 DEF RequestStep, FlightStep

(* A step that leaves the keys of the workers and the jobs alone.          *)
LEMMA SameJobs ==
    ASSUME Refreshes, UNCHANGED <<active, queue>>, \A w \in Workers : key'[w] = key[w]
    PROVE  Refreshes'
BY DEF Refreshes, Queued

(* A request that finds its key stale adds a job unless there is one.      *)
LEMMA ScheduleJobs ==
    ASSUME Inv, NEW p \in Requests, Schedule(p)
    PROVE  Refreshes'
<1> DEFINE k == key[p]
<1>0. /\ Threads /\ Refreshes /\ p \in Procs
      /\ pc[p] = "schedule" /\ k \in StaleKeys
      /\ active' = active \cup {k}
      /\ queue' = IF k \in active THEN queue ELSE Append(queue, k)
      /\ \A w \in Workers : key'[w] = key[w]
  BY DEF Inv, Schedule, Threads, Return, Procs
<1> HIDE DEF k
<1>1. CASE k \in active
  <2>1. active' = active /\ queue' = queue
    BY <1>0, <1>1
  <2> QED
    BY <1>0, <2>1, SameJobs
<1>2. CASE k \notin active
  <2>1. queue \in Seq(active) /\ queue \in Seq(active')
    BY <1>0 DEF Refreshes
  <2>2. /\ queue' \in Seq(active') /\ DOMAIN queue' = DOMAIN queue \cup {Len(queue) + 1}
        /\ Len(queue) + 1 \notin DOMAIN queue
        /\ queue'[Len(queue) + 1] = k
        /\ \A i \in DOMAIN queue : queue'[i] = queue[i] /\ queue[i] \in active
    BY <1>0, <1>2, <2>1
  <2> DEFINE n == Len(queue) + 1
  <2> HIDE DEF n
  <2>3. \A i, j \in DOMAIN queue' : queue'[i] = queue'[j] => i = j
    BY <1>0, <1>2, <2>2 DEF Refreshes, n
  <2>4. \A j \in Keys : Queued(j)' <=> Queued(j) \/ j = k
    BY <2>2 DEF Queued, n
  <2>5. /\ active' \subseteq StaleKeys /\ k \in Keys
        /\ \A w \in Workers : key[w] # Nil => key[w] \in active /\ key[w] # k /\ ~Queued(key[w])
    BY <1>0, <1>2 DEF Refreshes
  <2>6. \A w \in Workers : key'[w] # Nil => key'[w] \in active' /\ ~Queued(key[w])'
    BY <1>0, <2>4, <2>5 DEF Refreshes
  <2>7. \A j \in active' : Queued(j)' \/ \E w \in Workers : key'[w] = j
    BY <1>0, <2>4 DEF Refreshes
  <2> QED
    BY <1>0, <2>2, <2>3, <2>5, <2>6, <2>7 DEF Refreshes, Queued
<1> QED
  BY <1>1, <1>2

(* A worker takes the first job.                                           *)
LEMMA StartJobs ==
    ASSUME Inv, NEW p \in Workers, StartJob(p)
    PROVE  Refreshes'
<1> DEFINE k == Head(queue)
<1>0. /\ Threads /\ Refreshes /\ p \in Procs
      /\ key[p] = Nil /\ active' = active /\ queue' = Tail(queue) /\ queue # <<>>
      /\ queue \in Seq(active)
      /\ key' = [key EXCEPT ![p] = k] /\ key \in [Procs -> Keys \cup {Nil}]
  BY DEF Inv, StartJob, Threads, Refreshes, Procs
<1>1. /\ k \in active /\ queue' \in Seq(active) /\ k = queue[1] /\ 1 \in DOMAIN queue
      /\ \A i \in DOMAIN queue' : i + 1 \in DOMAIN queue /\ queue'[i] = queue[i + 1] /\ i \in Nat \ {0}
      /\ \A i \in DOMAIN queue : i = 1 \/ (i - 1 \in DOMAIN queue' /\ queue'[i - 1] = queue[i])
  BY <1>0, HeadTailProperties
<1>2. k \in Keys /\ k # Nil
  <2>1. active \subseteq StaleKeys
    BY <1>0 DEF Refreshes
  <2> QED
    BY <1>1, <2>1
<1> HIDE DEF k
<1>3. \A i, j \in DOMAIN queue' : queue'[i] = queue'[j] => i = j
  BY <1>0, <1>1 DEF Refreshes
<1>4. \A i \in DOMAIN queue' : queue'[i] # k
  BY <1>0, <1>1 DEF Refreshes
<1>5. \A j : Queued(j) => Queued(j)' \/ j = k
  BY <1>1 DEF Queued
<1>6. \A j : Queued(j)' => Queued(j) /\ j # k
  BY <1>1, <1>4 DEF Queued
<1>8. Queued(k)
  BY <1>1 DEF Queued
<1>7. /\ key'[p] = k
      /\ \A w \in Workers : w # p => key'[w] = key[w] /\ key[w] # k
  BY <1>0, <1>2, <1>8 DEF Refreshes, Procs
<1>9. /\ \A w \in Workers : key'[w] # Nil => key'[w] \in active
      /\ \A v, w \in Workers : key'[v] = key'[w] /\ key'[v] # Nil => v = w
      /\ \A j \in active : Queued(j)' \/ \E w \in Workers : key'[w] = j
  BY <1>0, <1>1, <1>5, <1>7 DEF Refreshes
<1>10. \A w \in Workers : key'[w] # Nil => ~Queued(key[w])'
  <2> SUFFICES ASSUME NEW w \in Workers, key'[w] # Nil, NEW i \in DOMAIN queue', queue'[i] = key'[w]
               PROVE  FALSE
    BY DEF Queued
  <2>1. w # p
    BY <1>4, <1>7
  <2>2. Queued(key[w])
    BY <1>1, <1>7, <2>1 DEF Queued
  <2> QED
    BY <1>0, <1>7, <2>1, <2>2 DEF Refreshes
<1> QED
  BY <1>0, <1>1, <1>3, <1>9, <1>10 DEF Refreshes

(* A worker ends its job: nobody else has one for that key.                *)
LEMMA EndJobs ==
    ASSUME Inv, NEW p \in Workers, Discard(p)
    PROVE  Refreshes'
<1> DEFINE k == key[p]
<1>0. /\ Threads /\ Refreshes /\ p \in Procs
      /\ k # Nil /\ active' = active \ {k} /\ queue' = queue
      /\ key' = [key EXCEPT ![p] = Nil] /\ key \in [Procs -> Keys \cup {Nil}]
  BY DEF Inv, Discard, Return, Threads, Procs
<1>1. k \in active /\ ~Queued(k)
  BY <1>0 DEF Refreshes
<1>2. queue' \in Seq(active')
  BY <1>0, <1>1 DEF Refreshes, Queued
<1>3. /\ key'[p] = Nil
      /\ \A w \in Workers : w # p => key'[w] = key[w] /\ key[w] # k
  BY <1>0 DEF Refreshes, Procs
<1> HIDE DEF k
<1> QED
  BY <1>0, <1>1, <1>2, <1>3 DEF Refreshes, Queued

LEMMA RequestKeepsJobs ==
    ASSUME Inv, NEW p \in Requests,
           (\E k \in Keys : Get(p, k)) \/ RequestStep(p) \/ Join(p) \/ FlightStep(p)
    PROVE  Refreshes'
<1>0. Threads /\ Refreshes /\ p \in Procs /\ \A w \in Workers : w # p /\ w \in Procs
  BY DEF Inv, Procs
<1>1. CASE Schedule(p)
  BY <1>1, ScheduleJobs
<1>2. CASE \/ \E k \in Keys : Get(p, k)
           \/ ReadL2(p) \/ Backfill(p) \/ Drop(p) \/ RecheckL1(p) \/ RecheckL2(p) \/ Refill(p)
           \/ Join(p) \/ Produce(p) \/ StoreL2(p) \/ StoreL1(p) \/ Unlock(p)
  <2>1. UNCHANGED <<active, queue>>
    BY <1>2 DEF Get, ReadL2, Backfill, Drop, RecheckL1, RecheckL2, Refill, Join, Produce,
                StoreL2, StoreL1, Unlock, shared
  <2>2. key' = key \/ \E x : key' = [key EXCEPT ![p] = x]
    BY <1>2, Zenon DEF Get, ReadL2, L2Miss, Backfill, Drop, RecheckL1, RecheckL2, Refill, Join,
                Produce, StoreL2, StoreL1, Unlock, Takes, Return
  <2>3. \A w \in Workers : key'[w] = key[w]
    BY <1>0, <2>2 DEF Threads
  <2> QED
    BY <1>0, <2>1, <2>3, SameJobs
<1> QED
  BY <1>1, <1>2 DEF RequestStep, FlightStep

LEMMA WorkerKeepsJobs ==
    ASSUME Inv, NEW p \in Workers, StartJob(p) \/ Discard(p) \/ Join(p) \/ FlightStep(p)
    PROVE  Refreshes'
<1>1. CASE Join(p) \/ FlightStep(p)
  <2>1. p \notin Requests
    OBVIOUS
  <2>2. UNCHANGED <<active, queue, key>>
    BY <1>1, <2>1 DEF Join, FlightStep, Produce, StoreL2, StoreL1, Unlock, shared, Takes
  <2> QED
    BY <2>2, SameJobs DEF Inv
<1> QED
  BY <1>1, StartJobs, EndJobs

(***************************************************************************)
(* Versions                                                                *)
(***************************************************************************)

(* Two threads inside flights are inside different ones.                   *)
LEMMA Exclusion ==
    ASSUME Threads, Held, NEW p \in Procs, NEW q \in Procs, p # q,
           pc[p] \in InFlight, pc[q] \in InFlight
    PROVE  key[p] # key[q]
BY DEF Threads, Held

(* No step but the write of a producer's result puts anything into L2.     *)
LEMMA OnlyStoresWrite ==
    ASSUME Inv, NEW p \in Procs,
           \/ \E k \in Keys : Get(p, k)
           \/ RequestStep(p) \/ StartJob(p) \/ Discard(p) \/ Join(p) \/ FlightStep(p),
           ~StoreL2(p)
    PROVE  \A k \in Keys : l2'[k] = l2[k] \/ l2'[k] = Nil
<1>1. l2 \in [Keys -> Stamped \cup {Nil}]
  BY DEF Inv, Tiers
<1>2. UNCHANGED l2 \/ l2' = [l2 EXCEPT ![key[p]] = Nil]
  BY DEF Get, RequestStep, FlightStep, ReadL2, Backfill, Schedule, Drop, RecheckL1, RecheckL2,
         Refill, StartJob, Discard, Join, Produce, StoreL1, Unlock, shared
<1> QED
  BY <1>1, <1>2

(* What a thread comes to carry is what L2 holds or what the database is.  *)
LEMMA ComesToCarry ==
    ASSUME Inv, NEW p \in Procs,
           \/ \E k \in Keys : Get(p, k)
           \/ RequestStep(p) \/ StartJob(p) \/ Discard(p) \/ Join(p) \/ FlightStep(p),
           pc'[p] \in Carrying
    PROVE  /\ UNCHANGED <<db, key>>
           /\ \/ pc'[p] # "storeL2" /\ l2[key[p]] # Nil /\ key[p] \in Keys
                   /\ hand'[p].value.version = l2[key[p]].value.version
              \/ pc'[p] = "storeL2" /\ hand'[p].value.version = db /\ Produce(p)
              \/ pc'[p] # "storeL2" /\ pc[p] \in Carrying
                   /\ hand'[p].value.version = hand[p].value.version
<1>0. /\ Threads /\ Tiers
      /\ pc \in [Procs -> PC] /\ key \in [Procs -> Keys \cup {Nil}]
      /\ hand \in [Procs -> Stamped \cup {Nil}]
      /\ Nil \notin Keys
  BY DEF Inv, Threads
<1> USE <1>0 DEF Carrying, Goto, Return, Takes
<1>1. CASE ReadL2(p)
  BY <1>1 DEF ReadL2, L2Miss, FreshInL2, StaleInL2, shared, Threads
<1>2. CASE RecheckL2(p)
  BY <1>2 DEF RecheckL2, L2Miss, FreshInL2, shared, Threads
<1>3. CASE Produce(p)
  BY <1>3 DEF Produce, shared
<1>4. CASE StoreL2(p)
  <2>1. hand[p] \in Stamped
    BY <1>4 DEF StoreL2, Threads
  <2>2. [hand[p] EXCEPT !.created = now, !.value.born = now].value.version = hand[p].value.version
    BY <2>1 DEF Stamped, Envelope, Payload
  <2> DEFINE env == [hand[p] EXCEPT !.created = now, !.value.born = now]
  <2> HIDE DEF env
  <2>3. /\ UNCHANGED <<db, key>> /\ pc[p] = "storeL2"
        /\ \/ hand' = [hand EXCEPT ![p] = env] /\ pc' = [pc EXCEPT ![p] = "storeL1"]
           \/ pc' = [pc EXCEPT ![p] = "unlock"]
    BY <1>4 DEF StoreL2, shared, env
  <2>4. env.value.version = hand[p].value.version
    BY <2>2 DEF env
  <2> QED
    BY <2>3, <2>4
<1>5. CASE \/ \E k \in Keys : Get(p, k)
           \/ Backfill(p) \/ Schedule(p) \/ Drop(p)
  BY <1>5 DEF Get, Backfill, Schedule, Drop, shared
<1>6. CASE RecheckL1(p) \/ Refill(p) \/ StartJob(p) \/ Discard(p)
  BY <1>6 DEF RecheckL1, Refill, StartJob, Discard, shared
<1>7. CASE Join(p) \/ StoreL1(p) \/ Unlock(p)
  BY <1>7 DEF Join, StoreL1, Unlock, shared
<1> QED
  BY <1>1, <1>2, <1>3, <1>4, <1>5, <1>6, <1>7 DEF RequestStep, FlightStep

(* The other threads' locals are their own.                                *)
LEMMA OthersAlone ==
    ASSUME Inv, NEW p \in Procs,
           \/ \E k \in Keys : Get(p, k)
           \/ RequestStep(p) \/ StartJob(p) \/ Discard(p) \/ Join(p) \/ FlightStep(p)
    PROVE  /\ \A q \in Procs : q # p => pc'[q] = pc[q] /\ key'[q] = key[q] /\ hand'[q] = hand[q]
           /\ UNCHANGED <<db, now, wpc, pattern>>
<1>0. pc \in [Procs -> PC] /\ key \in [Procs -> Keys \cup {Nil}] /\ hand \in [Procs -> Stamped \cup {Nil}]
  BY DEF Inv, Threads
<1>1. UNCHANGED <<db, now, wpc, pattern>>
  BY DEF Get, RequestStep, FlightStep, ReadL2, Backfill, Schedule, Drop, RecheckL1, RecheckL2,
         Refill, StartJob, Discard, Join, Produce, StoreL2, StoreL1, Unlock, shared
<1>2. /\ pc' = pc \/ \E to : pc' = [pc EXCEPT ![p] = to]
      /\ key' = key \/ \E x : key' = [key EXCEPT ![p] = x]
      /\ hand' = hand \/ \E x : hand' = [hand EXCEPT ![p] = x]
  BY Zenon DEF Get, RequestStep, FlightStep, ReadL2, L2Miss, Backfill, Schedule, Drop, RecheckL1,
               RecheckL2, Refill, StartJob, Discard, Join, Produce, StoreL2, StoreL1, Unlock,
               Goto, Return, Takes
<1> QED
  BY <1>0, <1>1, <1>2

(* The write of a producer's result.                                       *)
LEMMA StoreFacts ==
    ASSUME Inv, NEW p \in Procs, StoreL2(p)
    PROVE  /\ pc[p] = "storeL2" /\ key[p] \in Keys /\ hand[p] \in Stamped
           /\ \A k \in Keys : k # key[p] => l2'[k] = l2[k]
           /\ \/ l2'[key[p]] = l2[key[p]]
              \/ l2'[key[p]].value.version = hand[p].value.version
<1>0. /\ l2 \in [Keys -> Stamped \cup {Nil}] /\ pc[p] = "storeL2"
      /\ key[p] \in Keys /\ hand[p] \in Stamped
  BY DEF Inv, Tiers, Threads, StoreL2, Carrying
<1> DEFINE env == [hand[p] EXCEPT !.created = now, !.value.born = now]
<1>1. env.value.version = hand[p].value.version
  BY <1>0 DEF Stamped, Envelope, Payload
<1> HIDE DEF env
<1>2. l2' = [l2 EXCEPT ![key[p]] = env] \/ UNCHANGED l2
  BY DEF StoreL2, env
<1> QED
  BY <1>0, <1>1, <1>2

LEMMA ThreadNotOvertaken ==
    ASSUME Inv, NEW p \in Procs,
           \/ \E k \in Keys : Get(p, k)
           \/ RequestStep(p) \/ StartJob(p) \/ Discard(p) \/ Join(p) \/ FlightStep(p)
    PROVE  NotOvertaken'
<1>0. /\ Tiers /\ Threads /\ Held /\ NotOvertaken /\ db \in Nat
      /\ \A q \in Procs : q # p => pc'[q] = pc[q] /\ key'[q] = key[q] /\ hand'[q] = hand[q]
      /\ db' = db
  BY OthersAlone DEF Inv, Tiers, Versions
<1>1. \A k \in Keys : l2'[k] # Nil => l2'[k].value.version <= db
  <2>1. CASE StoreL2(p)
    BY <1>0, <2>1, StoreFacts DEF NotOvertaken, Carrying
  <2>2. CASE ~StoreL2(p)
    BY <1>0, <2>2, OnlyStoresWrite DEF NotOvertaken
  <2> QED
    BY <2>1, <2>2
<1>2. \A q \in Procs : pc'[q] \in Carrying => hand'[q].value.version <= db
  <2>1. pc'[p] \in Carrying => hand'[p].value.version <= db
    BY <1>0, ComesToCarry DEF NotOvertaken
  <2> QED
    BY <1>0, <2>1 DEF NotOvertaken
<1>3. ASSUME NEW q \in Procs, pc'[q] = "storeL2", l2'[key'[q]] # Nil
      PROVE  l2'[key'[q]].value.version <= hand'[q].value.version
  <2>1. CASE q = p
    <3>1. hand'[p].value.version = db /\ Produce(p) /\ key' = key
      BY <1>3, <2>1, ComesToCarry DEF Carrying
    <3>2. key[p] \in Keys /\ l2' = l2
      BY <1>0, <3>1 DEF Produce, Threads
    <3> QED
      BY <1>0, <1>3, <2>1, <3>1, <3>2 DEF NotOvertaken
  <2>2. CASE q # p
    <3>1. /\ pc[q] = "storeL2" /\ key'[q] = key[q] /\ hand'[q] = hand[q] /\ key[q] \in Keys
      BY <1>0, <1>3, <2>2 DEF Threads
    <3>2. l2'[key[q]] = l2[key[q]] \/ l2'[key[q]] = Nil
      <4>1. CASE StoreL2(p)
        <5>1. pc[p] \in InFlight /\ pc[q] \in InFlight
          BY <3>1, <4>1, StoreFacts DEF InFlight
        <5>2. key[p] # key[q]
          BY <1>0, <2>2, <5>1, Exclusion
        <5> QED
          BY <3>1, <4>1, <5>2, StoreFacts
      <4>2. CASE ~StoreL2(p)
        BY <3>1, <4>2, OnlyStoresWrite
      <4> QED
        BY <4>1, <4>2
    <3> QED
      BY <1>0, <1>3, <3>1, <3>2 DEF NotOvertaken
  <2> QED
    BY <2>1, <2>2
<1> QED
  BY <1>0, <1>1, <1>2, <1>3 DEF NotOvertaken

(***************************************************************************)
(* The age of what is served                                               *)
(***************************************************************************)

(* An envelope or entry before the end of its window is young enough.      *)
LEMMA YoungEnough ==
    ASSUME now \in Times, NEW k \in Keys, NEW env, env.created \in Times, env.created = env.value.born,
           \/ now < Expires(env)
           \/ k \in StaleKeys /\ now < StaleUntil(k, env)
    PROVE  now - env.value.born < Ttl + (IF k \in StaleKeys THEN StaleWindow ELSE 0)
BY DEF Expires, StaleUntil, Times

LEMMA ThreadAge ==
    ASSUME Inv, NEW p \in Procs,
           \/ \E k \in Keys : Get(p, k)
           \/ RequestStep(p) \/ StartJob(p) \/ Discard(p) \/ Join(p) \/ FlightStep(p)
    PROVE  AgeCeiling'
<1>0. Tiers /\ Threads /\ now \in Times /\ l2 \in [Keys -> Stamped \cup {Nil}] /\ Nil \notin Keys
  BY DEF Inv, Tiers
<1>1. ASSUME NEW k \in Keys, NEW allow_stale \in BOOLEAN, allow_stale => k \in StaleKeys,
             L1Outcome(k, allow_stale) # "miss"
      PROVE  now - EntryOf(l1, k).value.born < Ttl + (IF k \in StaleKeys THEN StaleWindow ELSE 0)
  <2> DEFINE e == EntryOf(l1, k)
  <2>1. /\ e \in Entry /\ e.key = k
        /\ now < e.expires \/ (allow_stale /\ now < e.stale)
    BY <1>0, <1>1, HitFacts
  <2> HIDE DEF e
  <2>2. /\ e.created \in Times /\ e.created = e.value.born
        /\ now < Expires(e) \/ (k \in StaleKeys /\ now < StaleUntil(k, e))
    BY <1>1, <2>1 DEF Entry
  <2>3. now - e.value.born < Ttl + (IF k \in StaleKeys THEN StaleWindow ELSE 0)
    BY <1>0, <2>2, YoungEnough
  <2> QED
    BY <2>3 DEF e
<1>2. ASSUME NEW k \in Keys, FreshInL2(k) \/ StaleInL2(k)
      PROVE  now - l2[k].value.born < Ttl + (IF k \in StaleKeys THEN StaleWindow ELSE 0)
  <2>1. l2[k] \in Stamped
    BY <1>0, <1>2 DEF FreshInL2, StaleInL2
  <2>2. l2[k].created \in Times /\ l2[k].created = l2[k].value.born
    BY <2>1 DEF Stamped, Envelope
  <2> QED
    BY <1>0, <1>2, <2>2, YoungEnough DEF FreshInL2, StaleInL2
<1>3. CASE ServeNothing
  BY <1>3 DEF ServeNothing, NoneServed, AgeCeiling
<1>4. ASSUME NEW k \in Keys, Get(p, k), ~ServeNothing PROVE AgeCeiling'
  <2> DEFINE allow_stale == k \in StaleKeys
  <2>1. /\ L1Outcome(k, allow_stale) # "miss"
        /\ served' = [key |-> k, age |-> now - EntryOf(l1, k).value.born,
                      value |-> EntryOf(l1, k).value.version, seen |-> settled]
        /\ allow_stale \in BOOLEAN /\ (allow_stale => k \in StaleKeys)
    BY <1>4 DEF Get
  <2> HIDE DEF allow_stale
  <2>2. now - EntryOf(l1, k).value.born < Ttl + (IF k \in StaleKeys THEN StaleWindow ELSE 0)
    BY <1>1, <2>1
  <2> QED
    BY <2>1, <2>2 DEF AgeCeiling
<1>5. CASE RecheckL1(p) /\ ~ServeNothing
  <2>1. /\ L1Outcome(key[p], FALSE) # "miss" /\ key[p] \in Keys
        /\ served'.key = key[p] /\ served'.age = now - EntryOf(l1, key[p]).value.born
    <3>1. pc[p] = "recheckL1" /\ L1Outcome(key[p], FALSE) = "fresh" /\ Serve(p, key[p], L1Envelope(key[p]))
      BY <1>5 DEF RecheckL1
    <3>2. key[p] \in Keys
      BY <1>0, <3>1 DEF Threads
    <3> QED
      BY <3>1, <3>2 DEF Serve, L1Envelope
  <2>2. now - EntryOf(l1, key[p]).value.born
          < Ttl + (IF key[p] \in StaleKeys THEN StaleWindow ELSE 0)
    BY <1>1, <2>1
  <2> QED
    BY <2>1, <2>2 DEF AgeCeiling
<1>6. CASE (ReadL2(p) \/ RecheckL2(p)) /\ ~ServeNothing
  <2>1. /\ FreshInL2(key[p]) \/ StaleInL2(key[p])
        /\ key[p] \in Keys
        /\ served'.key = key[p] /\ served'.age = now - l2[key[p]].value.born
    <3>1. CASE ReadL2(p)
      BY <1>0, <1>6, <3>1 DEF ReadL2, L2Miss, Threads, Serve
    <3>2. CASE RecheckL2(p)
      BY <1>0, <1>6, <3>2 DEF RecheckL2, L2Miss, Threads, Serve
    <3> QED
      BY <1>6, <3>1, <3>2
  <2>2. now - l2[key[p]].value.born
          < Ttl + (IF key[p] \in StaleKeys THEN StaleWindow ELSE 0)
    BY <1>2, <2>1
  <2> QED
    BY <2>1, <2>2 DEF AgeCeiling
<1> QED
  BY <1>3, <1>4, <1>5, <1>6
     DEF RequestStep, FlightStep, Backfill, Schedule, Drop, Refill, StartJob, Discard, Join,
         Produce, StoreL2, StoreL1, Unlock

(***************************************************************************)
(* Invalidation that nothing disturbs                                      *)
(***************************************************************************)

(* Threads keep clean what is clean: they store what they read.            *)
LEMMA ThreadClean ==
    ASSUME Inv, NEW p \in Procs, Clean,
           \/ \E k \in Keys : Get(p, k)
           \/ RequestStep(p) \/ StartJob(p) \/ Discard(p) \/ Join(p) \/ FlightStep(p)
    PROVE  Clean'
<1>0. /\ Tiers /\ Threads /\ l1 \in Seq(Current)
      /\ \A q \in Procs : q # p => pc'[q] = pc[q] /\ key'[q] = key[q] /\ hand'[q] = hand[q]
      /\ db' = db
  BY OthersAlone DEF Inv, Clean
<1>1. Current' = Current
  BY <1>0 DEF Current
<1>2. l1' \in Seq(Current)
  <2>1. ASSUME NEW k \in Keys, Get(p, k) PROVE l1' \in Seq(Current)
    <3> DEFINE allow_stale == k \in StaleKeys
    <3>1. L1Get(k, allow_stale) /\ allow_stale \in BOOLEAN
      BY <2>1 DEF Get
    <3> HIDE DEF allow_stale
    <3> QED
      BY <1>0, <3>1, LookupFacts
  <2>2. CASE RecheckL1(p)
    <3>1. L1Get(key[p], FALSE) /\ key[p] \in Keys
      BY <1>0, <2>2 DEF RecheckL1, Threads
    <3> QED
      BY <1>0, <3>1, LookupFacts
  <2>3. CASE Backfill(p) \/ Refill(p) \/ StoreL1(p)
    <3>1. WriteL1(key[p], hand[p]) /\ pc[p] \in Carrying /\ pc[p] # "idle"
      BY <2>3 DEF Backfill, Refill, StoreL1, Carrying
    <3>2. key[p] \in Keys /\ hand[p] \in Stamped /\ hand[p].value.version = db
      BY <1>0, <3>1 DEF Threads, Clean
    <3> QED
      BY <1>0, <3>1, <3>2, WriteFacts
  <2>4. ReadL2(p) \/ Schedule(p) \/ Drop(p) \/ RecheckL2(p) \/ StartJob(p) \/ Discard(p) \/ Join(p)
          \/ Produce(p) \/ StoreL2(p) \/ Unlock(p)
          => l1' = l1
    BY DEF ReadL2, Schedule, Drop, RecheckL2, StartJob, Discard, Join, Produce, StoreL2, Unlock
  <2> QED
    BY <1>0, <2>1, <2>2, <2>3, <2>4 DEF RequestStep, FlightStep
<1>3. \A k \in Keys : l2'[k] # Nil => l2'[k].value.version = db
  <2>1. CASE StoreL2(p)
    BY <2>1, StoreFacts DEF Clean, Carrying
  <2>2. CASE ~StoreL2(p)
    BY <2>2, OnlyStoresWrite DEF Clean
  <2> QED
    BY <2>1, <2>2
<1>4. \A q \in Procs : pc'[q] \in Carrying => hand'[q].value.version = db
  <2>1. pc'[p] \in Carrying => hand'[p].value.version = db
    BY ComesToCarry DEF Clean
  <2> QED
    BY <1>0, <2>1 DEF Clean
<1> QED
  BY <1>0, <1>1, <1>2, <1>3, <1>4 DEF Clean

(* A thread that moves while an invalidation is pending was at work before *)
(* it or disturbs it.                                                      *)
LEMMA ThreadUndisturbed ==
    ASSUME Inv, NEW p \in Procs,
           \/ \E k \in Keys : Get(p, k)
           \/ RequestStep(p) \/ StartJob(p) \/ Discard(p) \/ Join(p) \/ FlightStep(p)
    PROVE  Undisturbed'
<1> SUFFICES ASSUME quiet' PROVE Clean'
  BY DEF Undisturbed
<1>1. quiet /\ ~Pending
  <2>1. CASE \E k \in Keys : Get(p, k)
    BY <2>1 DEF Get, Pending
  <2>2. CASE StartJob(p)
    BY <2>2 DEF StartJob, Pending, Busy
  <2>3. CASE RequestStep(p)
    BY <2>3 DEF RequestStep, ReadL2, Backfill, Schedule, Drop, RecheckL1, RecheckL2, Refill,
                Pending, Busy
  <2>4. CASE Discard(p) \/ Join(p) \/ FlightStep(p)
    BY <2>4 DEF FlightStep, Discard, Join, Produce, StoreL2, StoreL1, Unlock, Pending, Busy
  <2> QED
    BY <2>1, <2>2, <2>3, <2>4
<1>2. Clean
  BY <1>1 DEF Inv, Undisturbed
<1> QED
  BY <1>2, ThreadClean

(* While nothing but L2 loses entries, clean stays clean and pending stays *)
(* pending.                                                                *)
LEMMA LosesEntries ==
    ASSUME Inv, UNCHANGED <<db, queue, pc, hand>>,
           l1' = l1 \/ l1' = AfterDelete(l1, pattern),
           \A k \in Keys : l2'[k] = l2[k] \/ l2'[k] = Nil
    PROVE  /\ Clean => Clean'
           /\ Busy' = Busy /\ Current' = Current
           /\ l1 \in Seq(Current) => l1' \in Seq(Current)
<1>1. Current' = Current
  BY DEF Current
<1>2. ASSUME l1 \in Seq(Current) PROVE l1' \in Seq(Current)
  <2>1. l1 \in Seq(Current) /\ KeysDistinct(l1)
    BY <1>2 DEF Inv, Tiers
  <2>2. AfterDelete(l1, pattern) \in Seq(Current)
    BY <2>1, DeleteKeeps
  <2> QED
    BY <2>1, <2>2
<1>3. Busy' = Busy
  BY DEF Busy
<1> QED
  BY <1>1, <1>2, <1>3 DEF Clean

(* The entries of the new version are what InvalidateL1 leaves when its    *)
(* pattern matches every key.                                              *)
LEMMA DeleteAll ==
    ASSUME Inv, pattern = Keys
    PROVE  AfterDelete(l1, pattern) \in Seq(Current)
<1> DEFINE rest == AfterDelete(l1, pattern)
<1>1. l1 \in Seq(Entry) /\ KeysDistinct(l1)
  BY DEF Inv, Tiers
<1>2. rest \in Seq(Entry) /\ \A n \in DOMAIN rest : rest[n].key \notin pattern
  BY <1>1, DeleteKeeps
<1> HIDE DEF rest
<1>3. \A n \in DOMAIN rest : rest[n].key \in Keys
  BY <1>2 DEF Entry
<1>4. rest \in Seq(Current)
  BY <1>2, <1>3
<1> QED
  BY <1>4 DEF rest

LEMMA WriterUndisturbed ==
    ASSUME Inv, Commit \/ (\E S \in SUBSET Keys : InvalidateEntity(S)) \/ Invalidation \/ Tick
    PROVE  Undisturbed'
<1>0. /\ Tiers /\ Threads /\ Undisturbed
      /\ UNCHANGED <<queue, pc, key, hand>>
  BY DEF Inv, Commit, InvalidateEntity, Invalidation, InvalidateL1, Scan, ScanFails,
         InvalidateL2, InvalidateDone, Tick, threads
<1> SUFFICES ASSUME quiet' PROVE Clean' \/ Pending'
  BY DEF Undisturbed
<1>1. CASE Commit
  BY <1>0, <1>1 DEF Commit, Pending, Busy
<1>2. CASE ~Commit
  <2>1. /\ quiet
        /\ UNCHANGED <<db, queue, pc, hand>>
        /\ l1' = l1 \/ l1' = AfterDelete(l1, pattern)
    BY <1>0, <1>2 DEF InvalidateEntity, Invalidation, InvalidateL1, Scan, ScanFails,
         InvalidateL2, InvalidateDone, Tick
  <2>2. \A k \in Keys : l2'[k] = l2[k] \/ l2'[k] = Nil
    BY <1>0, <1>2 DEF InvalidateEntity, Invalidation, InvalidateL1, Scan, ScanFails,
         InvalidateL2, InvalidateDone, Tick, Tiers
  <2>3. /\ Clean => Clean'
        /\ Busy' = Busy /\ Current' = Current
        /\ l1 \in Seq(Current) => l1' \in Seq(Current)
    BY <2>1, <2>2, LosesEntries
  <2>4. CASE Pending
    <3>1. wpc # "idle" /\ ~(\E S \in SUBSET Keys : InvalidateEntity(S)) /\ ~ScanFails
      BY <2>4 DEF Pending, InvalidateEntity, ScanFails
    <3>2. CASE InvalidateL1
      <4>1. l1' \in Seq(Current)
        BY <2>4, <3>2, DeleteAll DEF Pending, InvalidateL1
      <4> QED
        BY <2>3, <2>4, <3>2, <4>1 DEF Pending, InvalidateL1
    <3>3. CASE Scan
      BY <2>1, <2>3, <2>4, <3>3 DEF Pending, Scan
    <3>4. CASE \E k \in Keys : InvalidateL2(k)
      BY <1>0, <2>1, <2>3, <2>4, <3>4 DEF Pending, InvalidateL2, Tiers
    <3>5. CASE InvalidateDone
      <4>1. \A p \in Procs : pc[p] \notin Carrying
        BY <2>4 DEF Pending, Busy, Carrying
      <4> QED
        BY <1>0, <2>1, <2>3, <2>4, <3>5, <4>1 DEF Pending, InvalidateDone, Clean
    <3>6. CASE Tick
      BY <2>1, <2>2, <2>3, <2>4, <3>6 DEF Pending, Tick
    <3> QED
      BY <1>2, <3>1, <3>2, <3>3, <3>4, <3>5, <3>6 DEF Invalidation
  <2> QED
    BY <1>0, <2>1, <2>3, <2>4 DEF Undisturbed
<1> QED
  BY <1>1, <1>2

(***************************************************************************)
(* The invariant                                                           *)
(***************************************************************************)

LEMMA CacheInit == Init => Inv
<1> SUFFICES ASSUME Init PROVE Inv
  OBVIOUS
<1>1. Tiers /\ Threads /\ Held
  BY MaxEntriesAssumption DEF Init, Flight!Init, Tiers, Threads, Held, KeysDistinct, Times, Versions,
     PC, InFlight, Carrying
<1>2. Refreshes
  BY DEF Init, Refreshes, Queued, Procs
<1>3. NotOvertaken /\ AgeCeiling
  BY DEF Init, NotOvertaken, AgeCeiling, NoneServed, Carrying
<1>4. Clean
  BY DEF Init, Clean, Carrying
<1> QED
  BY <1>1, <1>2, <1>3, <1>4 DEF Inv, Undisturbed

LEMMA ThreadInv ==
    ASSUME Inv, NEW p \in Procs,
           \/ p \in Requests /\ ((\E k \in Keys : Get(p, k)) \/ RequestStep(p))
           \/ p \in Workers /\ (StartJob(p) \/ Discard(p))
           \/ Join(p) \/ FlightStep(p)
    PROVE  Inv'
<1>1. Tiers' /\ Threads' /\ Held'
  BY ThreadTiers, ThreadThreads, ThreadHeld
<1>2. NotOvertaken' /\ AgeCeiling' /\ Undisturbed'
  BY ThreadNotOvertaken, ThreadAge, ThreadUndisturbed
<1>3. Refreshes'
  BY RequestKeepsJobs, WorkerKeepsJobs DEF Procs
<1> QED
  BY <1>1, <1>2, <1>3 DEF Inv

LEMMA WriterInv ==
    ASSUME Inv, Commit \/ (\E S \in SUBSET Keys : InvalidateEntity(S)) \/ Invalidation \/ Tick
    PROVE  Inv'
<1>0. /\ Tiers /\ Threads /\ Held /\ Refreshes /\ NotOvertaken /\ db \in Nat
      /\ UNCHANGED <<owner, active, queue, pc, key, hand>>
      /\ ServeNothing
  BY DEF Inv, Commit, InvalidateEntity, Invalidation, InvalidateL1, Scan, ScanFails,
         InvalidateL2, InvalidateDone, Tick, threads, Tiers, Versions
<1>1. Held'
  BY <1>0 DEF Held
<1>2. Refreshes'
  BY <1>0, SameJobs
<1>3. AgeCeiling'
  BY <1>0 DEF ServeNothing, NoneServed, AgeCeiling
<1>4. NotOvertaken'
  <2>1. \A k \in Keys : l2'[k] = l2[k] \/ l2'[k] = Nil
    BY <1>0 DEF Commit, InvalidateEntity, Invalidation, InvalidateL1, Scan, ScanFails,
         InvalidateL2, InvalidateDone, Tick, Tiers
  <2>2. db' \in Nat /\ db <= db'
    BY <1>0 DEF Commit, InvalidateEntity, Invalidation, InvalidateL1, Scan, ScanFails,
         InvalidateL2, InvalidateDone, Tick
  <2>3. \A k \in Keys : l2[k] # Nil => l2[k].value.version \in Nat
    BY <1>0 DEF Tiers, Stamped, Envelope, Payload, Versions
  <2>4. \A p \in Procs : pc[p] \in Carrying => hand[p].value.version \in Nat
    BY <1>0 DEF Threads, Stamped, Envelope, Payload, Versions
  <2>5. \A k \in Keys : l2'[k] # Nil => l2'[k].value.version <= db'
    BY <1>0, <2>1, <2>2, <2>3 DEF NotOvertaken
  <2>6. \A p \in Procs : pc'[p] \in Carrying => hand'[p].value.version <= db'
    BY <1>0, <2>2, <2>4 DEF NotOvertaken
  <2>7. \A p \in Procs : pc[p] = "storeL2" => key[p] \in Keys
    BY <1>0 DEF Threads
  <2>8. \A p \in Procs : pc'[p] = "storeL2" /\ l2'[key'[p]] # Nil
          => l2'[key'[p]].value.version <= hand'[p].value.version
    BY <1>0, <2>1, <2>7 DEF NotOvertaken
  <2> QED
    BY <2>5, <2>6, <2>8 DEF NotOvertaken
<1> QED
  BY <1>1, <1>2, <1>3, <1>4, WriterTiers, WriterThreads, WriterUndisturbed DEF Inv

LEMMA CacheNext == Inv /\ [Next]_vars => Inv'
<1> SUFFICES ASSUME Inv, [Next]_vars PROVE Inv'
  OBVIOUS
<1>1. CASE UNCHANGED vars
  BY <1>1 DEF vars, Inv, Tiers, Threads, Held, Refreshes, Queued, NotOvertaken, AgeCeiling,
              Undisturbed, Clean, Pending, Busy, Current
<1>2. ASSUME NEW p \in Procs,
           \/ p \in Requests /\ ((\E k \in Keys : Get(p, k)) \/ RequestStep(p))
           \/ p \in Workers /\ (StartJob(p) \/ Discard(p))
           \/ Join(p) \/ FlightStep(p)
      PROVE  Inv'
  BY <1>2, ThreadInv
<1>3. CASE Commit \/ (\E S \in SUBSET Keys \ {{}} : InvalidateEntity(S)) \/ Invalidation \/ Tick
  BY <1>3, WriterInv
<1> QED
  BY <1>1, <1>2, <1>3 DEF Next, Procs

LEMMA CacheInvariance == Spec => []Inv
BY CacheInit, CacheNext, PTL DEF Spec

(***************************************************************************)
(* What follows from it                                                    *)
(***************************************************************************)

(* The tiers, the flights and the threads keep their types; L1 never grows *)
(* beyond max_entries.                                                     *)
THEOREM CacheTypeCorrect == Spec => []TypeOK
<1>1. ASSUME Inv PROVE TypeOK
  <2>1. /\ now \in Times /\ db \in Versions /\ Len(l1) <= MaxEntries
        /\ \A i, j \in DOMAIN l1 : l1[i].key = l1[j].key => i = j
        /\ \A i \in DOMAIN l1 : l1[i].key \in Keys /\ l1[i].value \in Payload
    BY <1>1 DEF Inv, Tiers, KeysDistinct, Entry
  <2>2. l2 \in [Keys -> Envelope \cup {Nil}] /\ hand \in [Procs -> Envelope \cup {Nil}]
    BY <1>1 DEF Inv, Tiers, Threads, Stamped
  <2>3. Flight!TypeOK
    BY <1>1 DEF Inv, Held, Flight!TypeOK
  <2>4. active \subseteq StaleKeys /\ \A i \in DOMAIN queue : queue[i] \in active
    BY <1>1 DEF Inv, Refreshes
  <2>5. \A p \in Procs : (pc[p] \in InFlight) <=> (\E k \in Keys : owner[k] = p /\ key[p] = k)
    <3> SUFFICES ASSUME NEW p \in Procs
                 PROVE  (pc[p] \in InFlight) <=> (\E k \in Keys : owner[k] = p /\ key[p] = k)
      OBVIOUS
    <3>1. ASSUME pc[p] \in InFlight PROVE key[p] \in Keys /\ owner[key[p]] = p
      BY <1>1, <3>1 DEF Inv, Threads, Held, InFlight
    <3>2. ASSUME NEW k \in Keys, owner[k] = p PROVE pc[p] \in InFlight
      BY <1>1, <3>2 DEF Inv, Held
    <3> QED
      BY <3>1, <3>2
  <2> QED
    BY <1>1, <2>1, <2>2, <2>3, <2>4, <2>5 DEF TypeOK, Inv, Threads
<1> QED
  BY <1>1, CacheInvariance, PTL

(* However many requests find a key stale at once, and whenever, it has    *)
(* one background refresh, and none is forgotten.                          *)
THEOREM OneRefresh == Spec => []OneRefreshPerKey
<1>1. ASSUME Inv PROVE OneRefreshPerKey
  <2> SUFFICES ASSUME NEW k \in Keys
               PROVE  LET queued == {i \in DOMAIN queue : queue[i] = k}
                          running == {w \in Workers : key[w] = k}
                      IN  Cardinality(queued) + Cardinality(running)
                            = IF k \in active THEN 1 ELSE 0
    BY DEF OneRefreshPerKey
  <2> DEFINE queued == {i \in DOMAIN queue : queue[i] = k}
             running == {w \in Workers : key[w] = k}
  <2>0. Refreshes /\ k # Nil
    BY <1>1 DEF Inv
  <2>1. CASE k \notin active
    <3>1. queued = {} /\ running = {}
      BY <2>0, <2>1 DEF Refreshes
    <3> HIDE DEF queued, running
    <3>2. Cardinality(queued) = 0 /\ Cardinality(running) = 0
      BY <3>1, FS_EmptySet
    <3> QED
      BY <2>1, <3>2 DEF queued, running
  <2>2. CASE k \in active /\ Queued(k)
    <3>1. PICK i \in DOMAIN queue : queue[i] = k
      BY <2>2 DEF Queued
    <3>2. queued = {i} /\ running = {}
      BY <2>0, <2>2, <3>1 DEF Refreshes
    <3> HIDE DEF queued, running
    <3>3. Cardinality(queued) = 1 /\ Cardinality(running) = 0
      BY <3>2, FS_EmptySet, FS_Singleton
    <3> QED
      BY <2>2, <3>3 DEF queued, running
  <2>3. CASE k \in active /\ ~Queued(k)
    <3>1. PICK w \in Workers : key[w] = k
      BY <2>0, <2>3 DEF Refreshes
    <3>2. queued = {} /\ running = {w}
      BY <2>0, <2>3, <3>1 DEF Refreshes, Queued
    <3> HIDE DEF queued, running
    <3>3. Cardinality(queued) = 0 /\ Cardinality(running) = 1
      BY <3>2, FS_EmptySet, FS_Singleton
    <3> QED
      BY <2>3, <3>3 DEF queued, running
  <2> QED
    BY <2>1, <2>2, <2>3
<1> QED
  BY <1>1, CacheInvariance, PTL

(* The cache is sound for any keys, requests, workers and sizes, whatever  *)
(* Redis commands fail.                                                    *)
THEOREM CacheIsSound == Spec => []CacheSound
<1>1. TypeOK /\ OneRefreshPerKey => CacheSound
  BY DEF CacheSound
<1> QED
  BY <1>1, CacheTypeCorrect, OneRefresh, PTL

(* No request is handed a cached value older than its ttl and, where stale *)
(* values are allowed, the stale window, through whichever tiers it came.  *)
THEOREM NothingTooOld == Spec => []AgeCeiling
<1>1. Inv => AgeCeiling
  BY DEF Inv
<1> QED
  BY <1>1, CacheInvariance, PTL

(* An envelope in L2 is never replaced by one of an older version: the     *)
(* flight of a key is not left before its result is written.               *)
THEOREM NoRegress == Spec => L2NeverRegresses
<1>1. ASSUME Inv, [Next]_vars, NEW k \in Keys, l2[k] # Nil, l2'[k] # Nil
      PROVE  l2'[k].value.version >= l2[k].value.version
  <2>0. l2[k].value.version \in Nat
    BY <1>1 DEF Inv, Tiers, Stamped, Envelope, Payload, Versions
  <2>1. ASSUME NEW p \in Procs, StoreL2(p) PROVE l2'[k].value.version >= l2[k].value.version
    <3>1. CASE k # key[p] \/ l2'[k] = l2[k]
      BY <1>1, <2>0, <2>1, <3>1, StoreFacts
    <3>2. CASE k = key[p] /\ l2'[k] # l2[k]
      <4>1. pc[p] = "storeL2" /\ l2'[k].value.version = hand[p].value.version /\ hand[p] \in Stamped
        BY <1>1, <2>1, <3>2, StoreFacts
      <4>2. hand[p].value.version \in Nat
        BY <4>1 DEF Stamped, Envelope, Payload, Versions
      <4> QED
        BY <1>1, <2>0, <3>2, <4>1, <4>2 DEF Inv, NotOvertaken
    <3> QED
      BY <3>1, <3>2
  <2>2. CASE l2'[k] = l2[k] \/ l2'[k] = Nil
    BY <1>1, <2>0, <2>2
  <2>3. ASSUME NEW p \in Procs, ~StoreL2(p),
           \/ \E j \in Keys : Get(p, j)
           \/ RequestStep(p) \/ StartJob(p) \/ Discard(p) \/ Join(p) \/ FlightStep(p)
        PROVE  l2'[k] = l2[k] \/ l2'[k] = Nil
    BY <1>1, <2>3, OnlyStoresWrite
  <2>4. CASE Commit \/ (\E S \in SUBSET Keys : InvalidateEntity(S)) \/ Invalidation \/ Tick
    <3>1. l2'[k] = l2[k] \/ l2'[k] = Nil
      BY <1>1, <2>4 DEF Commit, InvalidateEntity, Invalidation, InvalidateL1, Scan, ScanFails,
         InvalidateL2, InvalidateDone, Tick, Inv, Tiers
    <3> QED
      BY <2>2, <3>1
  <2>5. CASE UNCHANGED vars
    BY <2>2, <2>5 DEF vars
  <2> QED
    BY <1>1, <2>1, <2>2, <2>3, <2>4, <2>5 DEF Next, Procs
<1>2. Inv /\ [Next]_vars
        => [\A k \in Keys : l2[k] # Nil /\ l2'[k] # Nil
              => l2'[k].value.version >= l2[k].value.version]_vars
  BY <1>1
<1> QED
  BY <1>2, CacheInvariance, PTL DEF Spec, L2NeverRegresses

(* An invalidation that no request, refresh or failure interferes with     *)
(* leaves nothing older than the commit in either tier.                    *)
THEOREM QuietIsComplete == Spec => []QuietInvalidationComplete
<1>1. Inv => QuietInvalidationComplete
  <2> SUFFICES ASSUME Inv, wpc = "idle", quiet
               PROVE  /\ \A i \in DOMAIN l1 : l1[i].value.version = db
                      /\ \A k \in Keys : l2[k] # Nil => l2[k].value.version = db
    BY DEF QuietInvalidationComplete
  <2>1. Clean
    BY DEF Inv, Undisturbed, Pending
  <2>2. \A i \in DOMAIN l1 : l1[i] \in Current
    BY <2>1 DEF Clean
  <2> QED
    BY <2>1, <2>2 DEF Clean, Current
<1> QED
  BY <1>1, CacheInvariance, PTL
=============================================================================
