---------------------------- MODULE TieredCache -----------------------------
(***************************************************************************)
(* TieredCacheManager of app/api/core/cache.py: get_or_set, the background *)
(* refresh of stale keys (SWR), and invalidation after a database commit,  *)
(* over the L1 store of this process, a shared Redis (L2) and the database *)
(* the producers read.                                                     *)
(*                                                                         *)
(* One action is one access to shared state: an L1 method (under its lock),*)
(* a Redis command, the producer's read of the database, the entry to or   *)
(* exit from a flight.  Between two of them a thread holds nothing but its *)
(* local variables, so everything it read may be out of date.              *)
(*                                                                         *)
(* The per-key flight is KeyedMutex, which SingleFlight implements.        *)
(***************************************************************************)
EXTENDS L1Store, FiniteSets

CONSTANTS
    Keys,           \* cache keys of one domain
    StaleKeys,      \* those whose policy says allow_stale
    Requests,       \* request threads
    Workers,        \* threads of the SWR pool
    NoProc,
    Nil,            \* nothing cached, nothing in hand
    Ttl,            \* ttl of an entry
    L1Ttl,          \* effective_l1_ttl
    StaleWindow,    \* stale_max_seconds
    MaxTime,        \* bound on the clock
    MaxVersion,     \* bound on database commits
    L2MayFail       \* whether a Redis command may fail or be short-circuited

Procs == Requests \cup Workers

ASSUME StaleKeysAssumption == StaleKeys \subseteq Keys
ASSUME ProcsAssumption ==
    /\ Requests \cap Workers = {}
    /\ NoProc \notin Procs
    /\ Nil \notin Keys
ASSUME TimesAssumption ==
    /\ Ttl \in Nat \ {0} /\ L1Ttl \in 1..Ttl /\ StaleWindow \in Nat
    /\ MaxTime \in Nat /\ MaxVersion \in Nat
ASSUME FailAssumption == L2MayFail \in BOOLEAN

VARIABLES
    now,        \* the clock
    db,         \* version of the data the producers read
    l1,         \* self.l1
    l2,         \* the envelope Redis holds for each key
    owner,      \* the thread inside the flight of each key
    active,     \* self._active_swr_keys
    queue,      \* jobs submitted to self._swr_executor and not yet started
    pc,         \* where each thread is
    key,        \* the key it works on
    hand,       \* the envelope or value it has read and not yet stored
    wpc,        \* the thread that commits and then invalidates
    pattern,    \* the keys its delete_pattern still has to remove
    served,     \* history: the last cached value handed to a request
    seen,       \* history: version whose invalidation was over when each
                \* request began
    settled,    \* history: last version whose invalidation is over
    quiet       \* history: no thread was busy since the last commit while its
                \* invalidation ran, and no command of it failed

local == <<pc, key, hand>>
history == <<served, seen, settled, quiet>>
vars == <<now, db, l1, l2, owner, active, queue, pc, key, hand, wpc, pattern,
          served, seen, settled, quiet>>

Flight == INSTANCE KeyedMutex

Versions == 0..MaxVersion
Times == 0..MaxTime

\* A payload is the version the producer read; `born' is history, the time it
\* was produced, which travels with the payload whatever the timestamps say.
Payload == [version : Versions, born : Times]
Envelope == [value : Payload, created : Times]
InFlight == {"recheckL1", "recheckL2", "redrop", "refill", "produce", "storeL2",
             "storeL1", "unlock"}
PC == InFlight \cup {"idle", "readL2", "drop", "backfill", "backfillStale",
                     "schedule", "join", "discard"}

Expires(env) == env.created + Ttl
StaleUntil(k, env) == Expires(env) + (IF k \in StaleKeys THEN StaleWindow ELSE 0)

NoneServed == [key |-> Nil, age |-> 0, value |-> 0, seen |-> 0]

\* Types of the two tiers, the requests and the refresh jobs; L1 is never overfull.
TypeOK ==
    /\ now \in Times /\ db \in Versions
    /\ Len(l1) <= MaxEntries
    /\ \A i, j \in DOMAIN l1 : l1[i].key = l1[j].key => i = j
    /\ \A i \in DOMAIN l1 : l1[i].key \in Keys /\ l1[i].value \in Payload
    /\ l2 \in [Keys -> Envelope \cup {Nil}]
    /\ Flight!TypeOK
    /\ active \subseteq StaleKeys
    /\ \A i \in DOMAIN queue : queue[i] \in active
    /\ pc \in [Procs -> PC]
    /\ key \in [Procs -> Keys \cup {Nil}]
    /\ hand \in [Procs -> Envelope \cup {Nil}]
    /\ wpc \in {"idle", "l1", "scan", "l2"}
    /\ pattern \subseteq Keys
    /\ \A p \in Procs : (pc[p] = "idle") <=> (key[p] = Nil)
    /\ \A p \in Procs : (pc[p] \in InFlight) <=> (\E k \in Keys : owner[k] = p /\ key[p] = k)

Init ==
    /\ now = 0 /\ db = 0
    /\ l1 = <<>>
    /\ l2 = [k \in Keys |-> Nil]
    /\ Flight!Init
    /\ active = {} /\ queue = <<>>
    /\ pc = [p \in Procs |-> "idle"]
    /\ key = [p \in Procs |-> Nil]
    /\ hand = [p \in Procs |-> Nil]
    /\ wpc = "idle" /\ pattern = {}
    /\ served = NoneServed
    /\ seen = [p \in Requests |-> 0]
    /\ settled = 0
    /\ quiet = TRUE

(***************************************************************************)
(* Thread-local steps                                                      *)
(***************************************************************************)
Goto(p, to) == pc' = [pc EXCEPT ![p] = to]
Return(p) ==
    /\ Goto(p, "idle")
    /\ key' = [key EXCEPT ![p] = Nil]
    /\ hand' = [hand EXCEPT ![p] = Nil]

Takes(p, env) == UNCHANGED key /\ hand' = [hand EXCEPT ![p] = env]

\* A value from the cache becomes the answer of request p.
Serve(p, k, env) ==
    served' = [key |-> k, age |-> now - env.value.born, value |-> env.value.version, seen |-> seen[p]]
ServeNothing == served' = NoneServed

L1Outcome(k, allow_stale) == Outcome(l1, k, allow_stale, now, now)
L1Get(k, allow_stale) == l1' = AfterGet(l1, k, allow_stale, now, now)
L1Envelope(k) == [value |-> EntryOf(l1, k).value, created |-> EntryOf(l1, k).created]

\* Mutant of WriteL1: the backfill stamps the entry with the time of the
\* backfill instead of the envelope's own.
WriteL1Restamped(k, env) ==
    l1' = AfterSet(l1, L1Entry(k, env.value, now, now + Ttl,
                               now + StaleUntil(k, env) - env.created, now + L1Ttl))

\* _write_l1: the envelope's own timestamps, never the time of the write.
WriteL1(k, env) ==
    l1' = AfterSet(l1, L1Entry(k, env.value, env.created, Expires(env),
                               StaleUntil(k, env), now + L1Ttl))

(***************************************************************************)
(* get_or_set, before the flight                                           *)
(***************************************************************************)
shared == <<now, db, owner, active, queue, wpc, pattern, settled>>

\* A request arrives and looks in L1.
Get(p, k) ==
    LET outcome == L1Outcome(k, k \in StaleKeys)
    IN  /\ pc[p] = "idle"
        /\ L1Get(k, k \in StaleKeys)
        /\ quiet' = (quiet /\ wpc = "idle")
        /\ seen' = [seen EXCEPT ![p] = settled]
        /\ UNCHANGED <<now, db, l2, owner, active, queue, wpc, pattern, settled, hand>>
        /\ IF outcome = "miss"
             THEN ServeNothing
             ELSE served' = [key |-> k, age |-> now - EntryOf(l1, k).value.born,
                             value |-> EntryOf(l1, k).value.version, seen |-> settled]
        /\ IF outcome = "fresh"
             THEN UNCHANGED <<pc, key>>
             ELSE /\ Goto(p, IF outcome = "stale" THEN "schedule" ELSE "readL2")
                  /\ key' = [key EXCEPT ![p] = k]

\* A Redis GET that finds no usable envelope: nothing there, past its window,
\* short-circuited by the breaker, timed out, or not decodable (and then
\* deleted, in a command of its own).
L2Miss(p, k, usable, next, drop) ==
    /\ \/ ~usable /\ Goto(p, next)
       \/ L2MayFail /\ Goto(p, next)
       \/ L2MayFail /\ l2[k] # Nil /\ Goto(p, drop)
    /\ ServeNothing
    /\ UNCHANGED <<key, hand>>

\* An envelope is usable while fresh, or within its stale window if allowed.
FreshInL2(k) == l2[k] # Nil /\ now < Expires(l2[k])
StaleInL2(k) ==
    k \in StaleKeys /\ l2[k] # Nil /\ ~FreshInL2(k) /\ now < StaleUntil(k, l2[k])

ReadL2(p) ==
    LET k == key[p]
    IN  /\ pc[p] = "readL2"
        /\ \/ /\ FreshInL2(k)
              /\ Serve(p, k, l2[k]) /\ Takes(p, l2[k]) /\ Goto(p, "backfill")
           \/ /\ StaleInL2(k)
              /\ Serve(p, k, l2[k]) /\ Takes(p, l2[k]) /\ Goto(p, "backfillStale")
           \/ L2Miss(p, k, FreshInL2(k) \/ StaleInL2(k), "join", "drop")
        /\ UNCHANGED shared
        /\ UNCHANGED <<l1, l2, seen, quiet>>

\* Copy into L1 what was read from L2, whatever has happened to L2 since.
Backfill(p) ==
    /\ pc[p] \in {"backfill", "backfillStale"}
    /\ WriteL1(key[p], hand[p])
    /\ IF pc[p] = "backfill"
         THEN Return(p)
         ELSE Goto(p, "schedule") /\ UNCHANGED <<key, hand>>
    /\ ServeNothing
    /\ UNCHANGED shared
    /\ UNCHANGED <<l2, seen, quiet>>

\* _schedule_swr_refresh: one job per key, remembered until the job is over.
Schedule(p) ==
    /\ pc[p] = "schedule"
    /\ active' = active \cup {key[p]}
    /\ queue' = IF key[p] \in active THEN queue ELSE Append(queue, key[p])
    /\ Return(p)
    /\ ServeNothing
    /\ UNCHANGED <<now, db, l1, l2, owner, wpc, pattern, settled, seen, quiet>>

\* The L2 delete of an envelope that did not decode.
Drop(p) ==
    /\ pc[p] \in {"drop", "redrop"}
    /\ \/ l2' = [l2 EXCEPT ![key[p]] = Nil]
       \/ L2MayFail /\ UNCHANGED l2
    /\ Goto(p, IF pc[p] = "drop" THEN "join" ELSE "produce")
    /\ ServeNothing
    /\ UNCHANGED shared
    /\ UNCHANGED <<l1, key, hand, seen, quiet>>

(***************************************************************************)
(* The refresh worker starts a job: straight to the flight.                *)
(***************************************************************************)

\* Mutant of StartJob: the key is forgotten when its job starts, not when it
\* is over.
StartJobForgets(w) ==
    /\ pc[w] = "idle"
    /\ queue # <<>>
    /\ key' = [key EXCEPT ![w] = Head(queue)]
    /\ queue' = Tail(queue)
    /\ active' = active \ {Head(queue)}
    /\ Goto(w, "join")
    /\ ServeNothing
    /\ UNCHANGED <<now, db, l1, l2, owner, wpc, pattern, settled, hand, seen, quiet>>

StartJob(w) ==
    /\ pc[w] = "idle"
    /\ queue # <<>>
    /\ key' = [key EXCEPT ![w] = Head(queue)]
    /\ queue' = Tail(queue)
    /\ Goto(w, "join")
    /\ ServeNothing
    /\ UNCHANGED <<now, db, l1, l2, owner, active, wpc, pattern, settled, hand, seen, quiet>>

(***************************************************************************)
(* Inside the flight                                                       *)
(***************************************************************************)

\* lock.acquire().  A request checks again what happened while it waited; the
\* refresh worker does not.
Join(p) ==
    /\ pc[p] = "join"
    /\ Flight!Acquire(p, key[p])
    /\ Goto(p, IF p \in Requests THEN "recheckL1" ELSE "produce")
    /\ ServeNothing
    /\ UNCHANGED <<now, db, active, queue, wpc, pattern, settled>>
    /\ UNCHANGED <<l1, l2, key, hand, seen, quiet>>

\* The re-check asks for a fresh entry only, and so deletes a stale one.
RecheckL1(p) ==
    LET k == key[p]
    IN  /\ pc[p] = "recheckL1"
        /\ L1Get(k, FALSE)
        /\ IF L1Outcome(k, FALSE) = "fresh"
             THEN Serve(p, k, L1Envelope(k)) /\ Goto(p, "unlock")
             ELSE ServeNothing /\ Goto(p, "recheckL2")
        /\ UNCHANGED shared
        /\ UNCHANGED <<l2, key, hand, seen, quiet>>

RecheckL2(p) ==
    LET k == key[p]
    IN  /\ pc[p] = "recheckL2"
        /\ \/ /\ FreshInL2(k)
              /\ Serve(p, k, l2[k]) /\ Takes(p, l2[k]) /\ Goto(p, "refill")
           \/ L2Miss(p, k, FreshInL2(k), "produce", "redrop")
        /\ UNCHANGED shared
        /\ UNCHANGED <<l1, l2, seen, quiet>>

Refill(p) ==
    /\ pc[p] = "refill"
    /\ WriteL1(key[p], hand[p])
    /\ Goto(p, "unlock")
    /\ ServeNothing
    /\ UNCHANGED shared
    /\ UNCHANGED <<l2, key, hand, seen, quiet>>

\* The producer reads the database; it may also raise.
Produce(p) ==
    /\ pc[p] = "produce"
    /\ \/ Takes(p, [value |-> [version |-> db, born |-> now], created |-> now]) /\ Goto(p, "storeL2")
       \/ UNCHANGED <<key, hand>> /\ Goto(p, "unlock")
    /\ ServeNothing
    /\ UNCHANGED shared
    /\ UNCHANGED <<l1, l2, seen, quiet>>

\* The envelope is stamped when the producer has returned, then written to
\* Redis.  A failed write is only logged; a value that does not serialise
\* goes to neither tier.
StoreL2(p) ==
    LET env == [hand[p] EXCEPT !.created = now, !.value.born = now]
    IN  /\ pc[p] = "storeL2"
        /\ \/ /\ l2' = [l2 EXCEPT ![key[p]] = env]
              /\ Takes(p, env) /\ Goto(p, "storeL1")
           \/ /\ L2MayFail
              /\ UNCHANGED l2
              /\ Takes(p, env) /\ Goto(p, "storeL1")
           \/ /\ UNCHANGED <<l2, key, hand>>
              /\ Goto(p, "unlock")
        /\ ServeNothing
        /\ UNCHANGED shared
        /\ UNCHANGED <<l1, seen, quiet>>

StoreL1(p) ==
    /\ pc[p] = "storeL1"
    /\ WriteL1(key[p], hand[p])
    /\ Goto(p, "unlock")
    /\ ServeNothing
    /\ UNCHANGED shared
    /\ UNCHANGED <<l2, key, hand, seen, quiet>>

\* finally: lock.release(); release_flight(key)
Unlock(p) ==
    /\ pc[p] = "unlock"
    /\ Flight!Release(p, key[p])
    /\ IF p \in Requests
         THEN Return(p)
         ELSE Goto(p, "discard") /\ UNCHANGED <<key, hand>>
    /\ ServeNothing
    /\ UNCHANGED <<now, db, active, queue, wpc, pattern, settled>>
    /\ UNCHANGED <<l1, l2, seen, quiet>>

\* Mutant of Discard: the key is discarded only after a successful refresh.
DiscardOnSuccess(w) ==
    /\ pc[w] = "discard"
    /\ active' = IF hand[w] # Nil THEN active \ {key[w]} ELSE active
    /\ Return(w)
    /\ ServeNothing
    /\ UNCHANGED <<now, db, l1, l2, owner, queue, wpc, pattern, settled, seen, quiet>>

\* The job's own finally: only now may the key be scheduled again.
Discard(w) ==
    /\ pc[w] = "discard"
    /\ active' = active \ {key[w]}
    /\ Return(w)
    /\ ServeNothing
    /\ UNCHANGED <<now, db, l1, l2, owner, queue, wpc, pattern, settled, seen, quiet>>

(***************************************************************************)
(* Commits, and the invalidation that follows them (delete_pattern)         *)
(***************************************************************************)
threads == <<owner, active, queue, pc, key, hand, seen>>

Busy == queue # <<>> \/ \E p \in Procs : pc[p] # "idle"

\* A router commits a new version and calls invalidate_dataset or _model.
Commit ==
    /\ wpc = "idle"
    /\ db < MaxVersion
    /\ db' = db + 1
    /\ pattern' = Keys
    /\ wpc' = "l1"
    /\ quiet' = ~Busy
    /\ ServeNothing
    /\ UNCHANGED threads
    /\ UNCHANGED <<now, l1, l2, settled>>

\* A refresh endpoint calls invalidate_entity without a commit.
InvalidateEntity(S) ==
    /\ wpc = "idle"
    /\ pattern' = S
    /\ wpc' = "l1"
    /\ ServeNothing
    /\ UNCHANGED threads
    /\ UNCHANGED <<now, db, l1, l2, settled, quiet>>

InvalidateL1 ==
    /\ wpc = "l1"
    /\ l1' = AfterDelete(l1, pattern)
    /\ wpc' = "scan"
    /\ ServeNothing
    /\ UNCHANGED threads
    /\ UNCHANGED <<now, db, l2, pattern, settled, quiet>>

\* SCAN is sure to return the keys that exist when it starts.
Scan ==
    /\ wpc = "scan"
    /\ pattern' = {k \in pattern : l2[k] # Nil}
    /\ wpc' = "l2"
    /\ ServeNothing
    /\ UNCHANGED threads
    /\ UNCHANGED <<now, db, l1, l2, settled, quiet>>

\* The scan is refused by the breaker, or breaks off after some keys.
ScanFails ==
    /\ L2MayFail
    /\ wpc \in {"scan", "l2"}
    /\ pattern' = {}
    /\ wpc' = "l2"
    /\ quiet' = FALSE
    /\ ServeNothing
    /\ UNCHANGED threads
    /\ UNCHANGED <<now, db, l1, l2, settled>>

\* Mutant of InvalidateL2: the scanned key is counted but not deleted.
InvalidateL2Counts(k) ==
    /\ wpc = "l2" /\ k \in pattern
    /\ pattern' = pattern \ {k}
    /\ ServeNothing
    /\ UNCHANGED threads
    /\ UNCHANGED <<now, db, l1, l2, wpc, settled, quiet>>

InvalidateL2(k) ==
    /\ wpc = "l2" /\ k \in pattern
    /\ pattern' = pattern \ {k}
    /\ \/ l2' = [l2 EXCEPT ![k] = Nil] /\ UNCHANGED quiet
       \/ L2MayFail /\ UNCHANGED l2 /\ quiet' = FALSE
    /\ ServeNothing
    /\ UNCHANGED threads
    /\ UNCHANGED <<now, db, l1, wpc, settled>>

InvalidateDone ==
    /\ wpc = "l2" /\ pattern = {}
    /\ wpc' = "idle"
    /\ settled' = db
    /\ ServeNothing
    /\ UNCHANGED threads
    /\ UNCHANGED <<now, db, l1, l2, pattern, quiet>>

\* Time passes, and Redis drops what has outlived its EX.
Tick ==
    /\ now < MaxTime
    /\ now' = now + 1
    /\ l2' = [k \in Keys |->
                IF l2[k] # Nil /\ now + 1 < StaleUntil(k, l2[k]) THEN l2[k] ELSE Nil]
    /\ ServeNothing
    /\ UNCHANGED threads
    /\ UNCHANGED <<db, l1, wpc, pattern, settled, quiet>>

RequestStep(p) ==
    \/ ReadL2(p) \/ Backfill(p) \/ Schedule(p) \/ Drop(p)
    \/ RecheckL1(p) \/ RecheckL2(p) \/ Refill(p)

FlightStep(p) == Produce(p) \/ StoreL2(p) \/ StoreL1(p) \/ Unlock(p)

Invalidation ==
    \/ InvalidateL1 \/ Scan \/ ScanFails
    \/ \E k \in Keys : InvalidateL2(k)
    \/ InvalidateDone

Next ==
    \/ \E p \in Requests : (\E k \in Keys : Get(p, k)) \/ RequestStep(p)
    \/ \E w \in Workers : StartJob(w) \/ Discard(w)
    \/ \E p \in Procs : Join(p) \/ FlightStep(p)
    \/ Commit
    \/ \E S \in SUBSET Keys \ {{}} : InvalidateEntity(S)
    \/ Invalidation
    \/ Tick

Spec == Init /\ [][Next]_vars

\* Threads run; Redis commands end because of their socket timeouts; producers
\* return or raise.  A thread blocked on a lock that is free again and again
\* obtains it in the end (strong fairness): the scheduler starves nobody.
Fairness ==
    /\ \A p \in Procs : WF_vars(RequestStep(p) \/ FlightStep(p) \/ StartJob(p) \/ Discard(p))
    /\ \A p \in Procs : SF_vars(Join(p))
    /\ WF_vars(Invalidation)

FairSpec == Spec /\ Fairness

(***************************************************************************)
(* Properties                                                              *)
(***************************************************************************)

(* The hard ceiling: no request is handed a cached value older than its    *)
(* ttl, plus the stale window for the keys whose policy allows stale       *)
(* values, counted from the time the value was produced, whichever tiers   *)
(* the value has been copied through since and however late.               *)
AgeCeiling ==
    served.key # Nil =>
        served.age < Ttl + (IF served.key \in StaleKeys THEN StaleWindow ELSE 0)

(* Every refresh of a stale key is one job: a key is marked active exactly *)
(* while one job for it is queued or running, so that stale readers neither*)
(* pile up refreshes nor find a key for which no refresh ever comes.       *)
OneRefreshPerKey ==
    \A k \in Keys :
        LET queued == {i \in DOMAIN queue : queue[i] = k}
            running == {w \in Workers : key[w] = k}
        IN  Cardinality(queued) + Cardinality(running) = IF k \in active THEN 1 ELSE 0

(* The cache is sound: L1, L2 and the requests keep their types, and a key *)
(* has at most one background refresh, although several requests find it   *)
(* stale at once.                                                          *)
CacheSound == TypeOK /\ OneRefreshPerKey

(* Writers of one process do not overtake each other: the producer runs    *)
(* inside the flight and its result is written before the flight is left,  *)
(* so an envelope in L2 is never replaced by one of an older version.      *)
L2NeverRegresses ==
    [][\A k \in Keys :
          l2[k] # Nil /\ l2'[k] # Nil => l2'[k].value.version >= l2[k].value.version]_vars

(* Invalidation is complete when nothing interferes: if no request or      *)
(* refresh was in progress from the commit to the end of its invalidation  *)
(* and no Redis command of it failed, neither tier holds an older version. *)
QuietInvalidationComplete ==
    wpc = "idle" /\ quiet =>
        /\ \A i \in DOMAIN l1 : l1[i].value.version = db
        /\ \A k \in Keys : l2[k] # Nil => l2[k].value.version = db

(* A request is always answered, with Redis up, down or failing half way.  *)
RequestsAnswered == \A p \in Requests : pc[p] # "idle" ~> pc[p] = "idle"

(* A key being refreshed does not stay marked: also when the producer      *)
(* raises, it can be scheduled again.                                      *)
RefreshesEnd == \A k \in Keys : k \in active ~> k \notin active

(* Nobody waits for ever: every request is answered, from a layer or from  *)
(* its producer or by an error, and every background refresh ends and      *)
(* frees its key.                                                          *)
CacheAnswers == RequestsAnswered /\ RefreshesEnd

(* What DATA_HUB.md says of the invalidation after an approval:            *)
(* "subsequent API dashboard queries ... immediately reflect the new       *)
(* dataset without serving stale entries" (docs/DATA_HUB.md:63).           *)
FreshAfterInvalidation == served.key # Nil => served.value >= served.seen
=============================================================================
