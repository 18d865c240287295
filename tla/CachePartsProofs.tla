-------------------------- MODULE CachePartsProofs --------------------------
(***************************************************************************)
(* Safety of the parts of the cache: the circuit breaker, the health and   *)
(* construction of the Redis client, and the table of flights.             *)
(***************************************************************************)
EXTENDS CircuitBreaker, SingleFlight, CacheHealth, FiniteSetTheorems, TLAPS

(***************************************************************************)
(* Safety of the circuit breaker for every set of callers, threshold and   *)
(* cooldown.                                                               *)
(*                                                                         *)
(* None of the properties is inductive: they follow from what the state    *)
(* says of the past.  A disabled circuit has nobody in flight, a circuit   *)
(* that is closed or half open has seen a success or a whole cooldown since*)
(* its last trip, and while it is open its age measures that cooldown.     *)
(***************************************************************************)

DisabledIsQuiet == state = "DISABLED" => \A c \in Callers : call[c] = "idle"

CooledDown == state \in {"CLOSED", "HALF_OPEN"} => sinceTrip = COOLDOWN

AgeSinceTrip == state = "OPEN" => age <= sinceTrip

BreakerInv ==
    /\ BreakerTypeOK
    /\ ClosedBelowThreshold
    /\ DisabledIsQuiet
    /\ CooledDown
    /\ AgeSinceTrip

USE ThresholdAssumption, CooldownAssumption, MaxFailuresAssumption

(* The breaker starts in a state that satisfies the invariant.             *)
LEMMA BreakerInitInv == BreakerInit => BreakerInv
BY DEF BreakerInit, BreakerInv, BreakerTypeOK, ClosedBelowThreshold, DisabledIsQuiet, CooledDown,
       AgeSinceTrip, CircuitState, CallState

(* Admitting or starting a call keeps the invariant.                       *)
LEMMA AdmitInv ==
    ASSUME BreakerInv, NEW c \in Callers, CanAttempt(c) \/ Ping(c)
    PROVE  BreakerInv'
<1> USE DEF BreakerInv, BreakerTypeOK, ClosedBelowThreshold, DisabledIsQuiet, CooledDown,
            AgeSinceTrip, CircuitState, CallState, Admit
<1>1. CASE AttemptClosed(c)
  BY <1>1 DEF AttemptClosed
<1>2. CASE AttemptAfterCooldown(c)
  BY <1>2 DEF AttemptAfterCooldown
<1>3. CASE AttemptHalfOpen(c)
  BY <1>3 DEF AttemptHalfOpen
<1>4. CASE Ping(c)
  BY <1>4 DEF Ping
<1> QED
  BY <1>1, <1>2, <1>3, <1>4 DEF CanAttempt

(* The outcome of a call keeps the invariant, however late it arrives.     *)
LEMMA FinishInv ==
    ASSUME BreakerInv, NEW c \in Callers, Finish(c)
    PROVE  BreakerInv'
<1> USE DEF BreakerInv, BreakerTypeOK, ClosedBelowThreshold, DisabledIsQuiet, CooledDown,
            AgeSinceTrip, CircuitState, CallState, Return
<1>1. CASE RecordSuccess(c)
  BY <1>1 DEF RecordSuccess
<1>2. CASE RecordFailure(c)
  <2>1. CASE Trips
    BY <1>2, <2>1 DEF RecordFailure
  <2>2. CASE ~Trips
    BY <1>2, <2>2 DEF RecordFailure, Trips
  <2> QED
    BY <2>1, <2>2
<1>3. CASE Abandon(c)
  BY <1>3 DEF Abandon
<1> QED
  BY <1>1, <1>2, <1>3 DEF Finish

(* Every step of the breaker keeps the invariant.                          *)
LEMMA BreakerNextInv == BreakerInv /\ [BreakerNext]_breakerVars => BreakerInv'
<1> SUFFICES ASSUME BreakerInv, [BreakerNext]_breakerVars PROVE BreakerInv'
  OBVIOUS
<1>1. CASE BreakerTick
  BY <1>1 DEF BreakerTick, Saturate, BreakerInv, BreakerTypeOK, ClosedBelowThreshold, DisabledIsQuiet,
              CooledDown, AgeSinceTrip
<1>2. ASSUME NEW c \in Callers, CanAttempt(c) \/ Ping(c) PROVE BreakerInv'
  BY <1>2, AdmitInv
<1>3. ASSUME NEW c \in Callers, Finish(c) PROVE BreakerInv'
  BY <1>3, FinishInv
<1>4. CASE UNCHANGED breakerVars
  BY <1>4 DEF breakerVars, BreakerInv, BreakerTypeOK, ClosedBelowThreshold, DisabledIsQuiet, CooledDown,
              AgeSinceTrip
<1> QED
  BY <1>1, <1>2, <1>3, <1>4 DEF BreakerNext, Finish, Refuse

(* The invariant holds throughout every execution.                         *)
THEOREM BreakerInvariance == BreakerSpec => []BreakerInv
BY BreakerInitInv, BreakerNextInv, PTL DEF BreakerSpec

(* The values of the breaker stay in their ranges, whatever the order in   *)
(* which calls are admitted and their outcomes recorded.                   *)
THEOREM BreakerTypeCorrect == BreakerSpec => []BreakerTypeOK
<1>1. BreakerInv => BreakerTypeOK
  BY DEF BreakerInv
<1> QED
  BY <1>1, BreakerInvariance, PTL

(* No count of late failures survives into a closed circuit.               *)
THEOREM ClosedIsHealthy == BreakerSpec => []ClosedBelowThreshold
<1>1. BreakerInv => ClosedBelowThreshold
  BY DEF BreakerInv
<1> QED
  BY <1>1, BreakerInvariance, PTL

(* The breaker is sound in every reachable state, for any callers,         *)
(* threshold and cooldown: record_success leaves no count behind.          *)
THEOREM BreakerIsSound == BreakerSpec => []BreakerSound
<1>1. BreakerTypeOK /\ ClosedBelowThreshold => BreakerSound
  BY DEF BreakerSound
<1>2. QED
  BY <1>1, BreakerTypeCorrect, ClosedIsHealthy, PTL

(* After a trip no ordinary call starts before a whole cooldown has passed *)
(* or a success has been recorded.                                         *)
THEOREM FastFail == BreakerSpec => CooldownHonoured
<1>1. ASSUME BreakerInv, [BreakerNext]_breakerVars, NEW c \in Callers,
             call[c] = "idle", call'[c] \in {"call", "probe"}
      PROVE  sinceTrip >= COOLDOWN
  <2> USE DEF BreakerInv, BreakerTypeOK, CooledDown, AgeSinceTrip, CallState
  <2>1. CASE \E d \in Callers : CanAttempt(d)
    BY <1>1, <2>1 DEF CanAttempt, AttemptClosed, AttemptAfterCooldown, AttemptHalfOpen, Admit
  <2>2. CASE \E d \in Callers : Ping(d) \/ Finish(d)
    BY <1>1, <2>2 DEF Ping, Finish, RecordSuccess, RecordFailure, Abandon, Return, Admit
  <2>3. CASE UNCHANGED call
    BY <1>1, <2>3
  <2> QED
    BY <1>1, <2>1, <2>2, <2>3 DEF BreakerNext, Finish, Refuse, BreakerTick, breakerVars
<1>2. BreakerInv /\ [BreakerNext]_breakerVars
        => [\A c \in Callers : call[c] = "idle" /\ call'[c] \in {"call", "probe"}
                                  => sinceTrip >= COOLDOWN]_breakerVars
  BY <1>1
<1> QED
  BY <1>2, BreakerInvariance, PTL DEF BreakerSpec, CooldownHonoured

(* An unconfigured Redis is never contacted: the circuit stays disabled.   *)
THEOREM DisabledStays == BreakerSpec => DisabledForGood
<1>1. ASSUME BreakerInv, [BreakerNext]_breakerVars, state = "DISABLED" PROVE state' = "DISABLED"
  <2>1. ASSUME NEW c \in Callers, Finish(c) PROVE FALSE
    BY <1>1, <2>1 DEF BreakerInv, DisabledIsQuiet, Finish, RecordSuccess, RecordFailure,
                      Abandon, Return
  <2> QED
    BY <1>1, <2>1 DEF BreakerNext, CanAttempt, AttemptClosed, AttemptAfterCooldown,
                      AttemptHalfOpen, Ping, Refuse, Finish, BreakerTick, breakerVars
<1>2. BreakerInv /\ [BreakerNext]_breakerVars => [state = "DISABLED" => state' = "DISABLED"]_breakerVars
  BY <1>1
<1> QED
  BY <1>2, BreakerInvariance, PTL DEF BreakerSpec, DisabledForGood

(* No step of the breaker shortens a cooldown or enables a disabled one,   *)
(* whatever outcomes the callers report late.                              *)
THEOREM Patient == BreakerSpec => BreakerPatient
BY FastFail, DisabledStays DEF BreakerPatient


-----------------------------------------------------------------------------
(***************************************************************************)
(* Types and the single construction of the Redis client, for any number of *)
(* threads and any deployment.                                              *)
(***************************************************************************)

(* The client is there exactly when a pool has been built, and then one:    *)
(* the second look at _client under _init_lock.                             *)
BuiltOnce == builds = IF client THEN 1 ELSE 0

HealthInv == HealthTypeOK /\ BuiltOnce

USE NoThreadAssumption, DeploymentAssumption

LEMMA HealthInitInv == HealthInit => HealthInv
<1> SUFFICES ASSUME HealthInit PROVE HealthInv
  OBVIOUS
<1>1. HealthTypeOK
  BY DEF HealthInit, HealthTypeOK, PC
<1>2. ~client /\ builds = 0
  BY Zenon DEF HealthInit
<1> QED
  BY <1>1, <1>2 DEF HealthInv, BuiltOnce

(* Steps that only move a thread outside the construction of the client.    *)
LEMMA MoveThreadInv ==
    ASSUME HealthInv, UNCHANGED deployed, NEW t \in Threads,
           \/ Request(t) \/ AskHealth(t) \/ Attempt(t) \/ GetClient(t)
           \/ CountL1(t) \/ CountL2(t) \/ ReportCommand(t)
    PROVE  HealthInv'
<1> USE DEF HealthInv, HealthTypeOK, BuiltOnce, PC, HealthGoto, Count
<1>1. CASE Request(t) \/ AskHealth(t)
  BY <1>1 DEF Request, AskHealth
<1>2. CASE Attempt(t)
  BY <1>2 DEF Attempt
<1>3. CASE GetClient(t)
  BY <1>3 DEF GetClient
<1>4. CASE CountL1(t) \/ CountL2(t) \/ ReportCommand(t)
  BY <1>4 DEF CountL1, CountL2, ReportCommand
<1> QED
  BY <1>1, <1>2, <1>3, <1>4

(* Taking and releasing the metrics lock for the health check.              *)
LEMMA CheckHealthInv ==
    ASSUME HealthInv, UNCHANGED deployed, NEW t \in Threads, CheckHealth(t) \/ Command(t)
    PROVE  HealthInv'
<1> USE DEF HealthInv, HealthTypeOK, BuiltOnce, PC, HealthGoto
<1>1. CASE CheckHealth(t)
  BY <1>1 DEF CheckHealth
<1>2. CASE Command(t)
  BY <1>2 DEF Command, AfterCommand
<1> QED
  BY <1>1, <1>2

(* The construction of the client, from taking the lock to releasing it.    *)
LEMMA BuildInv ==
    ASSUME HealthInv, UNCHANGED deployed, NEW t \in Threads,
           InitLock(t) \/ Build(t) \/ ReportBuild(t)
    PROVE  HealthInv'
<1> USE DEF HealthInv, HealthTypeOK, BuiltOnce, PC, HealthGoto, Count
<1>1. CASE InitLock(t)
  BY <1>1 DEF InitLock
<1>2. CASE Build(t)
  <2>1. CASE client \/ deployed.parses
    <3>1. /\ client' = TRUE /\ builds' = builds + (IF client THEN 0 ELSE 1)
          /\ init' = NoThread /\ doing' = [doing EXCEPT ![t] = "command"]
          /\ doing[t] = "build" /\ UNCHANGED metrics
      BY <1>2, <2>1 DEF Build
    <3>2. client' /\ client' \in BOOLEAN
      BY <3>1, Zenon
    <3>3. builds' = 1
      BY <3>1
    <3>4. HealthTypeOK'
      BY <3>1, <3>2, <3>3
    <3> QED
      BY <3>2, <3>3, <3>4
  <2>2. CASE ~(client \/ deployed.parses)
    BY <1>2, <2>2 DEF Build
  <2> QED
    BY <2>1, <2>2
<1>3. CASE ReportBuild(t)
  BY <1>3 DEF ReportBuild
<1> QED
  BY <1>1, <1>2, <1>3

LEMMA HealthNextInv == HealthInv /\ [HealthNext]_healthVars => HealthInv'
<1> SUFFICES ASSUME HealthInv, [HealthNext]_healthVars PROVE HealthInv'
  OBVIOUS
<1>1. CASE UNCHANGED healthVars
  BY <1>1 DEF healthVars, HealthInv, HealthTypeOK, BuiltOnce
<1>2. CASE HealthNext
  <2> PICK t \in Threads :
        /\ Request(t) \/ AskHealth(t) \/ CheckHealth(t) \/ InitLock(t) \/ Advance(t) \/ Counting(t)
        /\ UNCHANGED deployed
    BY <1>2 DEF HealthNext
  <2> QED
    BY MoveThreadInv, CheckHealthInv, BuildInv DEF Advance, Counting
<1> QED
  BY <1>1, <1>2

(* Every reachable state is well typed, and the thread that holds the       *)
(* client lock is the one building the client or reporting its failure.     *)
THEOREM HealthTypeCorrect == HealthSpec => []HealthTypeOK
BY HealthInitInv, HealthNextInv, PTL DEF HealthSpec, HealthInv

(* Threads that race to build the client build one pool.                    *)
THEOREM PoolBuiltOnce == HealthSpec => []OnePool
<1>1. HealthInv => OnePool
  BY DEF HealthInv, BuiltOnce, OnePool
<1> QED
  BY HealthInitInv, HealthNextInv, <1>1, PTL DEF HealthSpec

(* The lazy construction of the client is sound, for any number of first   *)
(* users.                                                                  *)
THEOREM HealthIsSound == HealthSpec => []HealthSound
<1>1. HealthTypeOK /\ OnePool => HealthSound
  BY DEF HealthSound
<1>2. QED
  BY <1>1, HealthTypeCorrect, PoolBuiltOnce, PTL


-----------------------------------------------------------------------------
(***************************************************************************)
(* The reference-counted table of locks gives mutual exclusion per key,    *)
(* for any set of keys and any finite set of threads, and implements one   *)
(* mutex per key.                                                          *)
(*                                                                         *)
(* The argument: the count of an entry is the number of threads inside the *)
(* protocol for its key, so an entry is never deleted under a participant; *)
(* hence all participants of a key have the lock object the table has, and *)
(* whoever produces holds it.                                              *)
(***************************************************************************)

(* Inside the protocol a thread has a key and a lock, outside neither.     *)
LocalsOK ==
    \A p \in Procs :
        /\ pc[p] = "idle" => key[p] = NoKey /\ lock[p] = NoLock
        /\ pc[p] # "idle" => key[p] \in Keys /\ lock[p] \in Locks

(* The entry of a key in use is there and has the lock its users have.     *)
EntriesKept ==
    \A p \in Procs :
        pc[p] # "idle" => key[p] \in Present /\ table[key[p]].lock = lock[p]

(* No lock object serves two entries.                                      *)
EntriesDistinct ==
    \A j, k \in Present : table[j].lock = table[k].lock => j = k

(* A producer holds the lock it acquired.                                  *)
ProducersHold == \A p \in Procs : pc[p] = "producing" => holder[lock[p]] = p

FlightInv ==
    /\ FlightTypeOK
    /\ LocalsOK
    /\ EntriesKept
    /\ EntriesDistinct
    /\ RefsCountParticipants
    /\ ProducersHold

USE ProcsAssumption, NoLockAssumption, NoKeyAssumption

(* The participants of a key are finitely many, so counting them makes     *)
(* sense.                                                                  *)
LEMMA ParticipantsFinite ==
    ASSUME NEW k \in Keys
    PROVE  /\ IsFiniteSet(Participants(k))
           /\ Cardinality(Participants(k)) \in Nat
           /\ Participants(k) = {} <=> Cardinality(Participants(k)) = 0
BY FS_Subset, FS_CardinalityType, FS_EmptySet DEF Participants

(* The table starts empty and everybody outside the protocol.              *)
LEMMA FlightInitInv == FlightInit => FlightInv
BY FS_EmptySet DEF FlightInit, FlightInv, FlightTypeOK, LocalsOK, EntriesKept, EntriesDistinct,
                   RefsCountParticipants, ProducersHold, Participants, Present, Entry

(* What writing an entry does to the table.                                *)
LEMMA WithEntryFacts ==
    ASSUME FlightTypeOK, NEW k \in Keys, NEW e \in Entry
    PROVE  /\ WithEntry(k, e) \in [DOMAIN table \cup {k} -> Entry]
           /\ WithEntry(k, e)[k] = e
           /\ \A j \in DOMAIN table : j # k => WithEntry(k, e)[j] = table[j]
<1>1. \A j \in DOMAIN table : table[j] \in Entry
  BY DEF FlightTypeOK
<1> QED
  BY <1>1 DEF WithEntry, Present

(* What deleting an entry does to the table.                               *)
LEMMA WithoutEntryFacts ==
    ASSUME FlightTypeOK, NEW k \in Keys
    PROVE  /\ WithoutEntry(k) \in [DOMAIN table \ {k} -> Entry]
           /\ \A j \in DOMAIN table \ {k} : WithoutEntry(k)[j] = table[j]
<1>1. \A j \in DOMAIN table : table[j] \in Entry
  BY DEF FlightTypeOK
<1> QED
  BY <1>1 DEF WithoutEntry, Present

(* The counts stay right if they do for the one key a step is about.       *)
LEMMA Recount ==
    ASSUME RefsCountParticipants, NEW k \in Keys,
           \A j \in Keys : j # k => Participants(j)' = Participants(j),
           \A j \in Keys : j # k => (j \in DOMAIN table' <=> j \in DOMAIN table),
           \A j \in DOMAIN table : j # k => table'[j] = table[j],
           k \in DOMAIN table' <=> Participants(k)' # {},
           k \in DOMAIN table' => table'[k].refs = Cardinality(Participants(k)')
    PROVE  RefsCountParticipants'
<1>1. ASSUME NEW j \in Keys
      PROVE  /\ j \in DOMAIN table' <=> Participants(j)' # {}
             /\ j \in DOMAIN table' => table'[j].refs = Cardinality(Participants(j)')
  <2>1. CASE j = k
    BY <2>1
  <2>2. CASE j # k
    <3>1. Participants(j)' = Participants(j)
      BY <2>2
    <3> QED
      BY <2>2, <3>1 DEF RefsCountParticipants, Present
  <2> QED
    BY <2>1, <2>2
<1> QED
  BY <1>1 DEF RefsCountParticipants, Present

(* A thread that joins adds itself, and nobody else, to its key's threads. *)
LEMMA JoinParticipants ==
    ASSUME FlightInv, NEW p \in Procs, NEW k \in Keys, NEW l \in Locks, pc[p] = "idle", Join(p, k, l)
    PROVE  /\ p \notin Participants(k)
           /\ Participants(k)' = Participants(k) \cup {p}
           /\ \A j \in Keys : j # k => Participants(j)' = Participants(j)
BY DEF FlightInv, FlightTypeOK, LocalsOK, Participants, Join

(* Joining an existing entry keeps the invariant.                          *)
LEMMA JoinInv ==
    ASSUME FlightInv, NEW p \in Procs, NEW k \in Keys, JoinFlight(p, k)
    PROVE  FlightInv'
<1> DEFINE l == table[k].lock
<1> USE DEF FlightInv, Present
<1>0. /\ pc[p] = "idle" /\ k \in DOMAIN table /\ l \in Locks /\ Join(p, k, l)
      /\ table' = WithEntry(k, [table[k] EXCEPT !.refs = @ + 1])
      /\ table[k] \in Entry
  BY DEF JoinFlight, FlightTypeOK, Entry
<1>b. /\ [table[k] EXCEPT !.refs = @ + 1] = [lock |-> l, refs |-> table[k].refs + 1]
      /\ [table[k] EXCEPT !.refs = @ + 1] \in Entry
  BY <1>0 DEF Entry
<1>1. /\ DOMAIN table' = DOMAIN table
      /\ table'[k] = [lock |-> l, refs |-> table[k].refs + 1]
      /\ \A j \in DOMAIN table : j # k => table'[j] = table[j]
      /\ table' \in [DOMAIN table -> Entry]
  <2> DEFINE e == [table[k] EXCEPT !.refs = @ + 1]
  <2>1. DOMAIN table \cup {k} = DOMAIN table
    BY <1>0
  <2>2. e \in Entry /\ e = [lock |-> l, refs |-> table[k].refs + 1] /\ table' = WithEntry(k, e)
    BY <1>0, <1>b
  <2>a. FlightTypeOK
    OBVIOUS
  <2> HIDE DEF e, FlightInv, Present
  <2>3. /\ WithEntry(k, e) \in [DOMAIN table \cup {k} -> Entry]
        /\ WithEntry(k, e)[k] = e
        /\ \A j \in DOMAIN table : j # k => WithEntry(k, e)[j] = table[j]
    BY <2>a, <2>2, WithEntryFacts
  <2> QED
    BY <2>1, <2>2, <2>3
<1>2. FlightTypeOK'
  <2>1. table' \in [DOMAIN table' -> Entry] /\ DOMAIN table' \subseteq Keys
    BY <1>1 DEF FlightTypeOK
  <2> QED
    BY <1>0, <2>1 DEF FlightTypeOK, Join
<1>3. LocalsOK'
  BY <1>0 DEF LocalsOK, Join, FlightTypeOK
<1>4. EntriesKept' /\ EntriesDistinct'
  BY <1>0, <1>1 DEF EntriesKept, EntriesDistinct, Join, FlightTypeOK
<1>5. RefsCountParticipants'
  <2>1. /\ p \notin Participants(k)
        /\ Participants(k)' = Participants(k) \cup {p}
        /\ \A j \in Keys : j # k => Participants(j)' = Participants(j)
    BY <1>0, JoinParticipants
  <2>2. Cardinality(Participants(k)') = Cardinality(Participants(k)) + 1
    BY <2>1, ParticipantsFinite, FS_AddElement
  <2> QED
    <3>1. table'[k].refs = Cardinality(Participants(k)')
      BY <1>0, <1>1, <2>2 DEF RefsCountParticipants
    <3>2. Participants(k)' # {}
      BY <2>1
    <3> QED
      BY <1>0, <1>1, <2>1, <3>1, <3>2, Recount
<1>6. ProducersHold'
  BY <1>0 DEF ProducersHold, Join, FlightTypeOK
<1> QED
  BY <1>2, <1>3, <1>4, <1>5, <1>6

(* Opening an entry keeps the invariant: its lock object is new.           *)
LEMMA OpenInv ==
    ASSUME FlightInv, NEW p \in Procs, NEW k \in Keys, OpenFlight(p, k)
    PROVE  FlightInv'
<1> USE DEF FlightInv, Present
<1>0. PICK l \in NewLocks : /\ table' = WithEntry(k, [lock |-> l, refs |-> 1])
                            /\ Join(p, k, l)
  BY DEF OpenFlight
<1>a. l \in Locks /\ pc[p] = "idle" /\ k \notin DOMAIN table
  BY <1>0 DEF OpenFlight, NewLocks
<1>1. /\ DOMAIN table' = DOMAIN table \cup {k}
      /\ table'[k] = [lock |-> l, refs |-> 1]
      /\ \A j \in DOMAIN table : j # k => table'[j] = table[j]
      /\ table' \in [DOMAIN table \cup {k} -> Entry]
  <2> DEFINE e == [lock |-> l, refs |-> 1]
  <2>1. e \in Entry /\ FlightTypeOK
    BY <1>a DEF Entry
  <2>2. table' = WithEntry(k, e)
    BY <1>0
  <2> HIDE DEF e, FlightInv
  <2>3. /\ WithEntry(k, e) \in [DOMAIN table \cup {k} -> Entry]
        /\ WithEntry(k, e)[k] = e
        /\ \A j \in DOMAIN table : j # k => WithEntry(k, e)[j] = table[j]
    BY <2>1, <2>2, WithEntryFacts
  <2> QED
    BY <2>2, <2>3 DEF e
<1>2. FlightTypeOK'
  <2>1. table' \in [DOMAIN table' -> Entry] /\ DOMAIN table' \subseteq Keys
    BY <1>1 DEF FlightTypeOK
  <2> QED
    BY <1>0, <1>a, <2>1 DEF FlightTypeOK, Join
<1>3. LocalsOK'
  BY <1>0, <1>a DEF LocalsOK, Join, FlightTypeOK
<1>4. EntriesKept' /\ EntriesDistinct'
  BY <1>0, <1>a, <1>1 DEF EntriesKept, EntriesDistinct, Join, FlightTypeOK, NewLocks
<1>5. RefsCountParticipants'
  <2>1. /\ p \notin Participants(k)
        /\ Participants(k)' = Participants(k) \cup {p}
        /\ \A j \in Keys : j # k => Participants(j)' = Participants(j)
    BY <1>0, <1>a, JoinParticipants
  <2>2. Cardinality(Participants(k)') = Cardinality(Participants(k)) + 1
    BY <2>1, ParticipantsFinite, FS_AddElement
  <2>3. Participants(k) = {} /\ Cardinality(Participants(k)) = 0
    BY <1>a, ParticipantsFinite DEF RefsCountParticipants
  <2> QED
    <3>1. table'[k].refs = Cardinality(Participants(k)')
      BY <1>1, <2>2, <2>3
    <3>2. Participants(k)' # {}
      BY <2>1
    <3> QED
      BY <1>a, <1>1, <2>1, <3>1, <3>2, Recount
<1>6. ProducersHold'
  BY <1>0, <1>a DEF ProducersHold, Join, FlightTypeOK
<1> QED
  BY <1>2, <1>3, <1>4, <1>5, <1>6

(* Taking a free lock keeps the invariant.                                 *)
LEMMA LockInv ==
    ASSUME FlightInv, NEW p \in Procs, Lock(p)
    PROVE  FlightInv'
<1> USE DEF FlightInv, Lock, Present
<1>1. \A k \in Keys : Participants(k)' = Participants(k)
  BY DEF Participants, FlightTypeOK
<1>2. FlightTypeOK' /\ LocalsOK' /\ EntriesKept' /\ EntriesDistinct'
  BY DEF FlightTypeOK, LocalsOK, EntriesKept, EntriesDistinct
<1>3. RefsCountParticipants'
  BY <1>1 DEF RefsCountParticipants
<1>4. ProducersHold'
  BY DEF ProducersHold, FlightTypeOK, LocalsOK
<1> QED
  BY <1>2, <1>3, <1>4

(* Releasing the lock keeps it: other producers hold other locks.          *)
LEMMA UnlockInv ==
    ASSUME FlightInv, NEW p \in Procs, Unlock(p)
    PROVE  FlightInv'
<1> USE DEF FlightInv, Unlock, Present
<1>1. \A k \in Keys : Participants(k)' = Participants(k)
  BY DEF Participants, FlightTypeOK
<1>2. FlightTypeOK' /\ LocalsOK' /\ EntriesKept' /\ EntriesDistinct'
  BY DEF FlightTypeOK, LocalsOK, EntriesKept, EntriesDistinct
<1>3. RefsCountParticipants'
  BY <1>1 DEF RefsCountParticipants
<1>4. ProducersHold'
  BY DEF ProducersHold, FlightTypeOK, LocalsOK
<1> QED
  BY <1>2, <1>3, <1>4

(* Leaving keeps it: the entry goes exactly when its last user goes.       *)
LEMMA ReleaseInv ==
    ASSUME FlightInv, NEW p \in Procs, ReleaseFlight(p)
    PROVE  FlightInv'
<1> USE DEF FlightInv, Present
<1>0. PICK k \in Keys : /\ key[p] = k
                       /\ pc[p] = "leaving" /\ k \in DOMAIN table
                       /\ Leave(p) /\ DropReference(k)
                       /\ table[k] \in Entry /\ table[k].refs \in Nat
  BY DEF ReleaseFlight, Leave, FlightTypeOK, LocalsOK, EntriesKept, Entry
<1> DEFINE rest == Participants(k) \ {p}
<1>1. /\ p \in Participants(k)
      /\ Participants(k)' = rest
      /\ \A j \in Keys : j # k => Participants(j)' = Participants(j)
  BY <1>0 DEF Participants, Leave, FlightTypeOK
<1>2. /\ IsFiniteSet(rest)
      /\ Cardinality(rest) = table[k].refs - 1
      /\ rest = {} <=> Cardinality(rest) = 0
  BY <1>0, <1>1, ParticipantsFinite, FS_RemoveElement, FS_EmptySet DEF RefsCountParticipants
<1>3. LocalsOK'
  BY <1>0 DEF LocalsOK, Leave, FlightTypeOK
<1>4. ProducersHold'
  BY <1>0 DEF ProducersHold, Leave, FlightTypeOK
<1>5. CASE table[k].refs <= 1
  <2>1. table' = WithoutEntry(k) /\ rest = {}
    BY <1>0, <1>1, <1>2, <1>5, ParticipantsFinite DEF DropReference, RefsCountParticipants
  <2>2. /\ DOMAIN table' = DOMAIN table \ {k}
        /\ \A j \in DOMAIN table' : table'[j] = table[j]
        /\ table' \in [DOMAIN table \ {k} -> Entry]
    BY <2>1, WithoutEntryFacts
  <2>3. FlightTypeOK'
    <3>1. table' \in [DOMAIN table' -> Entry] /\ DOMAIN table' \subseteq Keys
      BY <2>2 DEF FlightTypeOK
    <3> QED
      BY <1>0, <3>1 DEF FlightTypeOK, Leave
  <2>4. \A q \in Procs : q # p /\ pc[q] # "idle" => key[q] # k
    BY <2>1 DEF Participants
  <2>5. EntriesKept' /\ EntriesDistinct'
    BY <1>0, <2>2, <2>4 DEF EntriesKept, EntriesDistinct, Leave, FlightTypeOK
  <2>6. RefsCountParticipants'
    BY <1>0, <1>1, <2>1, <2>2 DEF RefsCountParticipants
  <2> QED
    BY <1>3, <1>4, <2>3, <2>5, <2>6
<1>6. CASE table[k].refs > 1
  <2>1. table' = WithEntry(k, [table[k] EXCEPT !.refs = @ - 1])
    BY <1>0, <1>6 DEF DropReference
  <2>2. /\ DOMAIN table' = DOMAIN table
        /\ table'[k] = [lock |-> table[k].lock, refs |-> table[k].refs - 1]
        /\ \A j \in DOMAIN table : j # k => table'[j] = table[j]
        /\ table' \in [DOMAIN table -> Entry]
    <3>1. /\ [table[k] EXCEPT !.refs = @ - 1]
               = [lock |-> table[k].lock, refs |-> table[k].refs - 1]
          /\ [table[k] EXCEPT !.refs = @ - 1] \in Entry
      BY <1>0, <1>6 DEF Entry
    <3>2. DOMAIN table \cup {k} = DOMAIN table
      BY <1>0
    <3> DEFINE e == [table[k] EXCEPT !.refs = @ - 1]
    <3>3. e \in Entry /\ FlightTypeOK /\ table' = WithEntry(k, e)
      BY <2>1, <3>1
    <3>4. e = [lock |-> table[k].lock, refs |-> table[k].refs - 1]
      BY <3>1
    <3> HIDE DEF e, FlightInv
    <3>5. /\ WithEntry(k, e) \in [DOMAIN table \cup {k} -> Entry]
          /\ WithEntry(k, e)[k] = e
          /\ \A j \in DOMAIN table : j # k => WithEntry(k, e)[j] = table[j]
      BY <3>3, WithEntryFacts
    <3> QED
      BY <3>2, <3>3, <3>4, <3>5
  <2>3. FlightTypeOK'
    <3>1. table' \in [DOMAIN table' -> Entry] /\ DOMAIN table' \subseteq Keys
      BY <2>2 DEF FlightTypeOK
    <3> QED
      BY <1>0, <3>1 DEF FlightTypeOK, Leave
  <2>4. EntriesKept' /\ EntriesDistinct'
    BY <1>0, <2>2 DEF EntriesKept, EntriesDistinct, Leave, FlightTypeOK
  <2>5. RefsCountParticipants'
    <3>1. table'[k].refs = Cardinality(Participants(k)')
      BY <1>1, <1>2, <2>2
    <3>2. Participants(k)' # {}
      BY <1>0, <1>1, <1>2, <1>6
    <3> QED
      BY <1>0, <1>1, <2>2, <3>1, <3>2, Recount
  <2> QED
    BY <1>3, <1>4, <2>3, <2>4, <2>5
<1> QED
  BY <1>0, <1>5, <1>6

(* Every step of the protocol keeps the invariant.                         *)
LEMMA FlightNextInv == FlightInv /\ [FlightNext]_flightVars => FlightInv'
<1> SUFFICES ASSUME FlightInv, [FlightNext]_flightVars PROVE FlightInv'
  OBVIOUS
<1>1. CASE UNCHANGED flightVars
  <2> USE <1>1 DEF flightVars, FlightInv
  <2>1. (FlightTypeOK /\ LocalsOK /\ ProducersHold)'
    BY DEF FlightTypeOK, LocalsOK, ProducersHold
  <2>2. (EntriesKept /\ EntriesDistinct /\ RefsCountParticipants)'
    BY DEF EntriesKept, EntriesDistinct, RefsCountParticipants, Participants, Present
  <2> QED
    BY <2>1, <2>2
<1>2. CASE FlightNext
  BY <1>2, JoinInv, OpenInv, LockInv, UnlockInv, ReleaseInv DEF FlightNext
<1> QED
  BY <1>1, <1>2

(* The invariant holds throughout every execution.                         *)
THEOREM FlightInvariance == FlightSpec => []FlightInv
BY FlightInitInv, FlightNextInv, PTL DEF FlightSpec

(* The table and the threads' variables stay well formed.                  *)
THEOREM FlightTypeCorrect == FlightSpec => []FlightTypeOK
<1>1. FlightInv => FlightTypeOK
  BY DEF FlightInv
<1> QED
  BY <1>1, FlightInvariance, PTL

(* No two threads run the producer of one key at the same time.            *)
THEOREM MutualExclusion == FlightSpec => []OneProducerPerKey
<1>1. FlightInv => OneProducerPerKey
  BY DEF FlightInv, FlightTypeOK, EntriesKept, ProducersHold, OneProducerPerKey
<1> QED
  BY <1>1, FlightInvariance, PTL

(* The reference count of a key is the number of its participants.         *)
THEOREM CountsParticipants == FlightSpec => []RefsCountParticipants
<1>1. FlightInv => RefsCountParticipants
  BY DEF FlightInv
<1> QED
  BY <1>1, FlightInvariance, PTL

(* Threads share a lock object exactly when they work on the same key.     *)
THEOREM SeparateLocks == FlightSpec => []LocksNotShared
<1>1. FlightInv => LocksNotShared
  BY DEF FlightInv, EntriesKept, EntriesDistinct, LocksNotShared
<1> QED
  BY <1>1, FlightInvariance, PTL

(* The table of flights is sound, for any threads, keys and lock objects.  *)
THEOREM FlightIsSound == FlightSpec => []FlightSound
<1>1. (/\ FlightTypeOK
       /\ OneProducerPerKey
       /\ RefsCountParticipants
       /\ LocksNotShared) => FlightSound
  BY DEF FlightSound
<1>2. QED
  BY <1>1, FlightTypeCorrect, MutualExclusion, CountsParticipants, SeparateLocks, PTL

(* The owner of a key is the one thread that produces it.                  *)
LEMMA OwnerOfKey ==
    ASSUME OneProducerPerKey, NEW k \in Keys, NEW p \in Procs,
           pc[p] = "producing", key[p] = k
    PROVE  Producers(k) = {p} /\ Owner[k] = p
<1>1. Producers(k) = {p}
  BY DEF Producers, OneProducerPerKey
<1>2. TheOne({p}) = p
  BY DEF TheOne
<1> QED
  BY <1>1, <1>2 DEF Owner

(* A thread that obtains the lock of a key acquires the abstract mutex.    *)
LEMMA LockAcquires ==
    ASSUME FlightInv, OneProducerPerKey', NEW p \in Procs, Lock(p)
    PROVE  Mutex!Acquire(p, key[p])
<1>0. PICK k \in Keys : key[p] = k
  BY DEF FlightInv, LocalsOK, Lock
<1>1. Producers(k) = {}
  BY <1>0 DEF FlightInv, FlightTypeOK, LocalsOK, EntriesKept, ProducersHold, Producers, Lock
<1>2. Producers(k)' = {p}
  BY <1>0, <1>1 DEF Producers, Lock, FlightInv, FlightTypeOK
<1>3. ASSUME NEW j \in Keys, j # k PROVE Producers(j)' = Producers(j)
  BY <1>0, <1>3 DEF Producers, Lock, FlightInv, FlightTypeOK
<1>4. TheOne({p}) = p
  BY DEF TheOne
<1>5. Owner[k] = NoProc /\ Owner'[k] = p
  BY <1>1, <1>2, <1>4 DEF Owner
<1>6. \A j \in Keys : j # k => Owner'[j] = Owner[j]
  BY <1>3 DEF Owner
<1>7. Owner' = [Owner EXCEPT ![k] = p]
  BY <1>5, <1>6 DEF Owner
<1> QED
  BY <1>0, <1>5, <1>7 DEF Mutex!Acquire

(* A thread that releases it releases the abstract mutex.                  *)
LEMMA UnlockReleases ==
    ASSUME FlightInv, OneProducerPerKey, NEW p \in Procs, Unlock(p)
    PROVE  Mutex!Release(p, key[p])
<1>0. PICK k \in Keys : key[p] = k
  BY DEF FlightInv, LocalsOK, Unlock
<1>1. Producers(k) = {p} /\ Owner[k] = p
  BY <1>0, OwnerOfKey DEF Unlock
<1>2. Producers(k)' = {}
  BY <1>0, <1>1 DEF Producers, Unlock, FlightInv, FlightTypeOK
<1>3. ASSUME NEW j \in Keys, j # k PROVE Producers(j)' = Producers(j)
  BY <1>0, <1>3 DEF Producers, Unlock, FlightInv, FlightTypeOK
<1>4. Owner'[k] = NoProc
  BY <1>2 DEF Owner
<1>5. \A j \in Keys : j # k => Owner'[j] = Owner[j]
  BY <1>3 DEF Owner
<1>6. Owner' = [Owner EXCEPT ![k] = NoProc]
  BY <1>4, <1>5 DEF Owner
<1> QED
  BY <1>0, <1>1, <1>6 DEF Mutex!Release

(* Entering and leaving the table do not touch the abstract mutex.         *)
LEMMA TableStepsStutter ==
    ASSUME FlightInv, NEW p \in Procs,
           (\E k \in Keys : JoinFlight(p, k) \/ OpenFlight(p, k)) \/ ReleaseFlight(p)
    PROVE  Owner' = Owner
<1>1. ASSUME NEW j \in Keys PROVE Producers(j)' = Producers(j)
  BY DEF Producers, JoinFlight, OpenFlight, ReleaseFlight, Join, Leave, FlightInv, FlightTypeOK, LocalsOK
<1> QED
  BY <1>1 DEF Owner

(* The manager implements one mutex per key: every step of it is a step of *)
(* the abstract mutex or leaves it alone.                                  *)
THEOREM Implementation == FlightSpec => ImplementsMutex
<1>1. FlightInit => Mutex!Init
  BY DEF FlightInit, Mutex!Init, Owner, Producers
<1>2. FlightInv => OneProducerPerKey
  BY DEF FlightInv, FlightTypeOK, EntriesKept, ProducersHold, OneProducerPerKey
<1>3. FlightInv' => OneProducerPerKey'
  BY DEF FlightInv, FlightTypeOK, EntriesKept, ProducersHold, OneProducerPerKey
<1>4. FlightInv /\ FlightInv' /\ [FlightNext]_flightVars => [Mutex!Next]_Owner
  <2> SUFFICES ASSUME FlightInv, FlightInv', [FlightNext]_flightVars PROVE Mutex!Next \/ Owner' = Owner
    OBVIOUS
  <2>1. ASSUME NEW p \in Procs, Lock(p) PROVE Mutex!Next
    <3>1. key[p] \in Keys
      BY <2>1 DEF FlightInv, LocalsOK, Lock
    <3> QED
      BY <1>3, <2>1, <3>1, LockAcquires DEF Mutex!Next
  <2>2. ASSUME NEW p \in Procs, Unlock(p) PROVE Mutex!Next
    <3>1. key[p] \in Keys
      BY <2>2 DEF FlightInv, LocalsOK, Unlock
    <3> QED
      BY <1>2, <2>2, <3>1, UnlockReleases DEF Mutex!Next
  <2>3. CASE UNCHANGED flightVars
    BY <2>3 DEF flightVars, Owner, Producers
  <2> QED
    BY <2>1, <2>2, <2>3, TableStepsStutter DEF FlightNext
<1> QED
  BY <1>1, <1>4, FlightInvariance, PTL DEF FlightSpec, ImplementsMutex, Mutex!Spec

=============================================================================
