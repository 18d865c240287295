--------------------------- MODULE CircuitBreaker ---------------------------
(***************************************************************************)
(* The circuit breaker of app/api/core/cache.py (class                     *)
(* RedisCircuitBreaker), shared by the Redis tier (L2RedisClient) and by   *)
(* the bridge to the engine (CrucibleClient.request).                      *)
(*                                                                         *)
(* Every method of the breaker runs under its lock, so a method is one     *)
(* step.  What is not atomic is a CALL: a caller asks can_attempt, performs*)
(* its I/O without the lock, and only later records an outcome.  Any number*)
(* of callers may be between those two points, and the breaker may have    *)
(* changed state several times before a late outcome arrives.              *)
(*                                                                         *)
(* Time: the code compares now - last_state_change_mono with               *)
(* cooldown_seconds and uses the difference for nothing else, so the model *)
(* keeps that difference, `age', saturated at COOLDOWN.                    *)
(***************************************************************************)
EXTENDS Integers

CONSTANTS
    Callers,            \* threads of the gateway that may have a call in flight
    FAILURE_THRESHOLD,  \* failure_threshold
    COOLDOWN,           \* cooldown_seconds, in ticks
    MAX_FAILURES        \* bound on failure_count, which the code never bounds

ASSUME ThresholdAssumption == FAILURE_THRESHOLD \in Nat \ {0}
ASSUME CooldownAssumption == COOLDOWN \in Nat \ {0}
ASSUME MaxFailuresAssumption ==
    MAX_FAILURES \in Nat /\ MAX_FAILURES >= FAILURE_THRESHOLD

VARIABLES
    state,          \* self.state
    failure_count,  \* self.failure_count
    age,            \* min(now - self.last_state_change_mono, COOLDOWN)
    call,           \* what each caller is doing between two calls of the breaker
    sinceTrip       \* history: ticks since the circuit last tripped with no
                    \* success recorded since then, saturated at COOLDOWN

breakerVars == <<state, failure_count, age, call, sinceTrip>>

CircuitState == {"CLOSED", "OPEN", "HALF_OPEN", "DISABLED"}

\* "call" was admitted while CLOSED, "probe" while HALF_OPEN; "ping" is the
\* health check, which is never asked to pass can_attempt.
CallState == {"idle", "call", "probe", "ping"}

\* Types of the breaker and of the calls it admitted.
BreakerTypeOK ==
    /\ state \in CircuitState
    /\ failure_count \in 0..MAX_FAILURES
    /\ age \in 0..COOLDOWN
    /\ call \in [Callers -> CallState]
    /\ sinceTrip \in 0..COOLDOWN

\* L2RedisClient.__init__ sets DISABLED on an unconfigured Redis; a breaker
\* over a configured dependency starts CLOSED.
BreakerInit ==
    /\ state \in {"CLOSED", "DISABLED"}
    /\ failure_count = 0
    /\ age = 0
    /\ call = [c \in Callers |-> "idle"]
    /\ sinceTrip = COOLDOWN

(***************************************************************************)
(* can_attempt                                                             *)
(***************************************************************************)
Admit(c, kind) == call' = [call EXCEPT ![c] = kind]

AttemptClosed(c) ==
    /\ call[c] = "idle"
    /\ state = "CLOSED"
    /\ Admit(c, "call")
    /\ UNCHANGED <<state, failure_count, age, sinceTrip>>

AttemptAfterCooldown(c) ==
    /\ call[c] = "idle"
    /\ state = "OPEN"
    /\ age >= COOLDOWN
    /\ state' = "HALF_OPEN"
    /\ age' = 0
    /\ Admit(c, "probe")
    /\ UNCHANGED <<failure_count, sinceTrip>>

\* Mutant of AttemptHalfOpen: the single probe that the comment on HALF_OPEN has;
\* until it reports, only its own thread may go on.
AttemptAwaitsProbe(c) ==
    /\ call[c] = "probe"
    /\ state = "HALF_OPEN"
    /\ Admit(c, "probe")
    /\ UNCHANGED <<state, failure_count, age, sinceTrip>>

AttemptHalfOpen(c) ==
    /\ call[c] = "idle"
    /\ state = "HALF_OPEN"
    /\ Admit(c, "probe")
    /\ UNCHANGED <<state, failure_count, age, sinceTrip>>

\* The caller is short-circuited: can_attempt returns False and it goes away.
Refuse(c) ==
    /\ call[c] = "idle"
    /\ \/ state = "DISABLED"
       \/ state = "OPEN" /\ age < COOLDOWN
    /\ UNCHANGED breakerVars

CanAttempt(c) ==
    \/ AttemptClosed(c)
    \/ AttemptAfterCooldown(c)
    \/ AttemptHalfOpen(c)

\* L2RedisClient.ping talks to Redis without consulting can_attempt; its only
\* guard is that Redis is configured and enabled.
Ping(c) ==
    /\ call[c] = "idle"
    /\ state # "DISABLED"
    /\ Admit(c, "ping")
    /\ UNCHANGED <<state, failure_count, age, sinceTrip>>

(***************************************************************************)
(* The outcome of a call.                                                  *)
(***************************************************************************)
Return(c) ==
    /\ call[c] # "idle"
    /\ call' = [call EXCEPT ![c] = "idle"]

\* Mutant of RecordSuccess: the circuit closes with the failure count kept.
RecordSuccessKeepsCount(c) ==
    /\ Return(c)
    /\ state' = "CLOSED"
    /\ sinceTrip' = COOLDOWN
    /\ UNCHANGED <<age, failure_count>>

\* record_success closes the circuit from every state.
RecordSuccess(c) ==
    /\ Return(c)
    /\ state' = "CLOSED"
    /\ failure_count' = 0
    /\ sinceTrip' = COOLDOWN
    /\ UNCHANGED age

Trips ==
    \/ state = "CLOSED" /\ failure_count + 1 >= FAILURE_THRESHOLD
    \/ state = "HALF_OPEN"

\* Mutant of RecordFailure: a failed probe re-opens the circuit without
\* restarting the cooldown.
RecordFailureKeepsAge(c) ==
    /\ Return(c)
    /\ state # "DISABLED"
    /\ failure_count < MAX_FAILURES
    /\ failure_count' = failure_count + 1
    /\ IF Trips
         THEN /\ state' = "OPEN"
              /\ sinceTrip' = 0
              /\ age' = IF state = "CLOSED" THEN 0 ELSE age
         ELSE UNCHANGED <<state, age, sinceTrip>>

RecordFailure(c) ==
    /\ Return(c)
    /\ state # "DISABLED"
    /\ failure_count < MAX_FAILURES
    /\ failure_count' = failure_count + 1
    /\ IF Trips
         THEN state' = "OPEN" /\ age' = 0 /\ sinceTrip' = 0
         ELSE UNCHANGED <<state, age, sinceTrip>>

\* A call may end with no outcome recorded: no client could be built, the body
\* did not serialise, or a SCAN generator was dropped half way.
Abandon(c) ==
    /\ Return(c)
    /\ UNCHANGED <<state, failure_count, age, sinceTrip>>

Saturate(t) == IF t < COOLDOWN THEN t + 1 ELSE t

BreakerTick ==
    /\ age < COOLDOWN \/ sinceTrip < COOLDOWN
    /\ age' = Saturate(age)
    /\ sinceTrip' = Saturate(sinceTrip)
    /\ UNCHANGED <<state, failure_count, call>>

Finish(c) == RecordSuccess(c) \/ RecordFailure(c) \/ Abandon(c)

BreakerNext ==
    \/ \E c \in Callers : \/ CanAttempt(c)
                          \/ Refuse(c)
                          \/ Ping(c)
                          \/ RecordSuccess(c)
                          \/ RecordFailure(c)
                          \/ Abandon(c)
    \/ BreakerTick

BreakerSpec == BreakerInit /\ [][BreakerNext]_breakerVars

\* Time passes; every call returns, because connect and read timeouts bound
\* it; and requests keep arriving, so that callers which are idle again and
\* again do not turn to pings for ever.
BreakerFairness ==
    /\ WF_breakerVars(BreakerTick)
    /\ \A c \in Callers : WF_breakerVars(Finish(c))
    /\ SF_breakerVars(\E c \in Callers : CanAttempt(c))

BreakerFairSpec == BreakerSpec /\ BreakerFairness

(***************************************************************************)
(* Properties                                                              *)
(***************************************************************************)

(* A closed circuit has seen fewer consecutive failures than the threshold:*)
(* late failures that arrive while the circuit is OPEN or HALF_OPEN go on  *)
(* counting, and none of that count may survive into CLOSED, or the next   *)
(* single failure would trip a healthy dependency.                         *)
ClosedBelowThreshold == state = "CLOSED" => failure_count < FAILURE_THRESHOLD

(* The breaker is sound: its state is of its type, and while it is closed  *)
(* fewer than FAILURE_THRESHOLD failures have been counted since the last  *)
(* success, so the success that closes it also forgets them                *)
(* (cache.py, record_success).                                             *)
BreakerSound == BreakerTypeOK /\ ClosedBelowThreshold

(* Fast fail: once the circuit has tripped, and until a success is         *)
(* recorded, no ordinary call starts before a whole cooldown has passed.   *)
(* Each failed probe trips the circuit again and starts a new cooldown.    *)
CooldownHonoured ==
    [][\A c \in Callers :
          call[c] = "idle" /\ call'[c] \in {"call", "probe"}
              => sinceTrip >= COOLDOWN]_breakerVars

(* A circuit disabled because Redis is not configured stays disabled.      *)
(* record_success would close it from any state: what prevents it is that  *)
(* no caller and no ping is ever in flight over a disabled circuit.        *)
DisabledForGood == [][state = "DISABLED" => state' = "DISABLED"]_breakerVars

(* No step loses patience: after a trip no call starts before a whole      *)
(* cooldown, a late failure begins the cooldown anew, and a disabled       *)
(* breaker stays disabled, whatever the threads report that were in        *)
(* flight.                                                                 *)
BreakerPatient == CooldownHonoured /\ DisabledForGood

(* The breaker never wedges: an open circuit is eventually left, whatever  *)
(* happens to the calls in flight and even if a probe records no outcome.  *)
OpenIsLeft == state = "OPEN" ~> state # "OPEN"

(* A probe without an outcome does not wedge HALF_OPEN either: whenever the*)
(* circuit is not disabled, a call is again in flight or admitted later.   *)
CallsResume ==
    state \in {"OPEN", "HALF_OPEN"} ~> \E c \in Callers : call[c] \in {"call", "probe"}

(* An outage of the breaker is not for ever: an open one is left again,    *)
(* and the calls that were short-circuited meanwhile resume, even if a     *)
(* probe reports nothing.                                                  *)
BreakerRecovers == OpenIsLeft /\ CallsResume

(* What the comment on CircuitState.HALF_OPEN says: "Testing single probe  *)
(* request" (cache.py:295).                                                *)
SingleProbe ==
    \A c, d \in Callers : call[c] = "probe" /\ call[d] = "probe" => c = d
=============================================================================
