------------------------------- MODULE MineClock -------------------------------
(***************************************************************************)
(* What "now" means for a mine (core/clock.py), and what the platform says  *)
(* of its own data and models (the platform signals of core/state_engine.py). *)
(*                                                                         *)
(* A resolution reads the newest observation of two sources, one query      *)
(* after the other, skips a source that fails, and is cached.  The platform *)
(* state is computed later, from the resolution and the time it is then.    *)
(***************************************************************************)
EXTENDS OperationalState, Integers, FiniteSets, FiniteSetsExt

CONSTANTS
    ClockRequests,
    Tasks,                          \* the models that should be serving
    CLOCK_TTL,                      \* CLOCK_TTL_SECONDS
    DAY,                            \* a production record is dated, not timestamped
    RECENT, STALE, LIVE_THRESHOLD,  \* ages of an observation
    MaxClockTime                    \* bound on the wall clock

ASSUME ClockAssumption ==
    /\ {CLOCK_TTL, DAY, RECENT, STALE, LIVE_THRESHOLD, MaxClockTime} \subseteq Nat \ {0}
    /\ RECENT <= STALE /\ STALE <= LIVE_THRESHOLD

VARIABLES
    wall,       \* the wall clock
    observed,   \* the newest observation of each source, Never if it has none
    clockCache, \* _CACHE of one mine: [at, mode, epoch]
    asking      \* the platform_state each of ClockRequests computes

clockVars == <<wall, observed, clockCache, asking>>

Never == -1
Sources == {"telemetry", "production"}

Clock == [at : Int, mode : {"LIVE", "BENCHMARK", "UNKNOWN"}, epoch : Int]
Unresolved == [at |-> -CLOCK_TTL, mode |-> "UNKNOWN", epoch |-> Never]
NoAsking == [pc |-> "idle", began |-> 0, found |-> {}, clock |-> Unresolved,
             state |-> "none"]

ClockInit ==
    /\ wall = 0
    /\ observed = [s \in Sources |-> Never]
    /\ clockCache = Unresolved
    /\ asking = [r \in ClockRequests |-> NoAsking]

ClockTick ==
    /\ wall < MaxClockTime
    /\ wall' = wall + 1
    /\ UNCHANGED <<observed, clockCache, asking>>

\* A production record counts as made at the end of its day.
Observe ==
    /\ \/ observed' = [observed EXCEPT !["telemetry"] = wall]
       \/ observed' = [observed EXCEPT !["production"] = (wall \div DAY + 1) * DAY - 1]
    /\ UNCHANGED <<wall, clockCache, asking>>

-----------------------------------------------------------------------------
\* resolve_clock.

ResolveCached(r) ==
    /\ asking[r].pc = "idle"
    /\ wall - clockCache.at < CLOCK_TTL
    /\ asking' = [asking EXCEPT ![r].pc = "signals", ![r].clock = clockCache]
    /\ UNCHANGED <<wall, observed, clockCache>>

ResolveBegin(r) ==
    /\ asking[r].pc = "idle"
    /\ wall - clockCache.at >= CLOCK_TTL
    /\ asking' = [asking EXCEPT ![r].pc = "telemetry", ![r].began = wall]
    /\ UNCHANGED <<wall, observed, clockCache>>

After == [telemetry |-> "production", production |-> "resolve"]

\* _newest_observation asks one source, then the other; the query may fail.
NewestOf(r, source) ==
    /\ asking[r].pc = source
    /\ \E found \in {asking[r].found, asking[r].found \cup ({observed[source]} \ {Never})} :
        asking' = [asking EXCEPT ![r].pc = After[source], ![r].found = found]
    /\ UNCHANGED <<wall, observed, clockCache>>

\* _resolve_uncached compares with the time it was when it began.
Resolved(found, began) ==
    LET epoch == IF found = {} THEN Never ELSE Max(found) IN
    [at |-> wall,
     epoch |-> epoch,
     mode |-> CASE found = {} -> "UNKNOWN"
                [] found # {} /\ began - epoch <= LIVE_THRESHOLD -> "LIVE"
                [] OTHER -> "BENCHMARK"]

ResolveStore(r) ==
    /\ asking[r].pc = "resolve"
    /\ clockCache' = Resolved(asking[r].found, asking[r].began)
    /\ asking' = [asking EXCEPT ![r] = [NoAsking EXCEPT !.pc = "signals", !.clock = clockCache']]
    /\ UNCHANGED <<wall, observed>>

-----------------------------------------------------------------------------
\* DataFreshness.from_age, and the severity each age band has.
\* Mutant: an observation of the future is taken for a live one.
SeverityOfAgeUnsigned(age) ==
    CASE age < RECENT -> "NONE" [] age \in RECENT..STALE - 1 -> "WATCH" [] OTHER -> "DISRUPTION"

SeverityOfAge(age) ==
    CASE age \in 0..RECENT - 1 -> "NONE" [] age \in RECENT..STALE - 1 -> "WATCH" [] OTHER -> "DISRUPTION"

\* _freshness_signal: no observation is INSUFFICIENT_DATA, and not counted.
FreshnessSignal(clock) ==
    CASE clock.mode = "UNKNOWN" -> {}
      [] clock.mode = "BENCHMARK" -> {"WATCH"}
      [] clock.mode = "LIVE" -> {SeverityOfAge(wall - clock.epoch)}

\* _model_signal: which models do not serve the champion.  The answer is memoised
\* for a minute and may be any.
ModelSignal(missing) ==
    CASE missing = {} -> "NONE" [] missing = Tasks -> "DISRUPTION" [] OTHER -> "WATCH"

\* platform_state: the worst severity among what could be evaluated.
PlatformState(r) ==
    /\ asking[r].pc = "signals"
    /\ \E missing \in SUBSET Tasks :
        asking' = [asking EXCEPT ![r].pc = "told", ![r].began = wall,
            ![r].state = StateFrom(FreshnessSignal(asking[r].clock) \cup {ModelSignal(missing)})]
    /\ UNCHANGED <<wall, observed, clockCache>>

ToldState(r) ==
    /\ asking[r].pc = "told"
    /\ asking' = [asking EXCEPT ![r] = NoAsking]
    /\ UNCHANGED <<wall, observed, clockCache>>

ClockNext ==
    \/ ClockTick \/ Observe
    \/ \E r \in ClockRequests :
        \/ ResolveCached(r) \/ ResolveBegin(r) \/ \E s \in Sources : NewestOf(r, s)
        \/ ResolveStore(r) \/ PlatformState(r) \/ ToldState(r)

ClockSpec == ClockInit /\ [][ClockNext]_clockVars

-----------------------------------------------------------------------------
\* A platform that calls itself NORMAL has seen an observation that was recent,
\* and not of the future, when it said so, although the observation was looked for
\* earlier, by this request or by another whose resolution is cached
\* (clock.py:154).  A mine without any dated observation is the exception: its
\* freshness is not evaluated (state_engine.py:446, :629).
NormalPlatformIsRecent ==
    \A r \in ClockRequests :
        asking[r].state = "NORMAL" =>
            \/ asking[r].clock.mode = "UNKNOWN"
            \/ asking[r].began - asking[r].clock.epoch \in 0..RECENT - 1
===============================================================================
