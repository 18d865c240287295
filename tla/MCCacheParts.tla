----------------------------- MODULE MCCacheParts -----------------------------
(* Instances of the cache's parts for TLC.  The parts share nothing, so a     *)
(* behaviour is about one of them, chosen at the start:                        *)
(*   breaker: three callers: one may probe, one may bring a late outcome from   *)
(*            before the trip, one may ping;                                   *)
(*   flight:  three threads, the least with which one leaves while another      *)
(*            produces and a third arrives; two keys let a deleted entry's lock *)
(*            object be confused with another key's;                           *)
(*   health:  three threads, so that one is in the health check, one builds     *)
(*            the client and one races with it.                                *)
EXTENDS CircuitBreaker, SingleFlight, CacheHealth

CONSTANT Parts
VARIABLE part

Deployed(parses, monitors) == [parses |-> parses, monitors |-> monitors]

\* A URL that parses, watched by every thread, or one that does not, unwatched.
Sane == {Deployed(TRUE, Threads), Deployed(FALSE, {})}

\* A URL that does not parse, with health checks.
Misconfigured == {Deployed(FALSE, Threads)}

MCVars == <<part, breakerVars, flightVars, healthVars>>

MCInit ==
    /\ part \in Parts
    /\ BreakerInit /\ FlightInit /\ HealthInit
    /\ part # "breaker" => state = "DISABLED"
    /\ part # "health" => deployed = CHOOSE d \in Deployments : TRUE

BreakerPart == part = "breaker" /\ BreakerNext /\ UNCHANGED <<part, flightVars, healthVars>>
FlightPart == part = "flight" /\ FlightNext /\ UNCHANGED <<part, breakerVars, healthVars>>
HealthPart == part = "health" /\ HealthNext /\ UNCHANGED <<part, breakerVars, flightVars>>

MCNext == BreakerPart \/ FlightPart \/ HealthPart

\* The fairness of each part's specification, asked of its own behaviours.
MCFairness ==
    /\ WF_breakerVars(part = "breaker" /\ BreakerTick)
    /\ \A c \in Callers : WF_breakerVars(part = "breaker" /\ Finish(c))
    /\ SF_breakerVars(part = "breaker" /\ \E c \in Callers : CanAttempt(c))
    /\ \A p \in Procs : WF_flightVars(part = "flight" /\ (Unlock(p) \/ ReleaseFlight(p)))
    /\ \A l \in Locks : WF_flightVars(part = "flight" /\ \E p \in Procs : lock[p] = l /\ Lock(p))
    /\ \A t \in Threads : /\ WF_healthVars(part = "health" /\ Advance(t) /\ UNCHANGED deployed)
                          /\ SF_healthVars(part = "health" /\ InitLock(t) /\ UNCHANGED deployed)
                          /\ SF_healthVars(part = "health" /\ Counting(t) /\ UNCHANGED deployed)
                          /\ SF_healthVars(part = "health" /\ CheckHealth(t) /\ UNCHANGED deployed)

MCSpec == MCInit /\ [][MCNext]_MCVars /\ MCFairness
===============================================================================
