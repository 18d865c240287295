---------------------------- MODULE PlanLifecycle ----------------------------
(***************************************************************************)
(* What app/api/core/decision_store.py promises of one response plan: it is *)
(* created SIMULATED and then moves only along declared edges.  Nothing is  *)
(* said here of requests, transactions or failures; ResponsePlans           *)
(* implements this module.                                                  *)
(***************************************************************************)
VARIABLE state

\* Not a state of the code: the plan has no row yet.
Absent == "ABSENT"

TRANSITIONS ==
    [DRAFT            |-> {"SIMULATED", "REJECTED"},
     SIMULATED        |-> {"READY_FOR_REVIEW", "DRAFT", "REJECTED"},
     READY_FOR_REVIEW |-> {"APPROVED", "REJECTED", "DRAFT"},
     APPROVED         |-> {"EXECUTING", "REJECTED"},
     REJECTED         |-> {"DRAFT"},
     EXECUTING        |-> {"COMPLETED"},
     COMPLETED        |-> {"MEASURED"},
     MEASURED         |-> {"LEARNED"},
     LEARNED          |-> {}]

LifecycleState == {"DRAFT", "SIMULATED", "READY_FOR_REVIEW", "APPROVED", "REJECTED",
                   "EXECUTING", "COMPLETED", "MEASURED", "LEARNED"}

can_transition(current, target) == target \in TRANSITIONS[current]

Init == state = Absent

Create == state = Absent /\ state' = "SIMULATED"

Move == state \in LifecycleState /\ \E target \in LifecycleState :
            can_transition(state, target) /\ state' = target

Next == Create \/ Move

Spec == Init /\ [][Next]_state
=============================================================================
