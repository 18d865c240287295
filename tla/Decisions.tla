------------------------------- MODULE Decisions -------------------------------
(***************************************************************************)
(* Operational decisions (routers/decisions.py): created, reviewed,         *)
(* executed, measured.                                                     *)
(*                                                                         *)
(* Each request is one transaction that locks the decision's row with      *)
(* SELECT ... FOR UPDATE, checks its state and writes.  The audit INSERT is *)
(* in the same transaction and its error is swallowed: PostgreSQL has       *)
(* aborted the transaction by then, COMMIT rolls it back without an error   *)
(* and the request answers success.                                        *)
(***************************************************************************)
EXTENDS Naturals, Sequences

CONSTANTS
    DecisionRequests,
    Roles,
    MaxDecisions,   \* bound on the decisions created
    Nobody          \* the row is not locked

ASSUME NobodyAssumption == Nobody \notin DecisionRequests
ASSUME RolesAssumption == Roles # {}
ASSUME MaxDecisionsAssumption == MaxDecisions \in Nat

VARIABLES
    decisions,  \* gov.decisions, with what the audit log says of each and its outcomes
    deciding    \* the request each of DecisionRequests carries out

decisionVars == <<decisions, deciding>>

Approvers == {"super_admin", "management", "production_admin", "equipment_admin", "exploration_admin"}
Executors == {"super_admin", "management", "production_admin", "equipment_admin", "mine_planner"}

Reviewable == {"DRAFT", "SIMULATED", "READY_FOR_REVIEW"}
LifecycleStates == Reviewable \cup {"APPROVED", "REJECTED", "COMPLETED", "MEASURED"}

Decision == [state : LifecycleStates,
             audited : LifecycleStates,     \* the state the last audit entry names
             authority : Roles,             \* history: who created or reviewed it last
             outcomes : Nat,                \* rows of gov.decision_outcomes
             lock : DecisionRequests \cup {Nobody}]

\* The three requests on an existing decision: what they demand of its state and
\* of the user, and the states they may lead to.
Demands == [review |-> Reviewable, execute |-> {"APPROVED"}, outcome |-> {"COMPLETED", "APPROVED"}]
AllowedTo == [review |-> Approvers, execute |-> Executors, outcome |-> Executors]

LeadsTo == [review |-> {"APPROVED", "REJECTED"}, execute |-> {"COMPLETED"}, outcome |-> {"MEASURED"}]

DecisionRequest == [op : DOMAIN Demands \cup {"none"}, decision : Nat, role : Roles]
NoDecisionRequest == [op |-> "none", decision |-> 0, role |-> CHOOSE x \in Roles : TRUE]

\* Types of the rows and of the requests; a decision has one of the states there are.
DecisionTypeOK ==
    /\ decisions \in Seq(Decision)
    /\ deciding \in [DecisionRequests -> DecisionRequest]

DecisionInit ==
    /\ decisions = <<>>
    /\ deciding = [r \in DecisionRequests |-> NoDecisionRequest]

-----------------------------------------------------------------------------

\* record_decision: what the body asks for, as the user's role admits it.
Created(asked, role) ==
    IF asked \in Reviewable \/ (asked = "APPROVED" /\ role \in Approvers)
    THEN asked ELSE "READY_FOR_REVIEW"

RecordDecision ==
    /\ Len(decisions) < MaxDecisions
    /\ \E asked \in LifecycleStates, role \in Roles, audited \in BOOLEAN :
        decisions' = IF ~audited THEN decisions
                     ELSE Append(decisions,
                            [state |-> Created(asked, role), audited |-> Created(asked, role),
                             authority |-> role, outcomes |-> 0, lock |-> Nobody])
    /\ UNCHANGED deciding

\* Mutant: SELECT without FOR UPDATE.
DecisionBeginUnlocked(r) ==
    /\ deciding[r].op = "none"
    /\ \E op \in DOMAIN Demands, d \in DOMAIN decisions, role \in Roles :
        /\ role \in AllowedTo[op]
        /\ decisions[d].state \in Demands[op]
        /\ deciding' = [deciding EXCEPT ![r] = [op |-> op, decision |-> d, role |-> role]]
        /\ UNCHANGED decisions

\* SELECT ... FOR UPDATE waits for the row; a state that does not fit, or a role
\* that may not, ends the request.
DecisionBegin(r) ==
    /\ deciding[r].op = "none"
    /\ \E op \in DOMAIN Demands, d \in DOMAIN decisions, role \in Roles :
        /\ role \in AllowedTo[op]
        /\ decisions[d].lock = Nobody
        /\ decisions[d].state \in Demands[op]
        /\ deciding' = [deciding EXCEPT ![r] = [op |-> op, decision |-> d, role |-> role]]
        /\ decisions' = [decisions EXCEPT ![d].lock = r]

\* What a committed request leaves of decision d.
Decided(d, op, role, state) ==
    [d EXCEPT !.state = state, !.audited = state,
              !.authority = IF op = "review" THEN role ELSE @,
              !.outcomes = IF op = "outcome" THEN @ + 1 ELSE @,
              !.lock = Nobody]

DecisionCommit(r) ==
    LET q == deciding[r] IN
    /\ q.op # "none"
    /\ \/ \E state \in LeadsTo[q.op] :
            decisions' = [decisions EXCEPT
                ![q.decision] = Decided(decisions[q.decision], q.op, q.role, state)]
       \/ decisions' = [decisions EXCEPT ![q.decision].lock = Nobody]
    /\ deciding' = [deciding EXCEPT ![r] = NoDecisionRequest]

DecisionNext ==
    \/ RecordDecision
    \/ \E r \in DecisionRequests : DecisionBegin(r) \/ DecisionCommit(r)

DecisionSpec == DecisionInit /\ [][DecisionNext]_decisionVars

-----------------------------------------------------------------------------
\* The audit log names the state a decision is in, although the handlers swallow
\* the error of the audit INSERT (decisions.py:176, :218, :313): what is not
\* audited did not happen, whatever the caller was told.
DecisionsAudited ==
    \A d \in DOMAIN decisions : decisions[d].state = decisions[d].audited

\* A decision has an outcome exactly when it is measured, and only one: two
\* outcome requests, or an outcome and an execution, meet on the row lock.
OneOutcomeWhenMeasured ==
    \A d \in DOMAIN decisions :
        decisions[d].outcomes = IF decisions[d].state = "MEASURED" THEN 1 ELSE 0

\* What was approved, executed or measured was approved by someone who may.
AuthorityOfApproved ==
    \A d \in DOMAIN decisions :
        decisions[d].state \in {"APPROVED", "COMPLETED", "MEASURED"}
            => decisions[d].authority \in Approvers

\* Operational decisions are sound under two requests at once: every state a
\* decision is in is on its audit trail, a measured decision has one outcome, and
\* what was approved was approved with the authority it needs.
DecisionsSound ==
    DecisionTypeOK /\ DecisionsAudited /\ OneOutcomeWhenMeasured /\ AuthorityOfApproved
=============================================================================
