---------------------------- MODULE ResponsePlans ----------------------------
(***************************************************************************)
(* The decision loop: routers/response_plans.py over core/decision_store.py.*)
(*                                                                         *)
(* A request that moves a plan first looks the plan up on its own, then    *)
(* opens a transaction that locks the row, decides on the state it finds,  *)
(* and writes state, approval and audit entry together.  Recording an      *)
(* outcome is a transaction of its own before that one.  Creating a plan   *)
(* computes its reference from the largest id it can see.                  *)
(*                                                                         *)
(* PostgreSQL at READ COMMITTED: what a transaction writes is one step     *)
(* with its COMMIT, and until then only its locks show.  Any statement may *)
(* fail; a restart of the process is every open transaction failing.       *)
(* The approver's role is checked against the plan's actions, and an       *)
(* outcome against its predicted effect, neither of which ever changes:    *)
(* every request here is one that passes.                                  *)
(***************************************************************************)
EXTENDS Naturals, Sequences

CONSTANTS
    Requests,       \* request threads
    Operations,     \* the endpoints exercised
    MaxPlans,       \* bound on the ids the sequence yields
    MaxOutcomes,    \* bound on the outcomes of one plan
    Schemas,        \* what created the database, "init.sql" or "migrate_all.py"
    Free            \* nobody holds the row

ASSUME RequestsAssumption == Free \notin Requests
ASSUME BoundsAssumption == MaxPlans \in Nat /\ MaxOutcomes \in Nat
ASSUME SchemaAssumption == Schemas \subseteq {"init.sql", "migrate_all.py"}

VARIABLES
    schema,     \* which of Schemas the database has
    state,      \* gov.response_plans.lifecycle_state per id, or Absent
    ref,        \* plan_ref per id, 0 while there is no row
    sequence,   \* the next id; a rolled back INSERT does not give its id back
    holder,     \* the request whose transaction holds the row FOR UPDATE
    approvals,  \* gov.decision_approvals.decision per plan, oldest first
    outcomes,   \* gov.decision_outcomes per plan: how many
    audit,      \* gov.audit_log per plan: the state each entry says it moved to
    request     \* what each of Requests is doing

vars == <<schema, state, ref, sequence, holder, approvals, outcomes, audit, request>>
rows == <<schema, state, ref, approvals, audit>>

Plans == 1..MaxPlans

\* One plan's lifecycle, as declared.
Lifecycle(p) == INSTANCE PlanLifecycle WITH state <- state[p]
Declared == INSTANCE PlanLifecycle
LifecycleState == Declared!LifecycleState
Absent == Declared!Absent

\* The state each endpoint asks for, and the approval it leaves: an approval
\* with modifications is recorded as such.
Target == [submit |-> "READY_FOR_REVIEW", approve |-> "APPROVED", modify |-> "APPROVED",
           reject |-> "REJECTED", start |-> "EXECUTING", complete |-> "COMPLETED",
           outcome |-> "MEASURED"]
Verdicts == [approve |-> <<"APPROVED">>, modify |-> <<"MODIFIED">>, reject |-> <<"REJECTED">>,
             submit |-> <<>>, start |-> <<>>, complete |-> <<>>, outcome |-> <<>>]

ASSUME OperationsAssumption == Operations \subseteq DOMAIN Target

Existing == {p \in Plans : state[p] # Absent}

NoPlan == 0
Request == [pc : {"idle", "insert", "file", "record", "lock", "write"},
            op : Operations \cup {"none", "create"},
            plan : Plans \cup {NoPlan}, ref : Nat]
Idle == [pc |-> "idle", op |-> "none", plan |-> NoPlan, ref |-> 0]

\* Types of the rows, the row locks and the requests.
TypeOK ==
    /\ schema \in Schemas
    /\ state \in [Plans -> LifecycleState \cup {Absent}]
    /\ ref \in [Plans -> Nat]
    /\ sequence \in 1..(MaxPlans + 1)
    /\ holder \in [Plans -> Requests \cup {Free}]
    /\ approvals \in [Plans -> Seq({"APPROVED", "MODIFIED", "REJECTED"})]
    /\ outcomes \in [Plans -> 0..MaxOutcomes]
    /\ audit \in [Plans -> Seq(LifecycleState)]
    /\ request \in [Requests -> Request]
    /\ \A p \in Plans, r \in Requests :
           holder[p] = r <=> request[r].pc = "write" /\ request[r].plan = p

Init ==
    /\ schema \in Schemas
    /\ state = [p \in Plans |-> Absent]
    /\ ref = [p \in Plans |-> 0]
    /\ sequence = 1
    /\ holder = [p \in Plans |-> Free]
    /\ approvals = [p \in Plans |-> <<>>]
    /\ outcomes = [p \in Plans |-> 0]
    /\ audit = [p \in Plans |-> <<>>]
    /\ request = [r \in Requests |-> Idle]

Goto(r, to) == request' = [request EXCEPT ![r].pc = to]

\* The request ends, with an answer or with an error.
Answer(r) == request' = [request EXCEPT ![r] = Idle]

-----------------------------------------------------------------------------
(* create_plan *)

\* SELECT COALESCE(MAX(id), 0) + 1: of the rows committed so far.
next_plan_ref(n) ==
    \E m \in Existing \cup {0} : n = m + 1 /\ \A p \in Existing : p <= m

Create(r) ==
    /\ request[r].pc = "idle"
    /\ sequence <= MaxPlans
    /\ \A q \in Requests : request[q].pc = "insert" => sequence < MaxPlans
    /\ \E n \in 1..(MaxPlans + 1) :
        /\ next_plan_ref(n)
        /\ request' = [request EXCEPT ![r] =
               [pc |-> "insert", op |-> "create", plan |-> NoPlan, ref |-> n]]
    /\ UNCHANGED <<rows, sequence, holder, outcomes>>

\* The unique index on plan_ref: another transaction that inserted the same
\* reference is waited for, a committed one refuses the INSERT.
Inserting(n) == \E q \in Requests : request[q].pc = "file" /\ request[q].ref = n
Taken(n) == \E p \in Existing : ref[p] = n

\* Mutant of Insert: there is no unique index.
InsertAnyway(r) ==
    /\ request[r].pc = "insert"
    /\ sequence <= MaxPlans
    /\ sequence' = sequence + 1
    /\ request' = [request EXCEPT ![r].pc = "file", ![r].plan = sequence]
    /\ UNCHANGED <<rows, holder, outcomes>>

\* The bounds MaxPlans and MaxOutcomes make an INSERT fail, as any may.
Insert(r) ==
    /\ request[r].pc = "insert"
    /\ ~Inserting(request[r].ref)
    /\ \/ sequence > MaxPlans /\ UNCHANGED sequence /\ Answer(r)
       \/ /\ sequence <= MaxPlans
          /\ sequence' = sequence + 1
          /\ IF Taken(request[r].ref)
               THEN Answer(r)
               ELSE request' = [request EXCEPT ![r].pc = "file", ![r].plan = sequence]
    /\ UNCHANGED <<rows, holder, outcomes>>

\* Actions, audit entry and incident event, then COMMIT.
FilePlan(r) ==
    LET p == request[r].plan IN
    /\ request[r].pc = "file"
    /\ state' = [state EXCEPT ![p] = "SIMULATED"]
    /\ ref' = [ref EXCEPT ![p] = request[r].ref]
    /\ audit' = [audit EXCEPT ![p] = <<"SIMULATED">>]
    /\ Answer(r)
    /\ UNCHANGED <<schema, sequence, holder, approvals, outcomes>>

-----------------------------------------------------------------------------
(* Moving a plan *)

\* _require_plan; an outcome needs to be recorded before the plan is moved.
Require(r) ==
    /\ request[r].pc = "idle"
    /\ \E op \in Operations, p \in Plans :
        /\ op = "outcome" => outcomes[p] < MaxOutcomes
        /\ IF p \in Existing
             THEN request' = [request EXCEPT ![r] =
                      [pc |-> IF op = "outcome" THEN "record" ELSE "lock",
                       op |-> op, plan |-> p, ref |-> 0]]
             ELSE UNCHANGED request
    /\ UNCHANGED <<rows, sequence, holder, outcomes>>

\* outcome(): one row for gov.decision_outcomes, committed at once.  Its decision_id
\* is NULL, which the table of init.sql refuses.  Its foreign key waits for a
\* transaction that has the plan FOR UPDATE.
RecordOutcome(r) ==
    LET p == request[r].plan IN
    /\ request[r].pc = "record"
    /\ \/ /\ schema = "init.sql" \/ outcomes[p] = MaxOutcomes
          /\ UNCHANGED outcomes
          /\ Answer(r)
       \/ /\ schema # "init.sql"
          /\ outcomes[p] < MaxOutcomes
          /\ holder[p] = Free
          /\ outcomes' = [outcomes EXCEPT ![p] = @ + 1]
          /\ Goto(r, "lock")
    /\ UNCHANGED <<rows, sequence, holder>>

\* Mutant of LockPlan: the SELECT has no FOR UPDATE.
SelectPlan(r) ==
    LET p == request[r].plan IN
    /\ request[r].pc = "lock"
    /\ IF Declared!can_transition(state[p], Target[request[r].op])
         THEN Goto(r, "write")
         ELSE Answer(r)
    /\ UNCHANGED <<rows, sequence, holder, outcomes>>

\* transition_plan: SELECT ... FOR UPDATE, then the check; an edge the lifecycle
\* does not have raises IllegalStateTransition.
LockPlan(r) ==
    LET p == request[r].plan IN
    /\ request[r].pc = "lock"
    /\ holder[p] = Free
    /\ IF Declared!can_transition(state[p], Target[request[r].op])
         THEN holder' = [holder EXCEPT ![p] = r] /\ Goto(r, "write")
         ELSE UNCHANGED holder /\ Answer(r)
    /\ UNCHANGED <<rows, sequence, outcomes>>

\* UPDATE, approval, audit entry and incident event, then COMMIT.
MovePlan(r) ==
    LET p == request[r].plan IN
    /\ request[r].pc = "write"
    /\ state' = [state EXCEPT ![p] = Target[request[r].op]]
    /\ approvals' = [approvals EXCEPT ![p] = @ \o Verdicts[request[r].op]]
    /\ audit' = [audit EXCEPT ![p] = Append(@, Target[request[r].op])]
    /\ holder' = [holder EXCEPT ![p] = Free]
    /\ Answer(r)
    /\ UNCHANGED <<schema, ref, sequence, outcomes>>

\* Mutant of Fail: the failed transaction's connection goes back to the pool as
\* it is, its row lock with it.
FailUnrolled(r) ==
    /\ request[r].pc # "idle"
    /\ Answer(r)
    /\ UNCHANGED <<rows, sequence, holder, outcomes>>

\* Mutant of Fail: the audit entry is not part of the transaction it tells of.
FailAfterAudit(r) ==
    LET p == request[r].plan IN
    /\ request[r].pc # "idle"
    /\ holder' = [q \in Plans |-> IF holder[q] = r THEN Free ELSE holder[q]]
    /\ audit' = IF request[r].pc = "write"
                  THEN [audit EXCEPT ![p] = Append(@, Target[request[r].op])]
                  ELSE audit
    /\ Answer(r)
    /\ UNCHANGED <<schema, state, ref, approvals, sequence, outcomes>>

\* A statement, the COMMIT or the connection fails, the audit INSERT included: the
\* transaction is rolled back and the error reaches the caller.
Fail(r) ==
    /\ request[r].pc # "idle"
    /\ holder' = [p \in Plans |-> IF holder[p] = r THEN Free ELSE holder[p]]
    /\ Answer(r)
    /\ UNCHANGED <<rows, sequence, outcomes>>

-----------------------------------------------------------------------------
Proceed(r) ==
    \/ Insert(r) \/ FilePlan(r)
    \/ RecordOutcome(r) \/ LockPlan(r) \/ MovePlan(r)

Next == \E r \in Requests : Create(r) \/ Require(r) \/ Proceed(r) \/ Fail(r)

Spec == Init /\ [][Next]_vars

\* Threads are scheduled, statements end, and PostgreSQL queues the waiters for
\* a row or an index entry.  Requests and failures carry no fairness.
Fairness == \A r \in Requests : SF_vars(Proceed(r))

FairSpec == Spec /\ Fairness

-----------------------------------------------------------------------------
(* Properties *)

\* "Illegal transitions are refused, not recorded" (decision_store.py): however
\* requests on it race, a plan only takes declared edges.
ImplementsLifecycle ==
    /\ \A p \in Plans : Lifecycle(p)!Init
    /\ [][\A p \in Plans : Lifecycle(p)!Next \/ UNCHANGED state[p]]_state

\* "An audit failure fails the operation": the committed audit entries of a plan
\* are the path it took, each an edge, ending in its state.
AuditTellsState ==
    \A p \in Plans :
        IF state[p] = Absent
          THEN audit[p] = <<>>
          ELSE /\ audit[p] # <<>>
               /\ audit[p][1] = "SIMULATED"
               /\ audit[p][Len(audit[p])] = state[p]
               /\ \A n \in 1..(Len(audit[p]) - 1) :
                      Declared!can_transition(audit[p][n], audit[p][n + 1])

Verdict(p) == IF approvals[p] = <<>> THEN "none" ELSE approvals[p][Len(approvals[p])]

\* Work under way or done has an authorisation that nobody has withdrawn since,
\* and a rejected plan's last verdict is its rejection.
WorkIsAuthorised ==
    \A p \in Plans :
        /\ state[p] \in {"APPROVED", "EXECUTING", "COMPLETED", "MEASURED"}
               => Verdict(p) \in {"APPROVED", "MODIFIED"}
        /\ state[p] = "REJECTED" => Verdict(p) = "REJECTED"

\* A reference computed now is nobody's: a refused creation succeeds when it is
\* repeated, although rolled back INSERTs leave gaps between the ids.
NextReferenceFree == \A n \in 1..(MaxPlans + 1) : next_plan_ref(n) => ~Taken(n)

\* Two creations at once may compute one reference; only one keeps it.
ReferencesUnique == \A p, q \in Existing : ref[p] = ref[q] => p = q

\* The tables are well formed: rows and requests keep their types, and no two
\* plans ever carry one reference, although it is computed before the insert.
PlansWellFormed == TypeOK /\ ReferencesUnique

\* The loop is closed with evidence: a plan is measured only after an outcome of
\* it was committed.
MeasuredHasOutcome == \A p \in Plans : state[p] = "MEASURED" => outcomes[p] > 0

\* What a plan's row says is documented: the committed audit trail ends in the
\* plan's state, work that has begun was authorised by a verdict, and a plan is
\* measured only with an outcome on record.
PlansDocumented == AuditTellsState /\ WorkIsAuthorised /\ MeasuredHasOutcome

\* Every request ends, whatever transactions fail around it.
RequestsAnswered == \A r \in Requests : request[r].pc # "idle" ~> request[r].pc = "idle"

\* "Written to gov.decision_outcomes, one per plan" (docs/LEARNING_LIFECYCLE.md).
OneOutcomePerPlan == \A p \in Plans : outcomes[p] <= 1
=============================================================================
