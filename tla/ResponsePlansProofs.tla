------------------------- MODULE ResponsePlansProofs -------------------------
(***************************************************************************)
(* The decision loop for any requests, operations and schemas.             *)
(***************************************************************************)
EXTENDS ResponsePlans, TLAPS

USE RequestsAssumption, BoundsAssumption, OperationsAssumption

(* What a request knows of its plan while it works on it.                   *)
Filing(r) == request[r].pc = "file"
Moving(r) == request[r].pc \in {"record", "lock", "write"}

PlansNumbered == \A p \in Existing : p < sequence /\ ref[p] <= p

FilingIsNew ==
    \A r \in Requests : Filing(r) =>
        /\ request[r].plan \in Plans
        /\ request[r].plan < sequence
        /\ request[r].ref <= request[r].plan
        /\ state[request[r].plan] = Absent
        /\ ~Taken(request[r].ref)

FilingsDiffer ==
    \A q, r \in Requests : Filing(q) /\ Filing(r) /\ q # r =>
        request[q].plan # request[r].plan /\ request[q].ref # request[r].ref

InsertsBehind ==
    \A r \in Requests : request[r].pc = "insert" => request[r].ref <= sequence

MovingExists ==
    \A r \in Requests : Moving(r) =>
        /\ request[r].plan \in Existing
        /\ request[r].op \in Operations
        /\ request[r].pc = "record" => request[r].op = "outcome"

EvidenceFirst ==
    \A r \in Requests :
        request[r].pc \in {"lock", "write"} /\ request[r].op = "outcome"
            => outcomes[request[r].plan] > 0

WriteIsLegal ==
    \A r \in Requests : request[r].pc = "write" =>
        Declared!can_transition(state[request[r].plan], Target[request[r].op])

RequestsSound ==
    /\ FilingIsNew
    /\ FilingsDiffer
    /\ InsertsBehind
    /\ MovingExists
    /\ EvidenceFirst
    /\ WriteIsLegal

PlansSound ==
    /\ PlansNumbered
    /\ AuditTellsState
    /\ WorkIsAuthorised
    /\ ReferencesUnique
    /\ MeasuredHasOutcome

IInv == TypeOK /\ RequestsSound /\ PlansSound

-----------------------------------------------------------------------------
(* The next reference is one more than every committed id, and a plan's     *)
(* reference is never more than its id.                                     *)
LEMMA NextReference ==
    ASSUME TypeOK, PlansNumbered, NEW n \in 1..(MaxPlans + 1), next_plan_ref(n)
    PROVE  n <= sequence /\ ~Taken(n)
<1>1. PICK m \in Existing \cup {0} : n = m + 1 /\ \A p \in Existing : p <= m
  BY DEF next_plan_ref
<1>2. \A p \in Existing : p \in Nat /\ ref[p] \in Nat /\ ref[p] <= p /\ p < sequence /\ p <= m
  BY <1>1 DEF Existing, Plans, TypeOK, Request, PlansNumbered
<1>3. m \in Nat /\ sequence \in Nat /\ sequence >= 1
  BY <1>1, <1>2 DEF TypeOK, Request
<1>4. m < sequence
  BY <1>1, <1>2, <1>3
<1>5. ~Taken(n)
  BY <1>1, <1>2, <1>3 DEF Taken
<1> QED
  BY <1>1, <1>3, <1>4, <1>5

LEMMA InitInv == Init => IInv
<1> SUFFICES ASSUME Init PROVE IInv
  OBVIOUS
<1>1. TypeOK
  BY DEF Init, TypeOK, Request, Idle, NoPlan, Plans
<1>2. Existing = {}
  BY DEF Init, Existing
<1>3. RequestsSound
  BY DEF Init, Idle, RequestsSound, FilingIsNew, FilingsDiffer, InsertsBehind, MovingExists,
         EvidenceFirst, WriteIsLegal, Filing, Moving
<1>4. AuditTellsState /\ WorkIsAuthorised /\ MeasuredHasOutcome
  BY DEF Init, AuditTellsState, WorkIsAuthorised, MeasuredHasOutcome, Absent, Declared!Absent
<1> QED
  BY <1>1, <1>2, <1>3, <1>4 DEF IInv, PlansSound, PlansNumbered, ReferencesUnique

-----------------------------------------------------------------------------
(* Steps that leave the committed rows as they are keep what is said of them. *)
LEMMA RowsKept ==
    ASSUME IInv, UNCHANGED <<rows, outcomes>>, sequence' \in {sequence, sequence + 1}
    PROVE  PlansSound'
<1>1. /\ UNCHANGED <<schema, state, ref, approvals, audit>>
      /\ sequence \in Nat
  BY DEF rows, IInv, TypeOK, Request
<1>2. Existing' = Existing /\ Existing \subseteq Nat
  BY <1>1 DEF Existing, Plans
<1>3. PlansNumbered'
  BY <1>1, <1>2 DEF IInv, PlansSound, PlansNumbered
<1>4. AuditTellsState' /\ MeasuredHasOutcome'
  BY <1>1 DEF IInv, PlansSound, AuditTellsState, MeasuredHasOutcome
<1>5. WorkIsAuthorised'
  BY <1>1 DEF IInv, PlansSound, WorkIsAuthorised, Verdict
<1>6. ReferencesUnique'
  BY <1>1, <1>2 DEF IInv, PlansSound, ReferencesUnique
<1> QED
  BY <1>3, <1>4, <1>5, <1>6 DEF PlansSound

(* A request that ends leaves nothing to be said of it.                     *)
LEMMA EndingSound ==
    ASSUME IInv, NEW r \in Requests, Answer(r), UNCHANGED <<rows, outcomes>>,
           sequence' \in {sequence, sequence + 1}
    PROVE  RequestsSound'
<1>1. /\ UNCHANGED <<schema, state, ref, approvals, audit>>
      /\ sequence \in Nat
  BY DEF rows, IInv, TypeOK, Request
<1>2. Existing' = Existing /\ \A n : Taken(n)' <=> Taken(n)
  BY <1>1 DEF Existing, Taken
<1>3. /\ request'[r].pc = "idle"
      /\ \A q \in Requests : q # r => request'[q] = request[q]
  BY DEF Answer, Idle, IInv, TypeOK, Request
<1>4. \A q \in Requests : request[q].ref \in Nat /\ request[q].plan \in Nat
  BY DEF IInv, TypeOK, Request, Plans, NoPlan
<1>5. FilingIsNew'
  BY <1>1, <1>2, <1>3, <1>4 DEF IInv, RequestsSound, FilingIsNew, Filing
<1>6. FilingsDiffer'
  BY <1>1, <1>2, <1>3 DEF IInv, RequestsSound, FilingsDiffer, Filing
<1>7. InsertsBehind'
  BY <1>1, <1>2, <1>3, <1>4 DEF IInv, RequestsSound, InsertsBehind
<1>8. MovingExists'
  BY <1>1, <1>2, <1>3 DEF IInv, RequestsSound, MovingExists, Moving
<1>9. EvidenceFirst' /\ WriteIsLegal'
  BY <1>1, <1>2, <1>3 DEF IInv, RequestsSound, EvidenceFirst, WriteIsLegal, Declared!can_transition
<1> QED
  BY <1>5, <1>6, <1>7, <1>8, <1>9 DEF RequestsSound

LEMMA FailInv == ASSUME IInv, NEW r \in Requests, Fail(r) PROVE IInv'
<1>1. RequestsSound' /\ PlansSound'
  BY EndingSound, RowsKept DEF Fail
<1>2. TypeOK'
  <2>1. request' = [request EXCEPT ![r] = Idle]
    BY DEF Fail, Answer
  <2>2. holder' = [p \in Plans |-> IF holder[p] = r THEN Free ELSE holder[p]]
    BY DEF Fail
  <2>3. request' \in [Requests -> Request]
    BY <2>1 DEF IInv, TypeOK, Request, Idle
  <2>4. \A p \in Plans, q \in Requests :
           holder'[p] = q <=> request'[q].pc = "write" /\ request'[q].plan = p
    BY <2>1, <2>2 DEF IInv, TypeOK, Request, Idle
  <2>5. holder' \in [Plans -> Requests \cup {Free}]
    BY <2>2 DEF IInv, TypeOK, Request
  <2> QED
    BY <2>3, <2>4, <2>5 DEF IInv, TypeOK, Request, Fail, rows
<1> QED
  BY <1>1, <1>2 DEF IInv

LEMMA CreateInv == ASSUME IInv, NEW r \in Requests, Create(r) PROVE IInv'
<1>1. PlansSound'
  BY RowsKept DEF Create
<1>2. PICK n \in 1..(MaxPlans + 1) :
        /\ next_plan_ref(n)
        /\ request' = [request EXCEPT ![r] =
               [pc |-> "insert", op |-> "create", plan |-> NoPlan, ref |-> n]]
  BY DEF Create
<1>3. n <= sequence
  BY <1>2, NextReference DEF IInv, PlansSound
<1>4. UNCHANGED <<schema, state, ref, approvals, audit, sequence, holder, outcomes>>
  BY DEF Create, rows
<1>5. request[r].pc = "idle"
  BY DEF Create
<1>6. TypeOK'
  BY <1>2, <1>4, <1>5 DEF IInv, TypeOK, Request
<1>7. /\ request'[r].pc = "insert" /\ request'[r].ref = n
      /\ \A q \in Requests : q # r => request'[q] = request[q]
  BY <1>2 DEF IInv, TypeOK, Request
<1>8. Existing' = Existing /\ \A m : Taken(m)' <=> Taken(m)
  BY <1>4 DEF Existing, Taken
<1>9. FilingIsNew' /\ FilingsDiffer'
  BY <1>4, <1>7, <1>8 DEF IInv, RequestsSound, FilingIsNew, FilingsDiffer, Filing
<1>10. InsertsBehind'
  BY <1>3, <1>4, <1>7 DEF IInv, RequestsSound, InsertsBehind
<1>11. MovingExists' /\ EvidenceFirst' /\ WriteIsLegal'
  BY <1>4, <1>7, <1>8 DEF IInv, RequestsSound, MovingExists, EvidenceFirst, WriteIsLegal,
        Moving, Declared!can_transition
<1> QED
  BY <1>1, <1>6, <1>9, <1>10, <1>11 DEF IInv, RequestsSound

(* A request that ends after an INSERT was refused.                         *)
LEMMA EndingTyped ==
    ASSUME TypeOK, NEW r \in Requests, request[r].pc # "write", Answer(r),
           UNCHANGED <<rows, holder, outcomes>>, sequence' \in 1..(MaxPlans + 1)
    PROVE  TypeOK'
<1>1. request' = [request EXCEPT ![r] = Idle]
  BY DEF Answer
<1>2. UNCHANGED <<schema, state, ref, approvals, audit, holder, outcomes>>
  BY DEF rows
<1>3. \A p \in Plans, q \in Requests :
         holder'[p] = q <=> request'[q].pc = "write" /\ request'[q].plan = p
  BY <1>1, <1>2 DEF TypeOK, Request, Idle
<1> QED
  BY <1>1, <1>2, <1>3 DEF TypeOK, Request, Idle

LEMMA InsertInv == ASSUME IInv, NEW r \in Requests, Insert(r) PROVE IInv'
<1>1. /\ request[r].pc = "insert"
      /\ ~Inserting(request[r].ref)
      /\ UNCHANGED <<rows, holder, outcomes>>
  BY DEF Insert
<1>2. CASE Answer(r)
  <2>1. sequence' \in {sequence, sequence + 1} /\ sequence' \in 1..(MaxPlans + 1)
    BY DEF Insert, IInv, TypeOK, Request
  <2> QED
    BY <1>1, <1>2, <2>1, EndingSound, EndingTyped, RowsKept DEF IInv
<1>3. CASE /\ sequence <= MaxPlans
           /\ sequence' = sequence + 1
           /\ ~Taken(request[r].ref)
           /\ request' = [request EXCEPT ![r].pc = "file", ![r].plan = sequence]
  <2>1. UNCHANGED <<schema, state, ref, approvals, audit, holder, outcomes>>
    BY <1>1 DEF rows
  <2>2. /\ request'[r].pc = "file" /\ request'[r].plan = sequence
        /\ request'[r].ref = request[r].ref
        /\ \A q \in Requests : q # r => request'[q] = request[q]
    BY <1>3 DEF IInv, TypeOK, Request
  <2>3. /\ sequence \in Plans /\ sequence \in Nat
        /\ sequence' \in 1..(MaxPlans + 1) /\ sequence' = sequence + 1
    BY <1>3 DEF IInv, TypeOK, Request, Plans
  <2>4. TypeOK'
    <3>1. \A p \in Plans, q \in Requests :
             holder'[p] = q <=> request'[q].pc = "write" /\ request'[q].plan = p
      <4>1. \A p \in Plans, q \in Requests :
               holder[p] = q <=> request[q].pc = "write" /\ request[q].plan = p
        BY DEF IInv, TypeOK, Request
      <4> QED
        BY <1>1, <2>1, <2>2, <4>1
    <3>2. request' \in [Requests -> Request]
      <4>1. request[r] \in Request
        BY DEF IInv, TypeOK, Request
      <4>2. [request[r] EXCEPT !.pc = "file", !.plan = sequence] \in Request
        BY <2>3, <4>1 DEF Request
      <4>3. request' = [request EXCEPT ![r] =
                           [request[r] EXCEPT !.pc = "file", !.plan = sequence]]
        BY <1>3
      <4> QED
        BY <4>2, <4>3 DEF IInv, TypeOK, Request
    <3> QED
      BY <2>1, <2>3, <3>1, <3>2 DEF IInv, TypeOK, Request
  <2>5. Existing' = Existing /\ \A m : Taken(m)' <=> Taken(m)
    BY <2>1 DEF Existing, Taken
  <2>6. \A q \in Requests : request[q].ref \in Nat /\ request[q].plan \in Nat
    BY DEF IInv, TypeOK, Request, Plans, NoPlan
  <2>7. request[r].ref <= sequence
    BY <1>1 DEF IInv, RequestsSound, InsertsBehind
  <2>8. state[sequence] = Absent
    BY <2>3 DEF IInv, PlansSound, PlansNumbered, Existing
  <2>9. FilingIsNew'
    <3>1. ~Taken(request[r].ref)
      BY <1>3
    <3>2. ASSUME NEW q \in Requests, Filing(q)'
          PROVE  /\ request'[q].plan \in Plans
                 /\ request'[q].plan < sequence'
                 /\ request'[q].ref <= request'[q].plan
                 /\ state'[request'[q].plan] = Absent
                 /\ ~Taken(request'[q].ref)
      <4>1. CASE q = r
        BY <2>1, <2>2, <2>3, <2>6, <2>7, <2>8, <3>1, <4>1
      <4>2. CASE q # r
        <5>1. Filing(q) /\ request'[q] = request[q]
          BY <2>2, <3>2, <4>2 DEF Filing
        <5> QED
          BY <2>1, <2>3, <2>6, <5>1 DEF IInv, RequestsSound, FilingIsNew
      <4> QED
        BY <4>1, <4>2
    <3> QED
      BY <2>5, <3>2 DEF FilingIsNew
  <2>10. FilingsDiffer'
    BY <1>1, <2>2, <2>3, <2>6
    DEF IInv, RequestsSound, FilingIsNew, FilingsDiffer, Filing, Inserting
  <2>11. InsertsBehind'
    BY <2>2, <2>3, <2>6 DEF IInv, RequestsSound, InsertsBehind
  <2>12. MovingExists' /\ EvidenceFirst' /\ WriteIsLegal'
    BY <2>1, <2>2, <2>5 DEF IInv, RequestsSound, MovingExists, EvidenceFirst, WriteIsLegal,
          Moving, Declared!can_transition
  <2>13. PlansSound'
    BY <1>1, <1>3, RowsKept
  <2> QED
    BY <2>4, <2>9, <2>10, <2>11, <2>12, <2>13 DEF IInv, RequestsSound
<1> QED
  BY <1>2, <1>3 DEF Insert

LEMMA RequireInv == ASSUME IInv, NEW r \in Requests, Require(r) PROVE IInv'
<1>1. /\ request[r].pc = "idle"
      /\ UNCHANGED <<rows, sequence, holder, outcomes>>
  BY DEF Require
<1>2. UNCHANGED <<schema, state, ref, approvals, audit, sequence, holder, outcomes>>
  BY <1>1 DEF rows
<1>3. PICK op \in Operations, p \in Plans :
        IF p \in Existing
          THEN request' = [request EXCEPT ![r] =
                   [pc |-> IF op = "outcome" THEN "record" ELSE "lock",
                    op |-> op, plan |-> p, ref |-> 0]]
          ELSE UNCHANGED request
  BY DEF Require
<1>4. PlansSound'
  BY <1>1, RowsKept
<1>5. Existing' = Existing /\ \A m : Taken(m)' <=> Taken(m)
  BY <1>2 DEF Existing, Taken
<1>6. CASE UNCHANGED request
  <2>1. TypeOK'
    BY <1>2, <1>6 DEF IInv, TypeOK, Request
  <2>2. RequestsSound'
    BY <1>2, <1>5, <1>6 DEF IInv, RequestsSound, FilingIsNew, FilingsDiffer, InsertsBehind,
          MovingExists, EvidenceFirst, WriteIsLegal, Filing, Moving, Declared!can_transition
  <2> QED
    BY <1>4, <2>1, <2>2 DEF IInv
<1>7. CASE /\ p \in Existing
           /\ request' = [request EXCEPT ![r] =
                  [pc |-> IF op = "outcome" THEN "record" ELSE "lock",
                   op |-> op, plan |-> p, ref |-> 0]]
  <2>1. /\ request'[r].pc = IF op = "outcome" THEN "record" ELSE "lock"
        /\ request'[r].op = op /\ request'[r].plan = p
        /\ \A q \in Requests : q # r => request'[q] = request[q]
    BY <1>7 DEF IInv, TypeOK, Request
  <2>2. TypeOK'
    <3>1. \A x \in Plans, q \in Requests :
             holder'[x] = q <=> request'[q].pc = "write" /\ request'[q].plan = x
      <4>1. \A x \in Plans, q \in Requests :
               holder[x] = q <=> request[q].pc = "write" /\ request[q].plan = x
        BY DEF IInv, TypeOK, Request
      <4> QED
        BY <1>1, <1>2, <2>1, <4>1
    <3> QED
      BY <1>2, <1>7, <3>1 DEF IInv, TypeOK, Request
  <2>3. FilingIsNew' /\ FilingsDiffer' /\ InsertsBehind'
    BY <1>2, <1>5, <2>1 DEF IInv, RequestsSound, FilingIsNew, FilingsDiffer, InsertsBehind, Filing
  <2>4. MovingExists' /\ EvidenceFirst' /\ WriteIsLegal'
    BY <1>2, <1>5, <1>7, <2>1 DEF IInv, RequestsSound, MovingExists, EvidenceFirst, WriteIsLegal,
          Moving, Declared!can_transition
  <2> QED
    BY <1>4, <2>2, <2>3, <2>4 DEF IInv, RequestsSound
<1> QED
  BY <1>3, <1>6, <1>7

LEMMA GotoTyped ==
    ASSUME request \in [Requests -> Request], NEW r \in Requests,
           NEW to \in {"lock", "write"}, Goto(r, to)
    PROVE  request' \in [Requests -> Request]
<1>1. [request[r] EXCEPT !.pc = to] \in Request
  BY DEF Request
<1>2. request' = [request EXCEPT ![r] = [request[r] EXCEPT !.pc = to]]
  BY DEF Goto
<1> QED
  BY <1>1, <1>2

(* The request goes on with the plan it has; the committed rows stay.       *)
LEMMA GoingSound ==
    ASSUME IInv, NEW r \in Requests, NEW to \in {"lock", "write"}, Goto(r, to),
           request[r].pc \in {"record", "lock"},
           UNCHANGED <<rows, sequence>>,
           \A p \in Plans : outcomes'[p] >= outcomes[p] /\ outcomes'[p] \in Nat,
           request[r].op = "outcome" => outcomes'[request[r].plan] > 0,
           to = "write" => Declared!can_transition(state[request[r].plan], Target[request[r].op])
    PROVE  RequestsSound'
<1>1. UNCHANGED <<schema, state, ref, approvals, audit, sequence>>
  BY DEF rows
<1>2. /\ request'[r].pc = to /\ request'[r].plan = request[r].plan
      /\ request'[r].op = request[r].op
      /\ \A q \in Requests : q # r => request'[q] = request[q]
  BY DEF Goto, IInv, TypeOK, Request
<1>3. Existing' = Existing /\ \A m : Taken(m)' <=> Taken(m)
  BY <1>1 DEF Existing, Taken
<1>4. FilingIsNew' /\ FilingsDiffer' /\ InsertsBehind'
  BY <1>1, <1>2, <1>3 DEF IInv, RequestsSound, FilingIsNew, FilingsDiffer, InsertsBehind, Filing
<1>5. MovingExists'
  BY <1>1, <1>2, <1>3 DEF IInv, RequestsSound, MovingExists, Moving
<1>6. EvidenceFirst'
  <2>1. \A p \in Plans : outcomes[p] \in Nat
    BY DEF IInv, TypeOK, Request
  <2>2. \A q \in Requests : Moving(q) => request[q].plan \in Plans
    BY DEF IInv, RequestsSound, MovingExists, Existing
  <2> QED
    BY <1>2, <2>1, <2>2 DEF IInv, RequestsSound, EvidenceFirst, Moving
<1>7. WriteIsLegal'
  BY <1>1, <1>2 DEF IInv, RequestsSound, WriteIsLegal, Declared!can_transition
<1> QED
  BY <1>4, <1>5, <1>6, <1>7 DEF RequestsSound

LEMMA RecordInv == ASSUME IInv, NEW r \in Requests, RecordOutcome(r) PROVE IInv'
<1> DEFINE p == request[r].plan
<1>1. /\ request[r].pc = "record"
      /\ UNCHANGED <<rows, sequence, holder>>
  BY DEF RecordOutcome
<1>2. UNCHANGED <<schema, state, ref, approvals, audit, sequence, holder>>
  BY <1>1 DEF rows
<1>3. p \in Plans /\ request[r].op = "outcome"
  BY <1>1 DEF IInv, RequestsSound, MovingExists, Moving, Existing
<1>4. CASE UNCHANGED outcomes /\ Answer(r)
  <2>1. sequence' \in {sequence, sequence + 1} /\ sequence' \in 1..(MaxPlans + 1)
    BY <1>1 DEF IInv, TypeOK, Request
  <2> QED
    BY <1>1, <1>4, <2>1, EndingSound, EndingTyped, RowsKept DEF IInv
<1>5. CASE /\ outcomes[p] < MaxOutcomes
           /\ outcomes' = [outcomes EXCEPT ![p] = @ + 1]
           /\ Goto(r, "lock")
  <2>1. outcomes \in [Plans -> 0..MaxOutcomes]
    BY DEF IInv, TypeOK, Request
  <2>2. /\ outcomes' \in [Plans -> 0..MaxOutcomes]
        /\ \A q \in Plans : outcomes'[q] >= outcomes[q] /\ outcomes'[q] \in Nat
        /\ outcomes'[p] > 0
    BY <1>3, <1>5, <2>1
  <2>3. RequestsSound'
    BY <1>1, <1>5, <2>2, GoingSound
  <2>4. TypeOK'
    <3>1. /\ request'[r].pc = "lock"
          /\ \A q \in Requests : q # r => request'[q] = request[q]
      BY <1>5 DEF Goto, IInv, TypeOK, Request
    <3>2. \A x \in Plans, q \in Requests :
             holder'[x] = q <=> request'[q].pc = "write" /\ request'[q].plan = x
      <4>1. \A x \in Plans, q \in Requests :
               holder[x] = q <=> request[q].pc = "write" /\ request[q].plan = x
        BY DEF IInv, TypeOK, Request
      <4> QED
        BY <1>1, <1>2, <3>1, <4>1
    <3>3. request' \in [Requests -> Request]
      BY <1>5, GotoTyped DEF IInv, TypeOK
    <3> QED
      BY <1>2, <2>2, <3>2, <3>3 DEF IInv, TypeOK
  <2>5. PlansSound'
    <3>1. Existing' = Existing
      BY <1>2 DEF Existing
    <3>2. PlansNumbered' /\ ReferencesUnique'
      BY <1>2, <3>1 DEF IInv, PlansSound, PlansNumbered, ReferencesUnique
    <3>3. AuditTellsState' /\ WorkIsAuthorised'
      BY <1>2 DEF IInv, PlansSound, AuditTellsState, WorkIsAuthorised, Verdict
    <3>4. MeasuredHasOutcome'
      BY <1>2, <2>1, <2>2 DEF IInv, PlansSound, MeasuredHasOutcome
    <3> QED
      BY <3>2, <3>3, <3>4 DEF PlansSound
  <2> QED
    BY <2>3, <2>4, <2>5 DEF IInv
<1> QED
  BY <1>4, <1>5 DEF RecordOutcome

LEMMA LockInv == ASSUME IInv, NEW r \in Requests, LockPlan(r) PROVE IInv'
<1> DEFINE p == request[r].plan
<1>1. /\ request[r].pc = "lock"
      /\ UNCHANGED <<rows, sequence, outcomes>>
  BY DEF LockPlan
<1>2. UNCHANGED <<schema, state, ref, approvals, audit, sequence, outcomes>>
  BY <1>1 DEF rows
<1>3. p \in Plans /\ holder[p] = Free
  BY <1>1 DEF LockPlan, IInv, RequestsSound, MovingExists, Moving, Existing
<1>4. PlansSound'
  BY <1>1, RowsKept
<1>5. CASE UNCHANGED holder /\ Answer(r)
  <2>1. sequence' \in {sequence, sequence + 1} /\ sequence' \in 1..(MaxPlans + 1)
    BY <1>1 DEF IInv, TypeOK, Request
  <2> QED
    BY <1>1, <1>4, <1>5, <2>1, EndingSound, EndingTyped DEF IInv
<1>6. CASE /\ Declared!can_transition(state[p], Target[request[r].op])
           /\ holder' = [holder EXCEPT ![p] = r]
           /\ Goto(r, "write")
  <2>1. RequestsSound'
    <3>1. \A x \in Plans : outcomes'[x] >= outcomes[x] /\ outcomes'[x] \in Nat
      BY <1>2 DEF IInv, TypeOK, Request
    <3>2. request[r].op = "outcome" => outcomes'[p] > 0
      BY <1>1, <1>2 DEF IInv, RequestsSound, EvidenceFirst
    <3> QED
      BY <1>1, <1>6, <3>1, <3>2, GoingSound
  <2>2. TypeOK'
    <3>1. /\ request'[r].pc = "write" /\ request'[r].plan = p
          /\ \A q \in Requests : q # r => request'[q] = request[q]
      BY <1>6 DEF Goto, IInv, TypeOK, Request
    <3>2. \A x \in Plans, q \in Requests :
             holder'[x] = q <=> request'[q].pc = "write" /\ request'[q].plan = x
      <4>1. /\ holder \in [Plans -> Requests \cup {Free}]
            /\ \A x \in Plans, q \in Requests :
                   holder[x] = q <=> request[q].pc = "write" /\ request[q].plan = x
        BY DEF IInv, TypeOK, Request
      <4> HIDE DEF p
      <4> QED
        BY <1>1, <1>3, <1>6, <3>1, <4>1
    <3>3. request' \in [Requests -> Request] /\ holder' \in [Plans -> Requests \cup {Free}]
      BY <1>6, GotoTyped DEF IInv, TypeOK
    <3> QED
      BY <1>2, <3>2, <3>3 DEF IInv, TypeOK
  <2> QED
    BY <1>4, <2>1, <2>2 DEF IInv
<1> QED
  BY <1>3, <1>5, <1>6 DEF LockPlan

(* The creation commits.                                                    *)
LEMMA FilePlanInv == ASSUME IInv, NEW r \in Requests, FilePlan(r) PROVE IInv'
<1> DEFINE p == request[r].plan
           n == request[r].ref
<1>1. /\ request[r].pc = "file"
      /\ state' = [state EXCEPT ![p] = "SIMULATED"]
      /\ ref' = [ref EXCEPT ![p] = n]
      /\ audit' = [audit EXCEPT ![p] = <<"SIMULATED">>]
      /\ request' = [request EXCEPT ![r] = Idle]
      /\ UNCHANGED <<schema, sequence, holder, approvals, outcomes>>
  BY DEF FilePlan, Answer
<1>2. /\ p \in Plans /\ p < sequence /\ n <= p
      /\ state[p] = Absent /\ ~Taken(n)
  BY <1>1 DEF IInv, RequestsSound, FilingIsNew, Filing
<1>3. /\ n \in Nat
      /\ state \in [Plans -> LifecycleState \cup {Absent}]
      /\ ref \in [Plans -> Nat]
      /\ audit \in [Plans -> Seq(LifecycleState)]
      /\ outcomes \in [Plans -> 0..MaxOutcomes]
  BY DEF IInv, TypeOK, Request
<1>4. /\ request'[r] = Idle
      /\ \A q \in Requests : q # r => request'[q] = request[q]
  BY <1>1 DEF IInv, TypeOK
<1> HIDE DEF p, n
<1>5. "SIMULATED" \in LifecycleState /\ "SIMULATED" # Absent
  BY DEF LifecycleState, Declared!LifecycleState, Absent, Declared!Absent
<1>6. Existing' = Existing \cup {p} /\ p \notin Existing
  BY <1>1, <1>2, <1>3, <1>5 DEF Existing
<1>7. \A m : Taken(m)' <=> Taken(m) \/ m = n
  BY <1>1, <1>2, <1>3, <1>6 DEF Taken, Existing
<1>8. TypeOK'
  <2>1. \A x \in Plans, q \in Requests :
           holder'[x] = q <=> request'[q].pc = "write" /\ request'[q].plan = x
    <3>1. \A x \in Plans, q \in Requests :
             holder[x] = q <=> request[q].pc = "write" /\ request[q].plan = x
      BY DEF IInv, TypeOK
    <3> QED
      BY <1>1, <1>4, <3>1 DEF Idle
  <2>2. request' \in [Requests -> Request]
    BY <1>1 DEF IInv, TypeOK, Request, Idle
  <2>3. /\ state' \in [Plans -> LifecycleState \cup {Absent}]
        /\ ref' \in [Plans -> Nat]
        /\ audit' \in [Plans -> Seq(LifecycleState)]
    BY <1>1, <1>2, <1>3, <1>5
  <2> QED
    BY <1>1, <2>1, <2>2, <2>3 DEF IInv, TypeOK
<1>9. RequestsSound'
  <2>1. \A q \in Requests : q # r /\ Filing(q) =>
            request[q].plan # p /\ request[q].ref # n
    BY <1>1 DEF IInv, RequestsSound, FilingsDiffer, Filing, p, n
  <2>2. FilingIsNew'
    BY <1>1, <1>2, <1>3, <1>4, <1>7, <2>1
    DEF IInv, RequestsSound, FilingIsNew, Filing, Idle
  <2>3. FilingsDiffer' /\ InsertsBehind'
    BY <1>1, <1>4 DEF IInv, RequestsSound, FilingsDiffer, InsertsBehind, Filing, Idle
  <2>4. MovingExists' /\ EvidenceFirst'
    BY <1>1, <1>4, <1>6
    DEF IInv, RequestsSound, MovingExists, EvidenceFirst, Moving, Idle
  <2>5. WriteIsLegal'
    <3>1. \A q \in Requests : request'[q].pc = "write" =>
              request'[q] = request[q] /\ request[q].plan \in Existing
      BY <1>4 DEF IInv, RequestsSound, MovingExists, Moving, Idle
    <3>2. \A x \in Existing : state'[x] = state[x]
      BY <1>1, <1>3, <1>6 DEF Existing
    <3> QED
      BY <3>1, <3>2 DEF IInv, RequestsSound, WriteIsLegal, Declared!can_transition
  <2> QED
    BY <2>2, <2>3, <2>4, <2>5 DEF RequestsSound
<1>10. PlansSound'
  <2>1. PlansNumbered'
    BY <1>1, <1>2, <1>3, <1>6 DEF IInv, PlansSound, PlansNumbered, Existing
  <2>2. AuditTellsState'
    BY <1>1, <1>2, <1>3, <1>5 DEF IInv, PlansSound, AuditTellsState, Declared!can_transition
  <2>3. WorkIsAuthorised' /\ MeasuredHasOutcome'
    BY <1>1, <1>2, <1>3
    DEF IInv, PlansSound, WorkIsAuthorised, Verdict, MeasuredHasOutcome
  <2>4. ReferencesUnique'
    <3>1. \A x \in Existing : ref'[x] = ref[x] /\ ref[x] # n
      BY <1>1, <1>2, <1>3, <1>6 DEF Taken, Existing
    <3>2. ref'[p] = n
      BY <1>1, <1>2, <1>3
    <3> QED
      BY <1>6, <3>1, <3>2 DEF IInv, PlansSound, ReferencesUnique
  <2> QED
    BY <2>1, <2>2, <2>3, <2>4 DEF PlansSound
<1> QED
  BY <1>8, <1>9, <1>10 DEF IInv

(* What each edge says of the states it joins.                              *)
LEMMA Edges ==
    ASSUME NEW s \in LifecycleState \cup {Absent}, s # Absent, NEW op \in Operations,
           Declared!can_transition(s, Target[op])
    PROVE  /\ Target[op] \in LifecycleState /\ Target[op] # Absent
           /\ Target[op] = "APPROVED" => op \in {"approve", "modify"}
           /\ Target[op] = "REJECTED" <=> op = "reject"
           /\ Target[op] = "EXECUTING" => op = "start" /\ s = "APPROVED"
           /\ Target[op] = "COMPLETED" => op = "complete" /\ s = "EXECUTING"
           /\ Target[op] = "MEASURED" => op = "outcome" /\ s = "COMPLETED"
<1>1. op \in {"submit", "approve", "modify", "reject", "start", "complete", "outcome"}
  BY DEF Target
<1>2. s \in Declared!LifecycleState
  BY DEF LifecycleState
<1> QED
  BY <1>1, <1>2 DEF Target, LifecycleState, Absent, Declared!LifecycleState, Declared!Absent,
                    Declared!can_transition, Declared!TRANSITIONS

(* An audit trail grows by an edge.                                         *)
LEMMA TrailExtended ==
    ASSUME NEW s \in Seq(LifecycleState), s # <<>>, NEW t \in LifecycleState,
           s[1] = "SIMULATED", Declared!can_transition(s[Len(s)], t),
           \A n \in 1..(Len(s) - 1) : Declared!can_transition(s[n], s[n + 1])
    PROVE  LET u == Append(s, t) IN
           /\ u \in Seq(LifecycleState) /\ u # <<>>
           /\ u[1] = "SIMULATED" /\ u[Len(u)] = t
           /\ \A n \in 1..(Len(u) - 1) : Declared!can_transition(u[n], u[n + 1])
<1> DEFINE u == Append(s, t)
<1>1. /\ Len(s) \in Nat /\ Len(s) > 0
      /\ u \in Seq(LifecycleState) /\ Len(u) = Len(s) + 1
      /\ u[Len(s) + 1] = t
      /\ \A n \in 1..Len(s) : u[n] = s[n]
  OBVIOUS
<1>2. ASSUME NEW n \in 1..(Len(u) - 1)
      PROVE  Declared!can_transition(u[n], u[n + 1])
  <2> HIDE DEF u
  <2>1. CASE n = Len(s)
    BY <1>1, <2>1 DEF Declared!can_transition
  <2>2. CASE n # Len(s)
    <3>1. n \in 1..(Len(s) - 1) /\ n \in 1..Len(s) /\ n + 1 \in 1..Len(s)
      BY <1>1, <2>2
    <3> QED
      BY <1>1, <3>1 DEF Declared!can_transition
  <2> QED
    BY <2>1, <2>2
<1>3. u # <<>> /\ u[1] = "SIMULATED" /\ u[Len(u)] = t
  BY <1>1
<1> QED
  BY <1>1, <1>2, <1>3

(* The last verdict after a request added its own.                          *)
LEMMA VerdictAdded ==
    ASSUME NEW s \in Seq({"APPROVED", "MODIFIED", "REJECTED"}), NEW op \in Operations
    PROVE  LET u == s \o Verdicts[op] IN
           /\ u \in Seq({"APPROVED", "MODIFIED", "REJECTED"})
           /\ op = "approve" => u # <<>> /\ u[Len(u)] = "APPROVED"
           /\ op = "modify" => u # <<>> /\ u[Len(u)] = "MODIFIED"
           /\ op = "reject" => u # <<>> /\ u[Len(u)] = "REJECTED"
           /\ op \notin {"approve", "modify", "reject"} => u = s
<1>1. op \in {"submit", "approve", "modify", "reject", "start", "complete", "outcome"}
  BY DEF Target
<1>2. ASSUME NEW v \in {"APPROVED", "MODIFIED", "REJECTED"}
      PROVE  LET u == s \o <<v>> IN
             /\ u \in Seq({"APPROVED", "MODIFIED", "REJECTED"})
             /\ u # <<>> /\ u[Len(u)] = v
  OBVIOUS
<1>3. CASE op = "approve"
  BY <1>2, <1>3 DEF Verdicts
<1>4. CASE op = "modify"
  BY <1>2, <1>4 DEF Verdicts
<1>5. CASE op = "reject"
  BY <1>2, <1>5 DEF Verdicts
<1>6. CASE op \in {"submit", "start", "complete", "outcome"}
  <2>1. Verdicts[op] = <<>>
    BY <1>6 DEF Verdicts
  <2>2. s \o <<>> = s
    OBVIOUS
  <2> QED
    BY <1>6, <2>1, <2>2
<1> QED
  BY <1>1, <1>3, <1>4, <1>5, <1>6

(* The transition commits.                                                  *)
LEMMA MovePlanInv == ASSUME IInv, NEW r \in Requests, MovePlan(r) PROVE IInv'
<1> DEFINE p == request[r].plan
           op == request[r].op
           t == Target[op]
<1>1. /\ request[r].pc = "write"
      /\ state' = [state EXCEPT ![p] = t]
      /\ approvals' = [approvals EXCEPT ![p] = approvals[p] \o Verdicts[op]]
      /\ audit' = [audit EXCEPT ![p] = Append(audit[p], t)]
      /\ holder' = [holder EXCEPT ![p] = Free]
      /\ request' = [request EXCEPT ![r] = Idle]
      /\ UNCHANGED <<schema, ref, sequence, outcomes>>
  BY DEF MovePlan, Answer
<1>2. /\ p \in Existing /\ p \in Plans /\ state[p] # Absent
      /\ op \in Operations
      /\ Declared!can_transition(state[p], t)
      /\ op = "outcome" => outcomes[p] > 0
  BY <1>1 DEF IInv, RequestsSound, MovingExists, Moving, EvidenceFirst, WriteIsLegal, Existing
<1>3. /\ state \in [Plans -> LifecycleState \cup {Absent}]
      /\ approvals \in [Plans -> Seq({"APPROVED", "MODIFIED", "REJECTED"})]
      /\ audit \in [Plans -> Seq(LifecycleState)]
      /\ holder \in [Plans -> Requests \cup {Free}]
      /\ request \in [Requests -> Request]
      /\ \A x \in Plans, q \in Requests :
             holder[x] = q <=> request[q].pc = "write" /\ request[q].plan = x
  BY DEF IInv, TypeOK
<1>4. /\ request'[r] = Idle
      /\ \A q \in Requests : q # r => request'[q] = request[q]
  BY <1>1, <1>3
<1>5. /\ t \in LifecycleState /\ t # Absent
      /\ t = "APPROVED" => op \in {"approve", "modify"}
      /\ t = "REJECTED" <=> op = "reject"
      /\ t = "EXECUTING" => op = "start" /\ state[p] = "APPROVED"
      /\ t = "COMPLETED" => op = "complete" /\ state[p] = "EXECUTING"
      /\ t = "MEASURED" => op = "outcome" /\ state[p] = "COMPLETED"
  BY <1>2, <1>3, Edges
<1>6. holder[p] = r
  BY <1>1, <1>2, <1>3
<1> HIDE DEF p, op, t
<1>7. Existing' = Existing
  BY <1>1, <1>2, <1>3, <1>5 DEF Existing
<1>8. \A m : Taken(m)' <=> Taken(m)
  BY <1>1, <1>7 DEF Taken
<1>9. TypeOK'
  <2>1. \A x \in Plans, q \in Requests :
           holder'[x] = q <=> request'[q].pc = "write" /\ request'[q].plan = x
    BY <1>1, <1>2, <1>3, <1>4, <1>6 DEF Idle
  <2>2. request' \in [Requests -> Request]
    BY <1>1, <1>3 DEF Request, Idle
  <2>3. /\ state' \in [Plans -> LifecycleState \cup {Absent}]
        /\ holder' \in [Plans -> Requests \cup {Free}]
    BY <1>1, <1>3, <1>5
  <2>4. audit' \in [Plans -> Seq(LifecycleState)]
    BY <1>1, <1>2, <1>3, <1>5
  <2>5. approvals' \in [Plans -> Seq({"APPROVED", "MODIFIED", "REJECTED"})]
    BY <1>1, <1>2, <1>3, VerdictAdded
  <2> QED
    BY <1>1, <2>1, <2>2, <2>3, <2>4, <2>5 DEF IInv, TypeOK
<1>10. RequestsSound'
  <2>1. FilingIsNew' /\ FilingsDiffer' /\ InsertsBehind'
    <3>1. \A x \in Plans : state[x] = Absent => state'[x] = Absent
      BY <1>1, <1>2, <1>3
    <3> QED
      BY <1>1, <1>4, <1>8, <3>1
      DEF IInv, RequestsSound, FilingIsNew, FilingsDiffer, InsertsBehind, Filing, Idle
  <2>2. MovingExists' /\ EvidenceFirst'
    BY <1>1, <1>4, <1>7 DEF IInv, RequestsSound, MovingExists, EvidenceFirst, Moving, Idle
  <2>3. WriteIsLegal'
    <3>1. \A q \in Requests : request'[q].pc = "write" =>
              /\ request'[q] = request[q]
              /\ request[q].plan \in Plans /\ request[q].plan # p
      BY <1>3, <1>4, <1>6 DEF IInv, RequestsSound, MovingExists, Moving, Existing, Idle
    <3>2. \A x \in Plans : x # p => state'[x] = state[x]
      BY <1>1, <1>3
    <3> QED
      BY <3>1, <3>2 DEF IInv, RequestsSound, WriteIsLegal, Declared!can_transition
  <2> QED
    BY <2>1, <2>2, <2>3 DEF RequestsSound
<1>11. PlansSound'
  <2>1. PlansNumbered' /\ ReferencesUnique'
    BY <1>1, <1>7 DEF IInv, PlansSound, PlansNumbered, ReferencesUnique
  <2>2. AuditTellsState'
    <3>1. /\ audit[p] \in Seq(LifecycleState) /\ audit[p] # <<>> /\ audit[p][1] = "SIMULATED"
          /\ audit[p][Len(audit[p])] = state[p]
          /\ \A n \in 1..(Len(audit[p]) - 1) :
                 Declared!can_transition(audit[p][n], audit[p][n + 1])
      BY <1>2, <1>3 DEF IInv, PlansSound, AuditTellsState
    <3>2. Declared!can_transition(audit[p][Len(audit[p])], t)
      BY <1>2, <3>1
    <3>3. /\ audit'[p] = Append(audit[p], t) /\ state'[p] = t
          /\ \A x \in Plans : x # p => audit'[x] = audit[x] /\ state'[x] = state[x]
      BY <1>1, <1>2, <1>3
    <3>4. /\ audit'[p] # <<>> /\ audit'[p][1] = "SIMULATED"
          /\ audit'[p][Len(audit'[p])] = t
          /\ \A n \in 1..(Len(audit'[p]) - 1) :
                 Declared!can_transition(audit'[p][n], audit'[p][n + 1])
      BY <1>5, <3>1, <3>2, <3>3, TrailExtended
    <3> QED
      BY <1>5, <3>3, <3>4 DEF IInv, PlansSound, AuditTellsState, Declared!can_transition
  <2>3. WorkIsAuthorised'
    <3>1. /\ approvals'[p] = approvals[p] \o Verdicts[op] /\ state'[p] = t
          /\ \A x \in Plans : x # p => approvals'[x] = approvals[x] /\ state'[x] = state[x]
      BY <1>1, <1>2, <1>3
    <3>2. ASSUME NEW x \in Plans, x = p
          PROVE  /\ op = "approve" => Verdict(x)' = "APPROVED"
                 /\ op = "modify" => Verdict(x)' = "MODIFIED"
                 /\ op = "reject" => Verdict(x)' = "REJECTED"
                 /\ op \notin {"approve", "modify", "reject"} => Verdict(x)' = Verdict(x)
      <4>1. approvals[x] \in Seq({"APPROVED", "MODIFIED", "REJECTED"})
        BY <1>3
      <4>2. approvals'[x] = approvals[x] \o Verdicts[op]
        BY <3>1, <3>2
      <4>3. \A s \in Seq({"APPROVED", "MODIFIED", "REJECTED"}) :
               LET u == s \o Verdicts[op] IN
               /\ op = "approve" => u # <<>> /\ u[Len(u)] = "APPROVED"
               /\ op = "modify" => u # <<>> /\ u[Len(u)] = "MODIFIED"
               /\ op = "reject" => u # <<>> /\ u[Len(u)] = "REJECTED"
               /\ op \notin {"approve", "modify", "reject"} => u = s
        BY <1>2, VerdictAdded
      <4>4. /\ op = "approve" => approvals'[x] # <<>> /\ approvals'[x][Len(approvals'[x])] = "APPROVED"
            /\ op = "modify" => approvals'[x] # <<>> /\ approvals'[x][Len(approvals'[x])] = "MODIFIED"
            /\ op = "reject" => approvals'[x] # <<>> /\ approvals'[x][Len(approvals'[x])] = "REJECTED"
            /\ op \notin {"approve", "modify", "reject"} => approvals'[x] = approvals[x]
        BY <4>1, <4>2, <4>3
      <4> QED
        BY <4>4 DEF Verdict
    <3>3. \A x \in Plans : x # p => Verdict(x)' = Verdict(x)
      BY <3>1 DEF Verdict
    <3>4. \A x \in Plans :
             /\ state[x] \in {"APPROVED", "EXECUTING", "COMPLETED", "MEASURED"}
                    => Verdict(x) \in {"APPROVED", "MODIFIED"}
             /\ state[x] = "REJECTED" => Verdict(x) = "REJECTED"
      BY DEF IInv, PlansSound, WorkIsAuthorised
    <3>5. ASSUME NEW x \in Plans
          PROVE  /\ state'[x] \in {"APPROVED", "EXECUTING", "COMPLETED", "MEASURED"}
                        => Verdict(x)' \in {"APPROVED", "MODIFIED"}
                 /\ state'[x] = "REJECTED" => Verdict(x)' = "REJECTED"
      <4>1. CASE x = p
        BY <1>5, <3>1, <3>2, <3>4, <4>1
      <4>2. CASE x # p
        BY <3>1, <3>3, <3>4, <4>2
      <4> QED
        BY <4>1, <4>2
    <3> QED
      BY <3>5 DEF WorkIsAuthorised
  <2>4. MeasuredHasOutcome'
    BY <1>1, <1>2, <1>3, <1>5 DEF IInv, PlansSound, MeasuredHasOutcome
  <2> QED
    BY <2>1, <2>2, <2>3, <2>4 DEF PlansSound
<1> QED
  BY <1>9, <1>10, <1>11 DEF IInv

-----------------------------------------------------------------------------
LEMMA NextInv == IInv /\ [Next]_vars => IInv'
<1> SUFFICES ASSUME IInv, [Next]_vars PROVE IInv'
  OBVIOUS
<1>1. CASE UNCHANGED vars
  <2>1. UNCHANGED <<schema, state, ref, sequence, holder, approvals, outcomes, audit, request>>
    BY <1>1 DEF vars
  <2>2. TypeOK'
    BY <2>1 DEF IInv, TypeOK
  <2>3. PlansSound'
    <3>1. sequence' \in {sequence, sequence + 1} /\ UNCHANGED <<rows, outcomes>>
      BY <2>1 DEF rows
    <3> QED
      BY <3>1, RowsKept
  <2>4. Existing' = Existing /\ \A m : Taken(m)' <=> Taken(m)
    BY <2>1 DEF Existing, Taken
  <2>5. RequestsSound'
    BY <2>1, <2>4 DEF IInv, RequestsSound, FilingIsNew, FilingsDiffer, InsertsBehind,
          MovingExists, EvidenceFirst, WriteIsLegal, Filing, Moving, Declared!can_transition
  <2> QED
    BY <2>2, <2>3, <2>5 DEF IInv
<1>2. CASE Next
  BY <1>2, CreateInv, RequireInv, InsertInv, FilePlanInv, RecordInv, LockInv, MovePlanInv, FailInv
  DEF Next, Proceed
<1> QED
  BY <1>1, <1>2

LEMMA Invariant == Spec => []IInv
<1>1. Init => IInv
  BY InitInv
<1>2. IInv /\ [Next]_vars => IInv'
  BY NextInv
<1> QED
  BY <1>1, <1>2, PTL DEF Spec

(* Requests, plans, locks and logs are well typed, and a plan's row is held *)
(* exactly by the request that is writing it.                               *)
THEOREM TypeCorrect == Spec => []TypeOK
<1>1. IInv => TypeOK
  BY DEF IInv
<1> QED
  BY <1>1, Invariant, PTL

(* The audit entries and the state of a plan are committed together: they   *)
(* always spell out a path of declared edges that ends in the state.        *)
THEOREM AuditTrail == Spec => []AuditTellsState
<1>1. IInv => AuditTellsState
  BY DEF IInv, PlansSound
<1> QED
  BY <1>1, Invariant, PTL

(* No work is under way or done on a plan whose last verdict is not an      *)
(* approval, although lookup, check and write are steps of many requests.   *)
THEOREM Authorised == Spec => []WorkIsAuthorised
<1>1. IInv => WorkIsAuthorised
  BY DEF IInv, PlansSound
<1> QED
  BY <1>1, Invariant, PTL

(* Concurrent creations keep plan references unique.                        *)
THEOREM UniqueReferences == Spec => []ReferencesUnique
<1>1. IInv => ReferencesUnique
  BY DEF IInv, PlansSound
<1> QED
  BY <1>1, Invariant, PTL

(* The tables of plans are well formed and references are unique, for any  *)
(* requests and either schema.                                             *)
THEOREM WellFormed == Spec => []PlansWellFormed
<1>1. TypeOK /\ ReferencesUnique => PlansWellFormed
  BY DEF PlansWellFormed
<1>2. QED
  BY <1>1, TypeCorrect, UniqueReferences, PTL

(* And a creation that was refused can be repeated: the reference computed  *)
(* from the largest id is never one that is taken.                          *)
THEOREM FreeReference == Spec => []NextReferenceFree
<1>1. IInv => NextReferenceFree
  BY NextReference DEF IInv, PlansSound, NextReferenceFree
<1> QED
  BY <1>1, Invariant, PTL

(* An outcome precedes every MEASURED.                                      *)
THEOREM Evidence == Spec => []MeasuredHasOutcome
<1>1. IInv => MeasuredHasOutcome
  BY DEF IInv, PlansSound
<1> QED
  BY <1>1, Invariant, PTL

(* What a plan's row says is documented by committed rows of the other     *)
(* tables, whatever statement fails in between.                            *)
THEOREM Documented == Spec => []PlansDocumented
<1>1. AuditTellsState /\ WorkIsAuthorised /\ MeasuredHasOutcome => PlansDocumented
  BY DEF PlansDocumented
<1>2. QED
  BY <1>1, AuditTrail, Authorised, Evidence, PTL

(* However the requests race, each plan follows PlanLifecycle.              *)
THEOREM Implementation == Spec => ImplementsLifecycle
<1>1. Init => \A p \in Plans : Lifecycle(p)!Init
  BY DEF Init, Lifecycle!Init, Absent, Declared!Absent, Lifecycle!Absent
<1>2. ASSUME IInv, [Next]_vars, NEW p \in Plans
      PROVE  Lifecycle(p)!Next \/ UNCHANGED state[p]
  <2>1. CASE state' = state
    BY <2>1
  <2>2. ASSUME NEW r \in Requests, FilePlan(r)
        PROVE  Lifecycle(p)!Next \/ UNCHANGED state[p]
    <3>1. state[request[r].plan] = Absent /\ state' = [state EXCEPT ![request[r].plan] = "SIMULATED"]
      BY <1>2, <2>2 DEF FilePlan, IInv, RequestsSound, FilingIsNew, Filing
    <3>2. state \in [Plans -> LifecycleState \cup {Absent}]
      BY <1>2 DEF IInv, TypeOK
    <3> QED
      BY <3>1, <3>2 DEF Lifecycle!Next, Lifecycle!Create, Lifecycle!Absent, Absent, Declared!Absent
  <2>3. ASSUME NEW r \in Requests, MovePlan(r)
        PROVE  Lifecycle(p)!Next \/ UNCHANGED state[p]
    <3> DEFINE t == Target[request[r].op]
    <3>1. state' = [state EXCEPT ![request[r].plan] = t]
      BY <2>3 DEF MovePlan
    <3>2. state \in [Plans -> LifecycleState \cup {Absent}]
      BY <1>2 DEF IInv, TypeOK
    <3>3. CASE p # request[r].plan
      BY <3>1, <3>2, <3>3
    <3>4. CASE p = request[r].plan
      <4>1. state[p] # Absent /\ request[r].op \in Operations
            /\ Declared!can_transition(state[p], t)
        BY <1>2, <2>3, <3>4
        DEF MovePlan, IInv, RequestsSound, MovingExists, WriteIsLegal, Moving, Existing
      <4>2. t \in LifecycleState /\ state[p] \in LifecycleState /\ state'[p] = t
        BY <3>1, <3>2, <3>4, <4>1, Edges
      <4> QED
        BY <4>1, <4>2
        DEF Lifecycle!Next, Lifecycle!Move, Lifecycle!LifecycleState, Lifecycle!can_transition,
            Lifecycle!TRANSITIONS, LifecycleState, Declared!LifecycleState,
            Declared!can_transition, Declared!TRANSITIONS
    <3> QED
      BY <3>3, <3>4
  <2> QED
    BY <1>2, <2>1, <2>2, <2>3
    DEF Next, Proceed, Create, Require, Insert, RecordOutcome, LockPlan, Fail, rows, vars
<1>3. IInv /\ [Next]_vars => [\A p \in Plans : Lifecycle(p)!Next \/ UNCHANGED state[p]]_state
  BY <1>2
<1> QED
  BY <1>1, <1>3, Invariant, PTL DEF Spec, ImplementsLifecycle
=============================================================================
