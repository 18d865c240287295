----------------------------- MODULE EngineProofs -----------------------------
(***************************************************************************)
(* The engine: one run of its pipeline with its checkpoints and its        *)
(* recovery, the self-healing of that run, and the concurrent runs of the  *)
(* service, for every length of the pipeline, number of attempts, set of   *)
(* executions and sequence of candidates.                                  *)
(*                                                                         *)
(* The argument for the pipeline: what a run holds at a node is what the   *)
(* uninterrupted run holds there, so are its checkpoints, and its records  *)
(* end at the first failure.  A rollback therefore restores a prefix of    *)
(* the uninterrupted run, and a rerun that takes up where its checkpoint   *)
(* ends makes the rest of it.  The decision's kind tells whether the       *)
(* records hold evidence of a corruption.                                  *)
(*                                                                         *)
(* For self-healing: the diagnosis decides alone whether a plan may be     *)
(* executed, and no later step widens what it allows; a plan restores only *)
(* when there is a checkpoint, which is one of the pipeline's.             *)
(*                                                                         *)
(* For the concurrent runs: each run knows a little of its own record, row *)
(* and artifact (Local); the analyses find the first fault event, which is *)
(* the run's (Agreeing); the history `shared` has every run that trains at *)
(* the same time, so the dictionary's entries for a run's models are its   *)
(* own or one of theirs (Together); and an alert in the buffer is with the *)
(* run that stands before its clear and nobody else, unless it was torn    *)
(* between two drains (AlertsInv).                                         *)
(***************************************************************************)
EXTENDS SelfHealing, EngineRuns, WellFoundedInduction, TLAPS

USE PipelineAssumption

(***************************************************************************)
(* One run, its checkpoints and its recovery                               *)
(***************************************************************************)

(* A set of numbers has a least one.                                       *)
LEMMA Least ==
    ASSUME NEW S \in SUBSET Nat, S # {}
    PROVE  \E n \in S : \A m \in S : n <= m
<1>1. PICK n \in S : \A m \in S : ~(<<m, n>> \in OpToRel(<, Nat))
  BY NatLessThanWellFounded, WFMin
<1>2. ASSUME NEW m \in S PROVE n <= m
  <2>1. ~(m < n)
    BY <1>1 DEF OpToRel
  <2> QED
    BY <2>1
<1> QED
  BY <1>2

(* And a bounded one a greatest.                                           *)
LEMMA Greatest ==
    ASSUME NEW k \in Int, NEW S \in SUBSET (1..k), S # {}
    PROVE  \E n \in S : \A m \in S : m <= n
<1> DEFINE T == {k - n : n \in S}
<1>1. T \subseteq Nat /\ T # {}
  <2>1. \A n \in S : k - n \in Nat
    OBVIOUS
  <2> QED
    BY <2>1
<1>2. PICK d \in T : \A e \in T : d <= e
  BY <1>1, Least
<1>3. PICK n \in S : d = k - n
  OBVIOUS
<1>4. \A m \in S : k - n <= k - m
  BY <1>2, <1>3
<1> QED
  BY <1>4

(* f is what an uninterrupted run holds after each of its first k nodes.   *)
Develops(f, k) ==
    f = [n \in 0..k |-> IF n = 0 THEN input ELSE Applied(f[n - 1], n)]

(* There is such a function for every k: no k is the least without one.    *)
LEMMA Develop == \A k \in Nat : \E f : Develops(f, k)
<1> DEFINE Bad == {k \in Nat : ~\E f : Develops(f, k)}
<1>1. SUFFICES ASSUME Bad # {} PROVE FALSE
  OBVIOUS
<1>2. PICK k \in Bad : \A m \in Bad : k <= m
  BY <1>1, Least
<1>3. k \in Nat /\ ~\E f : Develops(f, k)
  OBVIOUS
<1>4. CASE k = 0
  <2> DEFINE f == [n \in 0..0 |-> input]
  <2>1. f = [n \in 0..k |-> IF n = 0 THEN input ELSE Applied(f[n - 1], n)]
    BY <1>4
  <2> HIDE DEF f
  <2> QED
    BY <1>3, <2>1 DEF Develops
<1>5. CASE k # 0
  <2>1. k - 1 \in Nat /\ ~(k <= k - 1)
    BY <1>3, <1>5
  <2>2. k - 1 \notin Bad
    BY <1>2, <2>1
  <2>3. PICK g : Develops(g, k - 1)
    BY <2>1, <2>2
  <2> DEFINE f == [n \in 0..k |-> IF n = k THEN Applied(g[k - 1], k) ELSE g[n]]
  <2>4. ASSUME NEW n \in 0..k
        PROVE  f[n] = IF n = 0 THEN input ELSE Applied(f[n - 1], n)
    <3>1. CASE n = k
      <4>1. f[n] = Applied(g[k - 1], k) /\ f[n - 1] = g[k - 1] /\ n # 0
        BY <1>3, <1>5, <2>1, <3>1
      <4> QED
        BY <3>1, <4>1
    <3>2. CASE n # k
      <4>1. n \in 0..k - 1 /\ f[n] = g[n]
        BY <1>3, <3>2
      <4>2. g[n] = IF n = 0 THEN input ELSE Applied(g[n - 1], n)
        BY <2>3, <4>1 DEF Develops
      <4>3. n # 0 => f[n - 1] = g[n - 1]
        BY <1>3, <4>1
      <4> QED
        BY <4>1, <4>2, <4>3
    <3> QED
      BY <3>1, <3>2
  <2>5. f = [n \in 0..k |-> f[n]]
    OBVIOUS
  <2> HIDE DEF f
  <2>6. [n \in 0..k |-> f[n]] = [n \in 0..k |-> IF n = 0 THEN input ELSE Applied(f[n - 1], n)]
    BY <2>4, Zenon
  <2>7. Develops(f, k)
    BY <2>5, <2>6 DEF Develops
  <2> QED
    BY <1>3, <2>7
<1> QED
  BY <1>4, <1>5

(* So the recursive function is what its equation says.                    *)
LEMMA UninterruptedIs ==
    /\ Uninterrupted[0] = input
    /\ \A n \in 1..Length : Uninterrupted[n] = Applied(Uninterrupted[n - 1], n)
<1>1. Length \in Nat
  OBVIOUS
<1>2. Uninterrupted = CHOOSE f : Develops(f, Length)
  BY DEF Uninterrupted, Develops
<1>3. \E f : Develops(f, Length)
  BY <1>1, Develop
<1>4. Develops(Uninterrupted, Length)
  BY <1>2, <1>3
<1>5. Uninterrupted = [n \in 0..Length |-> IF n = 0 THEN input ELSE Applied(Uninterrupted[n - 1], n)]
  BY <1>4 DEF Develops
<1>6. \A n \in 0..Length : Uninterrupted[n] = IF n = 0 THEN input ELSE Applied(Uninterrupted[n - 1], n)
  <2> DEFINE u == Uninterrupted
  <2>1. u = [n \in 0..Length |-> IF n = 0 THEN input ELSE Applied(u[n - 1], n)]
    BY <1>5
  <2> HIDE DEF u
  <2> QED
    BY <2>1 DEF u
<1> QED
  BY <1>1, <1>6

(* It depends on what the run is given, and on which stages are silent.    *)
LEMMA UninterruptedStays ==
    ASSUME UNCHANGED <<input, silent>>
    PROVE  Uninterrupted' = Uninterrupted
BY DEF Uninterrupted, Applied

(***************************************************************************)
(* What the records of a run tell                                          *)
(***************************************************************************)

Done(n) == Record(n, "SUCCESS", NoError, n)

(* The records of a run that is running or over: the successes of its nodes*)
(* in order and, when it failed, one failure of the node it was at.        *)
RecordsTell ==
    /\ position \in 1..Length + 1 /\ records \in Seq(NodeRecord)
    /\ DOMAIN records = 1..Len(records) /\ Len(records) \in Nat
    /\ \A i \in DOMAIN records : i < Len(records) \/ status # "FAILED" => records[i] = Done(i)
    /\ status # "FAILED" => Len(records) = position - 1
    /\ status = "FAILED" =>
          /\ position <= Length /\ Len(records) \in {position, position + 1}
          /\ \E error \in Errors : records[Len(records)] = Record(position, "FAILED", error, NoCheckpoint)

Integrity == {"integrity", "denied_integrity"}
Action == {"RETRY", "ROLLBACK", "RERUN_FROM_NODE", "ABORT", "MANUAL_REVIEW", "QUARANTINE"}

(* The class of an exception.                                              *)
LEMMA ClassFacts ==
    ASSUME NEW error \in Errors
    PROVE  LET class == Classify(error)
           IN  /\ class[1] \in FaultTypes /\ class[2] \in Severities \ {"LOW"}
               /\ error \in Integrity <=> class[1] = "CORRUPTED_ARTIFACT"
BY DEF Classify, DataFault, EnvironmentFault, FaultTypes, Severities, Errors, Integrity, NoError

(* A failed run is detected at the node it was at, and its root is that    *)
(* node or one before it.                                                  *)
LEMMA FailureFacts ==
    ASSUME RecordsTell, status = "FAILED", NEW reported
    PROVE  LET fault == Detect(status, records)
               place == Localize(records, fault, reported)
               error == records[Len(records)].error
           IN  /\ error \in Errors
               /\ fault = Fault(TRUE, Classify(error)[1], Classify(error)[2], position, error)
               /\ place.root \in 1..position
<1> DEFINE n == Len(records)
           fault == Detect(status, records)
           place == Localize(records, fault, reported)
<1>1. PICK error \in Errors : records[n] = Record(position, "FAILED", error, NoCheckpoint)
  BY DEF RecordsTell
<1>2. /\ records[n].node = position /\ records[n].status = "FAILED" /\ records[n].error = error
  BY <1>1 DEF Record
<1>a. /\ DOMAIN records = 1..n /\ n \in Nat /\ position \in Nat /\ position >= 1
      /\ (n = position \/ n = position + 1)
  <2>1. position \in Nat /\ position >= 1
    <3>1. position \in 1..Length + 1
      BY DEF RecordsTell
    <3> QED
      BY <3>1
  <2>2. DOMAIN records = 1..n /\ n \in Nat
    BY DEF RecordsTell
  <2>3. n = position \/ n = position + 1
    BY DEF RecordsTell
  <2> QED
    BY <2>1, <2>2, <2>3
<1>c. \A i \in DOMAIN records : i < n => records[i] = Done(i)
  BY DEF RecordsTell
<1> HIDE DEF n
<1>b. n \in DOMAIN records /\ position \in DOMAIN records /\ position \in 1..position /\ n # 0
  BY <1>a
<1>3. ASSUME NEW i \in DOMAIN records, i # n
      PROVE  /\ records[i].node = i /\ records[i].status = "SUCCESS" /\ records[i].checkpoint = i
             /\ records[i].flagged = FALSE /\ i \in 1..n - 1 /\ i # 0
  <2>1. i < n /\ i \in 1..n - 1 /\ i # 0
    BY <1>a, <1>3
  <2>2. records[i] = Done(i)
    BY <1>c, <2>1
  <2> QED
    BY <2>1, <2>2 DEF Done, Record
<1>4. FailedIndex(records) = n
  <2>1. \A i \in DOMAIN records : records[i].status = "FAILED" <=> i = n
    BY <1>2, <1>3
  <2> QED
    BY <1>a, <1>b, <2>1 DEF FailedIndex
<1>5. fault = Fault(TRUE, Classify(error)[1], Classify(error)[2], position, error)
  BY <1>2, <1>4, <1>b DEF Detect
<1>6. fault.detected = TRUE /\ fault.node = position /\ position # NoNode
  <2> HIDE DEF fault
  <2> QED
    BY <1>a, <1>5 DEF Fault, NoNode
<1> DEFINE before == Preceding(records, position)
<1>7. place = UpstreamRoot(before, reported, position)
  <2> HIDE DEF fault
  <2> QED
    BY <1>6 DEF Localize
<1>8. before = SubSeq(records, 1, position - 1)
  <2> DEFINE first == CHOOSE i \in DOMAIN records :
                    /\ records[i].node = position
                    /\ \A j \in DOMAIN records : records[j].node = position => i <= j
  <2>1. position \in DOMAIN records /\ records[position].node = position
    <3>1. position # n => records[position].node = position
      BY <1>b, <1>3
    <3> QED
      BY <1>2, <1>b, <3>1
  <2>2. ASSUME NEW j \in DOMAIN records, records[j].node = position PROVE position <= j
    <3>1. j # n => j = position
      BY <1>3, <2>2
    <3> QED
      BY <1>a, <3>1
  <2>3. ASSUME NEW j \in DOMAIN records PROVE j \in Int
    BY <1>a
  <2>4. first = position
    <3>1. first \in DOMAIN records /\ records[first].node = position
           /\ \A j \in DOMAIN records : records[j].node = position => first <= j
      BY <2>1, <2>2
    <3> HIDE DEF first
    <3>2. first <= position /\ position <= first
      BY <2>1, <2>2, <3>1
    <3> QED
      BY <1>a, <2>3, <3>1, <3>2
  <2> QED
    BY <2>4 DEF Preceding
<1>9. /\ DOMAIN before = 1..position - 1
      /\ \A i \in 1..position - 1 : before[i] = records[i] /\ i \in DOMAIN records /\ i # n
  <2>1. \A i \in 1..position - 1 : i \in DOMAIN records /\ i # n
    BY <1>a
  <2>2. DOMAIN before = 1..position - 1 /\ \A i \in 1..position - 1 : before[i] = records[i]
    <3>1. before = [i \in 1..position - 1 |-> records[i]]
      BY <1>8, <1>a
    <3> QED
      BY <3>1
  <2> QED
    BY <2>1, <2>2
<1>10. ASSUME NEW i \in DOMAIN before
       PROVE  /\ before[i].node = i /\ before[i].status = "SUCCESS" /\ before[i].checkpoint # NoCheckpoint
              /\ before[i].flagged = FALSE /\ i \in 1..position
  <2>1. i \in 1..position - 1 /\ i \in 1..position /\ i # 0
    BY <1>a, <1>9
  <2>2. before[i] = records[i] /\ i \in DOMAIN records /\ i # n
    BY <1>9, <2>1
  <2> QED
    BY <1>3, <2>1, <2>2 DEF NoCheckpoint
<1> HIDE DEF before, place
<1>11. place.root \in 1..position
  <2> DEFINE Reported(r) == r.node \in reported
  <2>1. ~Shows(before, HasFailed) /\ ~Shows(before, IsFlagged) /\ ~Shows(before, LacksCheckpoint)
    BY <1>10 DEF Shows, HasFailed, IsFlagged, LacksCheckpoint
  <2> DEFINE some == \E i \in DOMAIN before : before[i].node \in reported
             near == CHOOSE i \in DOMAIN before :
                        /\ before[i].node \in reported
                        /\ \A j \in DOMAIN before : before[j].node \in reported => j <= i
  <2>2. place = IF some THEN Located(before[near].node, 850) ELSE Located(position, 550)
    BY <1>7, <2>1 DEF UpstreamRoot, Shows, Nearest
  <2>3. some => near \in DOMAIN before
    <3> SUFFICES ASSUME some PROVE near \in DOMAIN before
      OBVIOUS
    <3> DEFINE S == {i \in DOMAIN before : before[i].node \in reported}
    <3>1. S \subseteq 1..position - 1 /\ S # {}
      BY <1>9
    <3>2. \E i \in S : \A j \in S : j <= i
      <4>1. position - 1 \in Int /\ S \in SUBSET (1..position - 1)
        BY <1>a, <3>1
      <4> HIDE DEF S
      <4> QED
        BY <3>1, <4>1, Greatest
    <3>3. \E i \in DOMAIN before : /\ before[i].node \in reported
                        /\ \A j \in DOMAIN before : before[j].node \in reported => j <= i
      BY <3>2
    <3> QED
      BY <3>3
  <2> HIDE DEF near
  <2>4. some => before[near].node \in 1..position
    BY <1>10, <2>3
  <2> QED
    BY <1>b, <2>2, <2>4 DEF Located
<1> HIDE DEF fault
<1> QED
  BY <1>2, <1>5, <1>11 DEF fault, place, n

(* A run that succeeded shows no fault.                                    *)
LEMMA SuccessFacts ==
    ASSUME RecordsTell, status = "SUCCESS", NEW reported
    PROVE  LET fault == Detect(status, records)
               place == Localize(records, fault, reported)
           IN  /\ fault.detected = FALSE
               /\ place.root = NoNode
               /\ \A i \in DOMAIN records : records[i].error \notin Integrity
<1>1. Detect(status, records).detected = FALSE
  BY DEF Detect, Fault
<1>2. Localize(records, Detect(status, records), reported).root = NoNode
  BY <1>1 DEF Localize, Located
<1>3. \A i \in DOMAIN records : records[i] = Done(i)
  BY DEF RecordsTell
<1>4. \A i \in DOMAIN records : records[i].error = NoError
  BY <1>3 DEF Done, Record
<1> QED
  BY <1>1, <1>2, <1>4 DEF Integrity, NoError

(* Only the failure at the end shows an error.                             *)
LEMMA OneError ==
    ASSUME RecordsTell, status = "FAILED",
           NEW i \in DOMAIN records, records[i].error \in Integrity
    PROVE  records[Len(records)].error \in Integrity
<1>1. i \in Nat /\ Len(records) \in Nat /\ i <= Len(records)
  <2>1. DOMAIN records = 1..Len(records) /\ Len(records) \in Nat
    BY DEF RecordsTell
  <2> QED
    BY <2>1
<1>2. i < Len(records) => records[i] = Done(i)
  BY DEF RecordsTell
<1>3. i < Len(records) => records[i].error = NoError
  BY <1>2 DEF Done, Record
<1>4. i = Len(records)
  BY <1>1, <1>3 DEF Integrity, NoError
<1> QED
  BY <1>4

(* The faults that a rollback may answer.                                  *)
RollbackTypes == FaultTypes \ {"CORRUPTED_ARTIFACT", "VALIDATION_ERROR", "SCHEMA_MISMATCH"}

(* What is decided about a run that is over.                               *)
LEMMA ChoiceFacts ==
    ASSUME RecordsTell, status \in {"SUCCESS", "FAILED"}, NEW reported, NEW checkpoint \in Nat
    PROVE  LET fault == Detect(status, records)
               place == Localize(records, fault, reported)
               choice == Decide(fault, place, checkpoint)
           IN  /\ choice \in [action : Action, approval : BOOLEAN, target : 0..Length,
                              checkpoint : {NoCheckpoint, checkpoint}]
               /\ choice.action = "ROLLBACK" =>
                     choice.checkpoint = checkpoint /\ checkpoint # NoCheckpoint
               /\ choice.action = "RERUN_FROM_NODE" =>
                     status = "FAILED" /\ choice.target \in 1..position
               /\ choice.action \in {"RETRY", "ROLLBACK", "RERUN_FROM_NODE"} =>
                     /\ \A i \in DOMAIN records : records[i].error \notin Integrity
                     /\ choice.approval => choice.action = "ROLLBACK" /\ fault.type \in RollbackTypes
<1> DEFINE fault == Detect(status, records)
           place == Localize(records, fault, reported)
           choice == Decide(fault, place, checkpoint)
<1>1. CASE status = "SUCCESS"
  <2>1. fault.detected = FALSE /\ \A i \in DOMAIN records : records[i].error \notin Integrity
    BY <1>1, SuccessFacts
  <2> HIDE DEF fault, place
  <2>2. choice = [action |-> "RETRY", approval |-> FALSE, target |-> 0, checkpoint |-> 0]
    BY <2>1 DEF Decide, SafeRetry, Decision, NoNode, NoCheckpoint
  <2>3. 0 \in 0..Length
    OBVIOUS
  <2> HIDE DEF choice
  <2> QED
    BY <2>1, <2>2, <2>3 DEF choice, fault, place, Action, NoCheckpoint
<1>2. CASE status = "FAILED"
  <2> DEFINE error == records[Len(records)].error
  <2>1. /\ error \in Errors
        /\ fault = Fault(TRUE, Classify(error)[1], Classify(error)[2], position, error)
        /\ place.root \in 1..position
    BY <1>2, FailureFacts
  <2>2. /\ Classify(error)[1] \in FaultTypes /\ Classify(error)[2] \in Severities \ {"LOW"}
        /\ error \in Integrity <=> Classify(error)[1] = "CORRUPTED_ARTIFACT"
    BY <2>1, ClassFacts
  <2>3. \A i \in DOMAIN records : records[i].error \in Integrity => error \in Integrity
    BY <1>2, OneError
  <2>4. position \in 1..Length /\ place.root \in 0..Length /\ position \in 1..position
        /\ 0 \in 0..Length /\ position \in 0..Length
    <3>1. position \in 1..Length + 1 /\ position <= Length
      BY <1>2 DEF RecordsTell
    <3>2. \A r \in 1..position : r \in 0..Length
      BY <3>1
    <3>3. position \in 1..Length /\ position \in 1..position /\ 0 \in 0..Length
      BY <3>1
    <3> QED
      BY <2>1, <3>2, <3>3
  <2> HIDE DEF fault, place, error
  <2>5. /\ fault.detected = TRUE /\ fault.node = position /\ fault.error = error
        /\ fault.type \in FaultTypes /\ fault.severity \in Severities \ {"LOW"}
        /\ error \in Integrity <=> fault.type = "CORRUPTED_ARTIFACT"
    BY <2>1, <2>2 DEF Fault
  <2>6. place.root # NoNode
    BY <2>1 DEF NoNode
  <2> DEFINE Says(c) == 
        /\ c \in [action : Action, approval : BOOLEAN, target : 0..Length,
                       checkpoint : {NoCheckpoint, checkpoint}]
        /\ c.action = "ROLLBACK" => c.checkpoint = checkpoint /\ checkpoint # NoCheckpoint
        /\ c.action = "RERUN_FROM_NODE" => c.target \in 1..position
        /\ c.action \in {"RETRY", "ROLLBACK", "RERUN_FROM_NODE"} =>
              /\ error \notin Integrity
              /\ c.approval => c.action = "ROLLBACK" /\ fault.type \in RollbackTypes
  <2>s. SUFFICES Says(choice)
    BY <1>2, <2>3 DEF fault, place
  <2>7. CASE fault.type = "CORRUPTED_ARTIFACT"
    <3>1. choice = CorruptedDecision(fault, place, checkpoint)
      BY <2>5, <2>7 DEF Decide, Severities
    <3>2. choice = Decision("QUARANTINE", TRUE, position, NoCheckpoint)
      BY <2>5, <2>7, <3>1 DEF CorruptedDecision, HasSecurityHint, Integrity
    <3> QED
      BY <2>4, <3>2 DEF Decision, Action
  <2>8. CASE fault.type # "CORRUPTED_ARTIFACT"
    <3>1. error \notin Integrity
      BY <2>5, <2>8
    <3>2. \/ choice = RerunDecision(fault, place, checkpoint)
          \/ /\ fault.type \in RollbackTypes
             /\ \/ choice = MissingDecision(fault, place, checkpoint)
                \/ choice = DependencyDecision(fault, place, checkpoint)
                \/ choice = CriticalDecision(fault)
                \/ choice = ExecutionDecision(fault, place, checkpoint)
                \/ choice = ResourceDecision(fault, checkpoint)
      BY <2>5, <2>8 DEF Decide, Severities, FaultTypes, RollbackTypes
    <3>3. ASSUME NEW action \in {"ROLLBACK", "ABORT", "MANUAL_REVIEW", "RERUN_FROM_NODE"},
                 NEW approval \in BOOLEAN, NEW target \in 0..Length, NEW c \in {NoCheckpoint, checkpoint},
                 action = "ROLLBACK" => c = checkpoint /\ checkpoint # NoCheckpoint,
                 action = "RERUN_FROM_NODE" => target \in 1..position /\ approval = FALSE,
                 action = "ROLLBACK" => fault.type \in RollbackTypes,
                 choice = Decision(action, approval, target, c)
          PROVE  Says(choice)
      <4> HIDE DEF choice
      <4>1. choice.action = action /\ choice.target = target /\ choice.checkpoint = c
            /\ choice.approval = approval
        BY <3>3 DEF Decision
      <4>2. choice \in [action : Action, approval : BOOLEAN, target : 0..Length,
                       checkpoint : {NoCheckpoint, checkpoint}]
        BY <3>3 DEF Decision, Action
      <4> QED
        BY <3>1, <3>3, <4>1, <4>2
    <3> HIDE DEF choice, Says
    <3>4. NoNode \in 0..Length /\ NoCheckpoint \in {NoCheckpoint, checkpoint}
          /\ TRUE \in BOOLEAN /\ FALSE \in BOOLEAN /\ place.root \in 1..position
      BY <2>1, <2>4 DEF NoNode
    <3>5. CASE choice = RerunDecision(fault, place, checkpoint)
      <4>1. choice = Decision("RERUN_FROM_NODE", FALSE, place.root, checkpoint)
        BY <2>6, <3>5 DEF RerunDecision
      <4> QED
        BY <2>4, <3>3, <3>4, <4>1
    <3>6. CASE fault.type \in RollbackTypes /\ choice = MissingDecision(fault, place, checkpoint)
      BY <2>4, <2>5, <3>3, <3>4, <3>6 DEF MissingDecision
    <3>7. CASE fault.type \in RollbackTypes /\ choice = DependencyDecision(fault, place, checkpoint)
      BY <2>4, <2>5, <3>3, <3>4, <3>7 DEF DependencyDecision
    <3>8. CASE fault.type \in RollbackTypes /\ choice = CriticalDecision(fault)
      BY <2>4, <2>5, <3>3, <3>4, <3>8 DEF CriticalDecision
    <3>9. CASE fault.type \in RollbackTypes /\ choice = ExecutionDecision(fault, place, checkpoint)
      BY <2>4, <2>5, <3>3, <3>4, <3>9 DEF ExecutionDecision
    <3>10. CASE fault.type \in RollbackTypes /\ choice = ResourceDecision(fault, checkpoint)
      BY <2>4, <2>5, <3>3, <3>4, <3>10 DEF ResourceDecision
    <3> QED
      BY <3>2, <3>5, <3>6, <3>7, <3>8, <3>9, <3>10
  <2> QED
    BY <2>7, <2>8
<1> QED
  BY <1>1, <1>2

(***************************************************************************)
(* The invariant                                                           *)
(***************************************************************************)

(* The run: what it holds, and what it has stored, is what an uninterrupted*)
(* run holds at the same node.                                             *)
RunTells ==
    /\ input \in {NoData, CallerInput} /\ silent \subseteq Pipeline /\ typed \subseteq Pipeline
    /\ status \in {"running", "SUCCESS", "FAILED"}
    /\ context \in Seq(Nat) /\ context = Uninterrupted[position - 1]
    /\ RecordsTell

StoreTells ==
    /\ checkpoints \in Seq([node : Pipeline, data : Seq(Nat), filed : BOOLEAN])
    /\ \A c \in DOMAIN checkpoints :
          checkpoints[c].node = c /\ checkpoints[c].data = Uninterrupted[c]
    /\ Len(checkpoints) \in {position - 1, position}
    /\ status # "FAILED" => Len(checkpoints) = position - 1
    /\ known \in {{}, DOMAIN checkpoints} /\ lost \subseteq DOMAIN checkpoints
    /\ status = "running" => known = DOMAIN checkpoints

(* A rerun that takes up behind the data it restored, and whose file held  *)
(* them as they were.                                                      *)
Joins ==
    IF decision.checkpoint = NoCheckpoint THEN decision.target = 1 /\ input = NoData
    ELSE decision.checkpoint = decision.target - 1 /\ decision.target - 1 \notin typed

(* What restoring a run's checkpoint gives.                                *)
FiledPrefix(c) == Refiled(c, Uninterrupted[c])

RecoveryTells ==
    /\ decision \in [action : Action \cup {"none"}, approval : BOOLEAN, target : 0..Length,
                     checkpoint : {NoCheckpoint, Len(checkpoints)}]
    /\ rerun \in 0..Length + 1 /\ attempts \in 0..MaxAttempts
    /\ result = NoResult => attempts < MaxAttempts
    /\ recovered \in Seq(Int)
    /\ status = "running" => decision = NoDecision
    /\ decision = NoDecision => rerun = NoNode /\ result = NoResult
    /\ decision.action = "ROLLBACK" => decision.checkpoint # NoCheckpoint
    /\ decision.action = "RERUN_FROM_NODE" => status = "FAILED" /\ decision.target \in 1..position
    /\ decision.action \in {"RETRY", "ROLLBACK", "RERUN_FROM_NODE"} =>
          \A i \in DOMAIN records : records[i].error \notin Integrity
    /\ result.success =>
          /\ decision.action \in {"RETRY", "ROLLBACK", "RERUN_FROM_NODE"}
          /\ decision.action = "ROLLBACK" => recovered = FiledPrefix(decision.checkpoint)
          /\ decision.action = "RERUN_FROM_NODE" =>
                result.from = decision.checkpoint /\ result.resumed = decision.target /\ rerun = Length + 1
    /\ rerun # NoNode => decision.action = "RERUN_FROM_NODE"
    /\ rerun # NoNode /\ Joins => Magnitudes(recovered) = Uninterrupted[rerun - 1]

PipelineInv == RunTells /\ StoreTells /\ RecoveryTells

(* A checkpoint is its node's, and holds what the uninterrupted run held.  *)
LEMMA StoredFacts ==
    ASSUME StoreTells, NEW c \in DOMAIN checkpoints
    PROVE  /\ checkpoints[c].node = c /\ checkpoints[c].data = Uninterrupted[c]
           /\ checkpoints[c].data \in Seq(Nat) /\ checkpoints[c].node \in Pipeline
<1> DEFINE Stored == [node : Pipeline, data : Seq(Nat), filed : BOOLEAN]
<1>1. \A s \in Stored : s.node \in Pipeline /\ s.data \in Seq(Nat)
  OBVIOUS
<1>2. checkpoints \in Seq(Stored)
  BY DEF StoreTells
<1> HIDE DEF Stored
<1>3. checkpoints[c] \in Stored
  BY <1>2
<1>4. checkpoints[c].node = c /\ checkpoints[c].data = Uninterrupted[c]
  BY DEF StoreTells
<1> QED
  BY <1>1, <1>3, <1>4

(* What its file gives back: the same, where the node's result allows it.  *)
LEMMA RestoredFacts ==
    ASSUME StoreTells, NEW c \in DOMAIN checkpoints
    PROVE  /\ Restored(c) = FiledPrefix(c) /\ Restored(c) \in Seq(Nat)
           /\ c \notin typed => Restored(c) = Uninterrupted[c]
<1>1. /\ checkpoints[c].node = c /\ checkpoints[c].data = Uninterrupted[c]
      /\ checkpoints[c].data \in Seq(Nat)
  BY StoredFacts
<1>2. Restored(c) = FiledPrefix(c)
  BY <1>1 DEF Restored, FiledPrefix
<1>3. Converted \in Nat
  BY DEF Converted
<1> DEFINE u == Uninterrupted[c]
           longer == Append(u, Converted)
<1>4. u \in Seq(Nat) /\ longer \in Seq(Nat)
  BY <1>1, <1>3
<1>5. FiledPrefix(c) = (IF c \in typed /\ u # NoData THEN longer ELSE u)
  BY Zenon DEF FiledPrefix, Refiled
<1> HIDE DEF u, longer
<1>6. FiledPrefix(c) \in Seq(Nat) /\ (c \notin typed => FiledPrefix(c) = u)
  BY <1>4, <1>5
<1> QED
  BY <1>2, <1>6 DEF u

(* A node's work on data of the run's type.                                *)
LEMMA AppliedType ==
    ASSUME NEW data \in Seq(Nat), NEW node \in Nat
    PROVE  Applied(data, node) \in Seq(Nat)
BY DEF Applied, NoData

(* The records of a node are records.                                      *)
LEMMA RecordTypes ==
    ASSUME NEW n \in Nat \ {0}
    PROVE  /\ Done(n) \in NodeRecord
           /\ \A error \in Errors : Record(n, "FAILED", error, NoCheckpoint) \in NodeRecord
BY DEF Done, Record, NodeRecord, NoCheckpoint, NoNode

(* The initial states satisfy the invariant.                               *)
LEMMA PipelineBegins == PipelineInit => PipelineInv
<1> SUFFICES ASSUME PipelineInit PROVE PipelineInv
  OBVIOUS
<1>0. /\ input \in {NoData, CallerInput} /\ silent \in SUBSET Pipeline /\ typed \in SUBSET Pipeline
      /\ status = "running" /\ position = 1 /\ context = input /\ records = << >>
      /\ checkpoints = << >> /\ known = {} /\ lost = {}
      /\ decision = NoDecision /\ rerun = NoNode /\ attempts = 0
      /\ recovered = NoData /\ result = NoResult
  BY DEF PipelineInit
<1>1. context \in Seq(Nat) /\ context = Uninterrupted[position - 1]
  <2>1. position - 1 = 0 /\ context = input
    BY <1>0
  <2>2. input = << >> \/ input = <<0>>
    BY <1>0 DEF NoData, CallerInput
  <2>3. input \in Seq(Nat)
    <3>1. << >> \in Seq(Nat) /\ <<0>> \in Seq(Nat)
      OBVIOUS
    <3> QED
      BY <2>2, <3>1
  <2>4. Uninterrupted[position - 1] = input
    BY <2>1, UninterruptedIs
  <2> QED
    BY <2>1, <2>3, <2>4
<1>2. RecordsTell
  <2>1. Len(records) = 0 /\ DOMAIN records = 1..0 /\ records \in Seq(NodeRecord)
    BY <1>0
  <2> QED
    BY <1>0, <2>1 DEF RecordsTell
<1>3. StoreTells
  <2>1. Len(checkpoints) = 0 /\ DOMAIN checkpoints = {}
        /\ checkpoints \in Seq([node : Pipeline, data : Seq(Nat), filed : BOOLEAN])
    BY <1>0
  <2> QED
    BY <1>0, <2>1 DEF StoreTells
<1>4. RecoveryTells
  <2>1. decision = [action |-> "none", approval |-> FALSE, target |-> 0, checkpoint |-> 0]
    BY <1>0 DEF NoDecision, Decision, NoNode, NoCheckpoint
  <2>2. 0 \in 0..Length /\ 0 \in {NoCheckpoint, Len(checkpoints)} /\ 0 \in 0..Length + 1 /\ 0 \in 0..MaxAttempts /\ 0 < MaxAttempts
    <3>1. NoCheckpoint = 0
      BY DEF NoCheckpoint
    <3> QED
      BY <3>1
  <2>3. decision \in [action : Action \cup {"none"}, approval : BOOLEAN, target : 0..Length,
                     checkpoint : {NoCheckpoint, Len(checkpoints)}] /\ decision.action = "none"
    BY <2>1, <2>2
  <2>4. result.success = FALSE
    BY <1>0 DEF NoResult
  <2>5. recovered \in Seq(Int)
    BY <1>0 DEF NoData
  <2> QED
    BY <1>0, <2>2, <2>3, <2>4, <2>5 DEF RecoveryTells, NoNode
<1> QED
  BY <1>0, <1>1, <1>2, <1>3, <1>4 DEF RunTells, PipelineInv

(* A recovery is about a run that is over, and about what was stored by it.*)
LEMMA RecoveryStays ==
    ASSUME RecoveryTells, UNCHANGED <<input, silent, typed, status, position, records, checkpoints, recoveryVars>>
    PROVE  RecoveryTells'
<1>1. UNCHANGED <<decision, rerun, attempts, recovered, result>>
  BY DEF recoveryVars
<1>2. Uninterrupted' = Uninterrupted
  BY UninterruptedStays
<1>3. Joins' = Joins
  BY <1>1 DEF Joins
<1> DEFINE U == Uninterrupted
<1>4. /\ U' = U /\ Magnitudes(recovered)' = Magnitudes(recovered)
      /\ FiledPrefix(decision.checkpoint)' = FiledPrefix(decision.checkpoint)
  BY <1>1, <1>2 DEF Magnitudes, FiledPrefix, Refiled
<1> QED
  BY <1>1, <1>2, <1>3, <1>4 DEF RecoveryTells

(* A step of the run leaves the recovery alone.                            *)
LEMMA RecoveryWaits ==
    ASSUME RecoveryTells, status = "running", UNCHANGED recoveryVars,
           UNCHANGED <<input, silent, typed>>, checkpoints' \in Seq([node : Pipeline, data : Seq(Nat), filed : BOOLEAN])
    PROVE  RecoveryTells'
<1>1. decision = NoDecision /\ rerun = NoNode /\ result = NoResult
  BY DEF RecoveryTells
<1>2. UNCHANGED <<decision, rerun, attempts, recovered, result>>
  BY DEF recoveryVars
<1>3. decision' = [action |-> "none", approval |-> FALSE, target |-> 0, checkpoint |-> 0]
  BY <1>1, <1>2 DEF NoDecision, Decision, NoNode, NoCheckpoint
<1>4. 0 \in 0..Length /\ 0 \in {NoCheckpoint, Len(checkpoints')}
  <2>1. NoCheckpoint = 0 /\ 0 \in 0..Length
    BY DEF NoCheckpoint
  <2> QED
    BY <2>1
<1>5. decision' \in [action : Action \cup {"none"}, approval : BOOLEAN, target : 0..Length,
                     checkpoint : {NoCheckpoint, Len(checkpoints')}] /\ decision'.action = "none"
  BY <1>3, <1>4
<1>6. result'.success = FALSE
  BY <1>1, <1>2 DEF NoResult
<1>7. /\ rerun' \in 0..Length + 1 /\ attempts' \in 0..MaxAttempts
      /\ result' = NoResult' => attempts' < MaxAttempts
      /\ recovered' \in Seq(Int)
  BY <1>2 DEF RecoveryTells, NoResult
<1> QED
  BY <1>1, <1>2, <1>5, <1>6, <1>7 DEF RecoveryTells, NoDecision, NoResult

(* The checkpoint that a node leaves.                                      *)
LEMMA StoreFacts ==
    ASSUME RunTells, StoreTells, RunningNode, StoreCheckpoint, UNCHANGED <<input, silent, typed>>
    PROVE  /\ checkpoints' \in Seq([node : Pipeline, data : Seq(Nat), filed : BOOLEAN])
           /\ (\A c \in DOMAIN checkpoints :
                  checkpoints[c].node = c /\ checkpoints[c].data = Uninterrupted[c])'
           /\ Len(checkpoints') = position
           /\ known' = DOMAIN checkpoints' /\ lost' \subseteq DOMAIN checkpoints'
           /\ Applied(context, position) \in Seq(Nat)
           /\ Applied(context, position) = Uninterrupted'[position]
<1>0. /\ checkpoints \in Seq([node : Pipeline, data : Seq(Nat), filed : BOOLEAN])
      /\ \A c \in DOMAIN checkpoints :
            checkpoints[c].node = c /\ checkpoints[c].data = Uninterrupted[c]
      /\ Len(checkpoints) = position - 1
      /\ known = DOMAIN checkpoints /\ lost \subseteq DOMAIN checkpoints
  BY DEF StoreTells, RunningNode
<1>1. position \in 1..Length /\ position \in Nat /\ position \in Pipeline
  <2>1. position \in 1..Length + 1 /\ position <= Length
    BY DEF RunTells, RecordsTell, RunningNode
  <2> QED
    BY <2>1 DEF Pipeline
<1>2. Applied(context, position) \in Seq(Nat)
  BY <1>1, AppliedType DEF RunTells
<1>3. Uninterrupted' = Uninterrupted
  BY UninterruptedStays
<1>4. Applied(context, position) = Uninterrupted[position]
  BY <1>1, UninterruptedIs DEF RunTells
<1> DEFINE new == Checkpoint(position, Applied(context, position))
<1>5. new \in [node : Pipeline, data : Seq(Nat), filed : BOOLEAN]
      /\ new.node = position /\ new.data = Uninterrupted[position]
  BY <1>1, <1>2, <1>4 DEF Checkpoint
<1>6. checkpoints' = Append(checkpoints, new) /\ known' = known \cup {Len(checkpoints) + 1} /\ lost' = lost
  BY DEF StoreCheckpoint
<1> HIDE DEF new
<1>7. /\ checkpoints' \in Seq([node : Pipeline, data : Seq(Nat), filed : BOOLEAN])
      /\ Len(checkpoints') = Len(checkpoints) + 1
      /\ DOMAIN checkpoints' = DOMAIN checkpoints \cup {Len(checkpoints) + 1}
      /\ checkpoints'[Len(checkpoints) + 1] = new
      /\ \A c \in DOMAIN checkpoints : checkpoints'[c] = checkpoints[c]
  BY <1>0, <1>5, <1>6
<1>8. Len(checkpoints) + 1 = position
  BY <1>0, <1>1
<1>9. \A c \in DOMAIN checkpoints' : checkpoints'[c].node = c /\ checkpoints'[c].data = Uninterrupted[c]
  BY <1>0, <1>5, <1>7, <1>8
<1> QED
  BY <1>0, <1>2, <1>3, <1>4, <1>6, <1>7, <1>8, <1>9

(* The run stops at its node: its log, and the checkpoint stored before or *)
(* after the failure.                                                      *)
LEMMA RunFails ==
    ASSUME PipelineInv, RunningNode, NEW error \in Errors, NEW log,
           \/ log = <<Failure(error)>> /\ UNCHANGED storeVars
           \/ log = <<Failure(error)>> /\ StoreCheckpoint
           \/ log = <<Success, Failure(error)>> /\ StoreCheckpoint,
           Stop(log)
    PROVE  PipelineInv'
<1>0. /\ RunTells /\ StoreTells /\ RecoveryTells /\ status = "running"
      /\ records' = records \o log /\ status' = "FAILED"
      /\ UNCHANGED <<input, silent, typed, position, context, recoveryVars>>
  BY DEF PipelineInv, Stop, RunningNode
<1>1. position \in 1..Length /\ position \in Nat /\ position >= 1 /\ position <= Length
  <2>1. position \in 1..Length + 1 /\ position <= Length
    BY DEF RunTells, RecordsTell, RunningNode, PipelineInv
  <2> QED
    BY <2>1
<1>2. /\ DOMAIN records = 1..position - 1 /\ Len(records) = position - 1
      /\ \A i \in DOMAIN records : records[i] = Done(i)
  BY <1>0 DEF RunTells, RecordsTell
<1>3. Len(checkpoints) + 1 = position
  <2>1. Len(checkpoints) = position - 1
    BY <1>0 DEF StoreTells
  <2> QED
    BY <1>1, <2>1
<1>4. Success = Done(position)
  BY <1>3 DEF Success, Done
<1>5. Uninterrupted' = Uninterrupted
  BY <1>0, UninterruptedStays
<1>b. Done(position) \in NodeRecord /\ Failure(error) \in NodeRecord
  BY <1>1, RecordTypes DEF Failure
<1>6. /\ records' \in Seq(NodeRecord)
      /\ Len(records') \in {position, position + 1} /\ DOMAIN records' = 1..Len(records')
      /\ Len(records') \in Nat
      /\ \A i \in DOMAIN records' : i < Len(records') => records'[i] = Done(i)
      /\ records'[Len(records')] = Failure(error)
  <2>1. records \in Seq(NodeRecord)
    BY <1>0 DEF RunTells, RecordsTell
  <2>2. CASE log = <<Failure(error)>>
    BY <1>0, <1>1, <1>2, <1>b, <2>1, <2>2
  <2>3. CASE log = <<Success, Failure(error)>>
    BY <1>0, <1>1, <1>2, <1>4, <1>b, <2>1, <2>3
  <2> QED
    BY <2>2, <2>3
<1>7. RecordsTell'
  BY <1>0, <1>1, <1>6 DEF RecordsTell, Failure
<1>8. RunTells'
  BY <1>0, <1>5, <1>7 DEF RunTells
<1>9. StoreTells'
  <2>1. CASE StoreCheckpoint
    <3>1. /\ checkpoints' \in Seq([node : Pipeline, data : Seq(Nat), filed : BOOLEAN])
          /\ (\A c \in DOMAIN checkpoints :
                 checkpoints[c].node = c /\ checkpoints[c].data = Uninterrupted[c])'
          /\ Len(checkpoints') = position
          /\ known' = DOMAIN checkpoints' /\ lost' \subseteq DOMAIN checkpoints'
      BY <1>0, <2>1, StoreFacts
    <3> QED
      BY <1>0, <3>1 DEF StoreTells
  <2>2. CASE UNCHANGED storeVars
    BY <1>0, <1>5, <2>2 DEF StoreTells, storeVars
  <2> QED
    BY <2>1, <2>2
<1>10. RecoveryTells'
  BY <1>0, <1>9, RecoveryWaits DEF StoreTells
<1> QED
  BY <1>8, <1>9, <1>10 DEF PipelineInv

(* A step of the run, whichever.                                           *)
LEMMA RunSteps ==
    ASSUME PipelineInv, RunStep
    PROVE  PipelineInv'
<1>0. RunTells /\ StoreTells /\ RecoveryTells
  BY DEF PipelineInv
<1>1. CASE NodeSucceeds
  <2>1. /\ RunningNode /\ status = "running" /\ StoreCheckpoint /\ records' = Append(records, Success)
        /\ context' = Applied(context, position) /\ position' = position + 1
        /\ UNCHANGED <<input, silent, typed, status, recoveryVars>>
    BY <1>1 DEF NodeSucceeds, RunningNode
  <2>2. /\ checkpoints' \in Seq([node : Pipeline, data : Seq(Nat), filed : BOOLEAN])
        /\ (\A c \in DOMAIN checkpoints :
               checkpoints[c].node = c /\ checkpoints[c].data = Uninterrupted[c])'
        /\ Len(checkpoints') = position
        /\ known' = DOMAIN checkpoints' /\ lost' \subseteq DOMAIN checkpoints'
        /\ Applied(context, position) \in Seq(Nat)
        /\ Applied(context, position) = Uninterrupted'[position]
    BY <1>0, <2>1, StoreFacts
  <2>3. position \in 1..Length /\ position' \in 1..Length + 1 /\ position' - 1 = position
    <3>1. position \in 1..Length + 1 /\ position <= Length
      BY <1>0, <2>1 DEF RunTells, RecordsTell, RunningNode
    <3> QED
      BY <2>1, <3>1
  <2>4. StoreTells'
    BY <2>1, <2>2, <2>3 DEF StoreTells
  <2>5. RecoveryTells'
    BY <1>0, <2>1, <2>2, RecoveryWaits
  <2>6. RecordsTell'
    <3>1. /\ DOMAIN records = 1..position - 1 /\ Len(records) = position - 1
          /\ \A i \in DOMAIN records : records[i] = Done(i)
      BY <1>0, <2>1 DEF RunTells, RecordsTell
    <3>2. Len(checkpoints) + 1 = position
      <4>1. Len(checkpoints) = position - 1
        BY <1>0, <2>1 DEF StoreTells
      <4> QED
        BY <2>3, <4>1
    <3>3. Success = Done(position)
      BY <3>2 DEF Success, Done
    <3>4. records \in Seq(NodeRecord) /\ Done(position) \in NodeRecord
      <4>1. position \in Nat \ {0}
        BY <2>3
      <4>2. records \in Seq(NodeRecord)
        BY <1>0 DEF RunTells, RecordsTell
      <4> QED
        BY <4>1, <4>2, RecordTypes
    <3>5. /\ records' \in Seq(NodeRecord)
          /\ DOMAIN records' = 1..position /\ Len(records') = position
          /\ \A i \in DOMAIN records' : records'[i] = Done(i)
      BY <2>1, <2>3, <3>1, <3>3, <3>4
    <3> QED
      BY <2>1, <2>3, <3>5 DEF RecordsTell
  <2>7. RunTells'
    BY <1>0, <2>1, <2>2, <2>3, <2>6 DEF RunTells
  <2> QED
    BY <2>4, <2>5, <2>7 DEF PipelineInv
<1>2. CASE NodeRaises
  <2>1. PICK error \in Errors : Stop(<<Failure(error)>>)
    BY <1>2 DEF NodeRaises
  <2>2. RunningNode /\ UNCHANGED storeVars
    BY <1>2 DEF NodeRaises
  <2> QED
    BY <2>1, <2>2, RunFails
<1>3. CASE OutputRejected
  <2>1. RunningNode /\ UNCHANGED storeVars /\ Stop(<<Failure("output_validation")>>)
        /\ "output_validation" \in Errors
    BY <1>3 DEF OutputRejected, Errors
  <2> QED
    BY <2>1, RunFails
<1>4. CASE ArtifactUnstored
  <2>1. PICK error \in Errors : Stop(<<Failure(error)>>)
    BY <1>4 DEF ArtifactUnstored, Errors
  <2>2. RunningNode /\ UNCHANGED storeVars
    BY <1>4 DEF ArtifactUnstored
  <2> QED
    BY <2>1, <2>2, RunFails
<1>5. CASE MetadataUnstored
  <2>1. PICK error \in Errors : Stop(<<Failure(error)>>)
    BY <1>5 DEF MetadataUnstored, Errors
  <2>2. RunningNode /\ StoreCheckpoint
    BY <1>5 DEF MetadataUnstored
  <2> QED
    BY <2>1, <2>2, RunFails
<1>6. CASE ContextRefuses
  <2>1. PICK error \in Errors : Stop(<<Success, Failure(error)>>)
    BY <1>6 DEF ContextRefuses
  <2>2. RunningNode /\ StoreCheckpoint
    BY <1>6 DEF ContextRefuses
  <2> QED
    BY <2>1, <2>2, RunFails
<1>7. CASE RunCompletes
  <2>1. /\ status = "running" /\ position = Length + 1 /\ status' = "SUCCESS"
        /\ UNCHANGED <<input, silent, typed, position, context, records, storeVars, recoveryVars>>
    BY <1>7 DEF RunCompletes
  <2>2. Uninterrupted' = Uninterrupted
    BY <2>1, UninterruptedStays
  <2>3. RecordsTell'
    BY <1>0, <2>1 DEF RunTells, RecordsTell, Done, Record
  <2>4. RunTells'
    BY <1>0, <2>1, <2>2, <2>3 DEF RunTells
  <2>5. StoreTells'
    BY <1>0, <2>1, <2>2 DEF StoreTells, storeVars
  <2>6. RecoveryTells'
    BY <1>0, <2>1, <2>5, RecoveryWaits DEF StoreTells
  <2> QED
    BY <2>4, <2>5, <2>6 DEF PipelineInv
<1> QED
  BY <1>1, <1>2, <1>3, <1>4, <1>5, <1>6, <1>7 DEF RunStep

(* What is between a run and its recovery.                                 *)
LEMMA BetweenSteps ==
    ASSUME PipelineInv, Restart \/ LoseArtifact
    PROVE  PipelineInv'
<1>0. RunTells /\ StoreTells /\ RecoveryTells
  BY DEF PipelineInv
<1>1. /\ UNCHANGED <<input, silent, typed, status, position, context, records, checkpoints, recoveryVars>>
      /\ status # "running"
  BY DEF Restart, LoseArtifact, runVars
<1>2. Uninterrupted' = Uninterrupted
  BY <1>1, UninterruptedStays
<1>3. RunTells'
  BY <1>0, <1>1, <1>2 DEF RunTells, RecordsTell, Done, Record
<1>4. known' \in {{}, DOMAIN checkpoints'} /\ lost' \subseteq DOMAIN checkpoints'
  <2>1. CASE Restart
    BY <1>0, <1>1, <2>1 DEF Restart, StoreTells
  <2>2. CASE LoseArtifact
    BY <1>0, <1>1, <2>2 DEF LoseArtifact, StoreTells
  <2> QED
    BY <2>1, <2>2
<1>5. StoreTells'
  BY <1>0, <1>1, <1>2, <1>4 DEF StoreTells
<1>6. RecoveryTells'
  BY <1>0, <1>1, RecoveryStays
<1> QED
  BY <1>3, <1>5, <1>6 DEF PipelineInv

(* The last known good checkpoint is the last one stored, or none.         *)
LEMMA LastKnownFacts ==
    ASSUME StoreTells
    PROVE  /\ LastKnownGood \in 0..Len(checkpoints) /\ LastKnownGood \in Nat
           /\ LastKnownGood \in {NoCheckpoint, Len(checkpoints)}
<1>1. known \in {{}, DOMAIN checkpoints} /\ DOMAIN checkpoints = 1..Len(checkpoints) /\ Len(checkpoints) \in Nat
  BY DEF StoreTells
<1> DEFINE n == Len(checkpoints)
<1>2. known \in {{}, 1..n} /\ n \in Nat
  BY <1>1
<1> HIDE DEF n
<1>3. CASE known = {}
  BY <1>2, <1>3 DEF LastKnownGood, NoCheckpoint, n
<1>4. CASE known # {}
  <2>1. known \in SUBSET (1..n) /\ n \in Int
    BY <1>2, <1>4
  <2>2. \E c \in known : \A other \in known : other <= c
    BY <1>4, <2>1, Greatest
  <2>3. LastKnownGood \in known
    BY <1>4, <2>2 DEF LastKnownGood
  <2>4. LastKnownGood \in 0..n /\ LastKnownGood \in Nat
    BY <1>2, <2>1, <2>3
  <2>5. known = 1..n /\ \A other \in known : other <= LastKnownGood
    BY <1>2, <1>4, <2>2 DEF LastKnownGood
  <2>6. LastKnownGood = n
    <3>1. LastKnownGood \in 1..n /\ \A other \in 1..n : other <= LastKnownGood
      BY <2>3, <2>5
    <3> DEFINE g == LastKnownGood
    <3>2. g \in 1..n /\ n \in 1..n => n <= g
      BY <3>1
    <3> HIDE DEF g
    <3>3. g \in 1..n
      BY <3>1 DEF g
    <3>4. g = n
      BY <1>2, <3>2, <3>3
    <3> QED
      BY <3>4 DEF g
  <2> QED
    BY <2>4, <2>6 DEF n
<1> QED
  BY <1>3, <1>4

(* The decision that the analysis of a run that is over ends in.           *)
LEMMA AnalyzeStep ==
    ASSUME PipelineInv, AnalyzeFailure
    PROVE  PipelineInv'
<1>0. RunTells /\ StoreTells /\ RecoveryTells /\ LastKnownGood \in {NoCheckpoint, Len(checkpoints)} /\ LastKnownGood \in Nat
  BY LastKnownFacts DEF PipelineInv
<1>1. /\ UNCHANGED <<input, silent, typed, status, position, context, records, checkpoints, known, lost>>
      /\ UNCHANGED <<rerun, attempts, recovered, result>>
      /\ status # "running" /\ decision = NoDecision
  BY DEF AnalyzeFailure, runVars, storeVars
<1>2. PICK reported \in SUBSET Pipeline :
         LET fault == Detect(status, records)
         IN  decision' = Decide(fault, Localize(records, fault, reported), LastKnownGood)
  BY DEF AnalyzeFailure
<1>3. rerun = NoNode /\ result = NoResult /\ result.success = FALSE
  BY <1>0, <1>1 DEF RecoveryTells, NoResult
<1>4. RecordsTell /\ status \in {"SUCCESS", "FAILED"}
  BY <1>0, <1>1 DEF RunTells
<1>5. /\ decision' \in [action : Action, approval : BOOLEAN, target : 0..Length,
                        checkpoint : {NoCheckpoint, LastKnownGood}]
      /\ decision'.action = "ROLLBACK" => decision'.checkpoint # NoCheckpoint
      /\ decision'.action = "RERUN_FROM_NODE" => status = "FAILED" /\ decision'.target \in 1..position
      /\ decision'.action \in {"RETRY", "ROLLBACK", "RERUN_FROM_NODE"} =>
            \A i \in DOMAIN records : records[i].error \notin Integrity
  BY <1>0, <1>2, <1>4, ChoiceFacts
<1>6. Uninterrupted' = Uninterrupted
  BY <1>1, UninterruptedStays
<1>7. RunTells' /\ StoreTells'
  <2>1. RunTells'
    BY <1>0, <1>1, <1>6 DEF RunTells, RecordsTell, Done, Record
  <2>2. StoreTells'
    BY <1>0, <1>1, <1>6 DEF StoreTells
  <2> QED
    BY <2>1, <2>2
<1>8. RecoveryTells'
  <2>1. {NoCheckpoint, LastKnownGood} \subseteq {NoCheckpoint, Len(checkpoints')}
    BY <1>0, <1>1 DEF NoCheckpoint
  <2>2. decision' \in [action : Action \cup {"none"}, approval : BOOLEAN, target : 0..Length,
                        checkpoint : {NoCheckpoint, Len(checkpoints')}]
    BY <1>5, <2>1
  <2>3. decision'.action # "none" /\ NoDecision.action = "none"
    BY <1>5 DEF Action, NoDecision, Decision
  <2>4. /\ rerun' \in 0..Length + 1 /\ attempts' \in 0..MaxAttempts
        /\ result' = NoResult => attempts' < MaxAttempts
        /\ recovered' \in Seq(Int)
    BY <1>0, <1>1 DEF RecoveryTells
  <2>5. decision' # NoDecision
    BY <2>3
  <2> QED
    BY <1>1, <1>3, <1>5, <2>2, <2>4, <2>5 DEF RecoveryTells, NoDecision, NoResult
<1> QED
  BY <1>7, <1>8 DEF PipelineInv

(* Signs are what a bad rerun changes: the run's own data has none.        *)
LEMMA MagnitudesKeep ==
    ASSUME NEW data \in Seq(Nat)
    PROVE  Magnitudes(data) = data
<1>1. \A i \in DOMAIN data : (IF data[i] < 0 THEN 0 - data[i] ELSE data[i]) = data[i]
  <2> SUFFICES ASSUME NEW i \in DOMAIN data PROVE (IF data[i] < 0 THEN 0 - data[i] ELSE data[i]) = data[i]
    OBVIOUS
  <2>1. data[i] \in Nat
    OBVIOUS
  <2> QED
    BY <2>1
<1>2. data = [i \in DOMAIN data |-> data[i]]
  OBVIOUS
<1>3. Magnitudes(data) = [i \in DOMAIN data |-> data[i]]
  BY <1>1, Zenon DEF Magnitudes
<1> QED
  BY <1>2, <1>3

(* A rerun's node and a run's node make the same of data but for the       *)
(* signs.                                                                  *)
LEMMA MagnitudesApplied ==
    ASSUME NEW data \in Seq(Int), NEW node \in Nat, NEW new \in {Applied(data, node), AppliedBadly(data, node)}
    PROVE  new \in Seq(Int) /\ Magnitudes(new) = Applied(Magnitudes(data), node)
<1>1. CASE node \in silent
  <2>1. new = << >>
    BY <1>1 DEF Applied, AppliedBadly, NoData
  <2>2. Magnitudes(<< >>) = << >>
    BY DEF Magnitudes
  <2> QED
    BY <1>1, <2>1, <2>2 DEF Applied, NoData
<1>2. CASE node \notin silent
  <2>1. PICK last \in {node, 0 - node} : new = Append(data, last)
    BY <1>2 DEF Applied, AppliedBadly
  <2>2. last \in Int /\ (IF last < 0 THEN 0 - last ELSE last) = node
    BY <2>1
  <2> DEFINE Size(d) == [i \in DOMAIN d |-> IF d[i] < 0 THEN 0 - d[i] ELSE d[i]]
             before == Size(data)
             after == Size(new)
  <2>3. before \in Seq(Int) /\ Len(before) = Len(data)
    <3> DEFINE m == Len(data)
    <3>1. m \in Nat /\ DOMAIN data = 1..m /\ \A i \in 1..m : data[i] \in Int
      OBVIOUS
    <3>2. before = [i \in 1..m |-> IF data[i] < 0 THEN 0 - data[i] ELSE data[i]]
      BY <3>1
    <3>3. before \in [1..m -> Int]
      <4> HIDE DEF m
      <4>1. \A i \in 1..m : (IF data[i] < 0 THEN 0 - data[i] ELSE data[i]) \in Int
        BY <3>1
      <4> QED
        BY <3>2, <4>1
    <3> HIDE DEF m, before
    <3>4. before \in Seq(Int) /\ Len(before) = m
      BY <3>1, <3>3
    <3> QED
      BY <3>4 DEF m
  <2>4. /\ new \in Seq(Int) /\ Len(new) = Len(data) + 1
        /\ DOMAIN new = DOMAIN data \cup {Len(data) + 1}
        /\ new[Len(data) + 1] = last /\ \A i \in DOMAIN data : new[i] = data[i] /\ i # Len(data) + 1
    BY <2>1, <2>2
  <2>5. \A i \in DOMAIN new : after[i] = Append(before, node)[i]
    <3> SUFFICES ASSUME NEW i \in DOMAIN new PROVE after[i] = Append(before, node)[i]
      OBVIOUS
    <3>1. CASE i \in DOMAIN data
      <4>1. after[i] = before[i]
        BY <2>4, <3>1
      <4>2. i \in DOMAIN before /\ i # Len(before) + 1
        BY <2>3, <2>4, <3>1
      <4> HIDE DEF before, after
      <4>3. Append(before, node)[i] = before[i]
        BY <2>3, <4>2
      <4> QED
        BY <4>1, <4>3
    <3>2. CASE i = Len(data) + 1
      <4>1. after[i] = node
        BY <2>2, <2>4, <3>2
      <4> HIDE DEF before, after
      <4>2. Append(before, node)[i] = node
        BY <2>3, <3>2
      <4> QED
        BY <4>1, <4>2
    <3> QED
      BY <2>4, <3>1, <3>2
  <2>6. DOMAIN Append(before, node) = DOMAIN new
    <3>1. DOMAIN before = DOMAIN data
      OBVIOUS
    <3> HIDE DEF before
    <3>2. DOMAIN Append(before, node) = DOMAIN before \cup {Len(before) + 1}
      BY <2>3
    <3> QED
      BY <2>3, <2>4, <3>1, <3>2
  <2>7. after = Append(before, node)
    <3>1. after = [i \in DOMAIN new |-> after[i]]
      OBVIOUS
    <3> HIDE DEF before, after
    <3>2. Append(before, node) = [i \in DOMAIN new |-> Append(before, node)[i]]
      <4> DEFINE longer == Append(before, node)
      <4>1. longer \in Seq(Int)
        BY <2>3
      <4> HIDE DEF longer
      <4>2. longer = [i \in DOMAIN longer |-> longer[i]]
        BY <4>1
      <4> QED
        BY <2>6, <4>2 DEF longer
    <3> QED
      BY <2>5, <3>1, <3>2
  <2> QED
    BY <1>2, <2>4, <2>7 DEF Magnitudes, Applied
<1> QED
  BY <1>1, <1>2

(* Of what a step of the recovery leaves alone.                            *)
LEMMA RecoverFrame ==
    ASSUME PipelineInv, UNCHANGED <<runVars, storeVars, decision>>, RecoveryTells'
    PROVE  PipelineInv'
<1>1. UNCHANGED <<input, silent, typed, status, position, context, records, checkpoints, known, lost>>
  BY DEF runVars, storeVars
<1>2. Uninterrupted' = Uninterrupted
  BY <1>1, UninterruptedStays
<1>3. RunTells'
  BY <1>1, <1>2 DEF PipelineInv, RunTells, RecordsTell, Done, Record
<1>4. StoreTells'
  BY <1>1, <1>2 DEF PipelineInv, StoreTells
<1> QED
  BY <1>3, <1>4 DEF PipelineInv

(* A step of the recovery, whichever.                                      *)
LEMMA RecoverSteps ==
    ASSUME PipelineInv, RecoverStep
    PROVE  PipelineInv'
<1>0. RunTells /\ StoreTells /\ RecoveryTells
  BY DEF PipelineInv
<1>1. UNCHANGED <<runVars, storeVars, decision>>
  BY DEF RecoverStep, RetryPipeline, RollBack, RestoreFails, NodesMissing, StartRerun, RerunNode,
         RerunRaises, RerunCompletes, ReportOnly
<1>2. UNCHANGED <<input, silent, typed, status, position, context, records, checkpoints, known, lost, decision>>
  BY <1>1 DEF runVars, storeVars
<1>3. /\ Uninterrupted' = Uninterrupted /\ Joins' = Joins
      /\ NoResult' = NoResult /\ NoResult.success = FALSE
      /\ FiledPrefix(decision.checkpoint)' = FiledPrefix(decision.checkpoint)
  BY <1>2, UninterruptedStays DEF Joins, NoResult, FiledPrefix, Refiled
<1>4. result = NoResult /\ decision # NoDecision /\ decision.action # "none" /\ status # "running"
      /\ attempts < MaxAttempts
  <2>1. result = NoResult /\ decision.action \in Action
    BY DEF RecoverStep, RetryPipeline, RollBack, RestoreFails, NodesMissing, StartRerun, RerunNode,
           RerunRaises, RerunCompletes, ReportOnly, Acting, Rerunning, Action
  <2>2. decision.action # "none" /\ NoDecision.action = "none"
    BY <2>1 DEF Action, NoDecision, Decision
  <2> QED
    BY <1>0, <2>1, <2>2 DEF RecoveryTells
<1>5. /\ decision \in [action : Action \cup {"none"}, approval : BOOLEAN, target : 0..Length,
                       checkpoint : {NoCheckpoint, Len(checkpoints)}]
      /\ rerun \in 0..Length + 1 /\ attempts \in 0..MaxAttempts
      /\ recovered \in Seq(Int)
      /\ decision.action = "ROLLBACK" => decision.checkpoint # NoCheckpoint
      /\ decision.action = "RERUN_FROM_NODE" => status = "FAILED" /\ decision.target \in 1..position
      /\ decision.action \in {"RETRY", "ROLLBACK", "RERUN_FROM_NODE"} =>
            \A i \in DOMAIN records : records[i].error \notin Integrity
      /\ rerun # NoNode => decision.action = "RERUN_FROM_NODE"
      /\ rerun # NoNode /\ Joins => Magnitudes(recovered) = Uninterrupted[rerun - 1]
  BY <1>0 DEF RecoveryTells
<1>6. ASSUME recovered' = recovered, rerun' = rerun, attempts' \in 0..MaxAttempts,
             result' = NoResult => attempts' < MaxAttempts,
             result'.success =>
                /\ decision.action = "RETRY" \/ (decision.action = "RERUN_FROM_NODE" /\ rerun = Length + 1)
                /\ decision.action = "RERUN_FROM_NODE" =>
                      result'.from = decision.checkpoint /\ result'.resumed = decision.target
      PROVE  PipelineInv'
  <2>1. Magnitudes(recovered)' = Magnitudes(recovered)
    BY <1>6 DEF Magnitudes
  <2>2. RecoveryTells'
    <3>1. (rerun # NoNode /\ Joins => Magnitudes(recovered) = Uninterrupted[rerun - 1])'
      BY <1>3, <1>5, <1>6, <2>1
    <3>2. (result.success =>
          /\ decision.action \in {"RETRY", "ROLLBACK", "RERUN_FROM_NODE"}
          /\ decision.action = "ROLLBACK" => recovered = FiledPrefix(decision.checkpoint)
          /\ decision.action = "RERUN_FROM_NODE" =>
                result.from = decision.checkpoint /\ result.resumed = decision.target /\ rerun = Length + 1)'
      BY <1>2, <1>6
    <3> QED
      BY <1>2, <1>3, <1>4, <1>5, <1>6, <3>1, <3>2 DEF RecoveryTells, NoDecision
  <2> QED
    BY <1>1, <2>2, RecoverFrame
<1>7. /\ Failed.success = FALSE /\ Failed # NoResult
      /\ \A s, f, n, v : Outcome(s, v, f, n).success = v /\ Outcome(s, v, f, n).from = f
                         /\ Outcome(s, v, f, n).resumed = n /\ Outcome(s, v, f, n).status = s
  BY DEF Failed, Outcome, NoResult
<1>8. CASE RetryPipeline
  <2>1. /\ decision.action = "RETRY" /\ UNCHANGED <<rerun, attempts, recovered>>
        /\ \/ result' = Outcome("SKIPPED", FALSE, NoCheckpoint, NoNode)
           \/ result' = Outcome("SUCCESS", TRUE, NoCheckpoint, NoNode)
           \/ result' = Failed
    BY <1>8 DEF RetryPipeline, Acting, Conclude
  <2> QED
    BY <1>4, <1>5, <1>6, <1>7, <2>1
<1>9. CASE RollBack
  <2>1. /\ decision.action = "ROLLBACK" /\ UNCHANGED <<rerun, attempts>>
        /\ IF Usable(decision.checkpoint)
           THEN /\ recovered' = Restored(decision.checkpoint)
                /\ result' = Outcome("SUCCESS", TRUE, decision.checkpoint, NoNode)
           ELSE result' = Failed /\ recovered' = recovered
    BY <1>9 DEF RollBack, Acting, Conclude
  <2>2. CASE ~Usable(decision.checkpoint)
    BY <1>4, <1>5, <1>6, <1>7, <2>1, <2>2
  <2>3. CASE Usable(decision.checkpoint)
    <3>1. decision.checkpoint \in DOMAIN checkpoints
      BY <1>0, <2>3 DEF Usable, StoreTells
    <3>2. recovered' \in Seq(Int) /\ recovered' = FiledPrefix(decision.checkpoint)
      <4>1. Restored(decision.checkpoint) \in Seq(Nat)
            /\ Restored(decision.checkpoint) = FiledPrefix(decision.checkpoint)
        BY <1>0, <3>1, RestoredFacts
      <4>2. \A d \in Seq(Nat) : d \in Seq(Int)
        OBVIOUS
      <4> QED
        BY <2>1, <2>3, <4>1, <4>2
    <3>3. rerun = NoNode
      BY <1>5, <2>1
    <3>4. result'.success = TRUE /\ result' # NoResult
      <4>1. result' = Outcome("SUCCESS", TRUE, decision.checkpoint, NoNode)
        BY <2>1, <2>3
      <4>2. result'.success = TRUE
        BY <4>1 DEF Outcome
      <4> QED
        BY <1>3, <4>2
    <3>5. RecoveryTells'
      BY <1>2, <1>3, <1>4, <1>5, <2>1, <3>2, <3>3, <3>4 DEF RecoveryTells, NoDecision
    <3> QED
      BY <1>1, <3>5, RecoverFrame
  <2> QED
    BY <2>2, <2>3
<1>10. CASE RestoreFails \/ NodesMissing
  <2>1. result' = Failed /\ UNCHANGED <<rerun, attempts, recovered>>
    BY <1>10 DEF RestoreFails, NodesMissing, Conclude
  <2> QED
    BY <1>4, <1>5, <1>6, <1>7, <2>1
<1>11. CASE StartRerun
  <2>1. /\ decision.action = "RERUN_FROM_NODE" /\ rerun = NoNode
        /\ decision.checkpoint # NoCheckpoint => Usable(decision.checkpoint)
        /\ rerun' = decision.target /\ UNCHANGED <<attempts, result>>
        /\ recovered' = IF decision.checkpoint = NoCheckpoint THEN NoData
                        ELSE Restored(decision.checkpoint)
    BY <1>11 DEF StartRerun, Acting
  <2>2. decision.target \in 1..position /\ position \in 1..Length + 1
    BY <1>0, <1>5, <2>1 DEF RunTells, RecordsTell
  <2>3. rerun' \in 0..Length + 1 /\ rerun' - 1 \in Nat
    BY <2>1, <2>2
  <2>4. recovered' \in Seq(Int) /\ (Joins => Magnitudes(recovered)' = Uninterrupted[rerun' - 1])
    <3>1. CASE decision.checkpoint = NoCheckpoint
      <4>1. recovered' = << >>
        BY <2>1, <3>1 DEF NoData
      <4>2. Magnitudes(recovered') = << >>
        BY <4>1 DEF Magnitudes
      <4>3. Joins => rerun' - 1 = 0 /\ input = << >>
        BY <2>1, <3>1 DEF Joins, NoData
      <4> QED
        BY <4>1, <4>2, <4>3, UninterruptedIs DEF Magnitudes
    <3>2. CASE decision.checkpoint # NoCheckpoint
      <4>1. decision.checkpoint \in DOMAIN checkpoints
        BY <1>0, <2>1, <3>2 DEF Usable, StoreTells
      <4>2. /\ Restored(decision.checkpoint) \in Seq(Nat)
            /\ decision.checkpoint \notin typed =>
                  Restored(decision.checkpoint) = Uninterrupted[decision.checkpoint]
        BY <1>0, <4>1, RestoredFacts
      <4>3. recovered' = Restored(decision.checkpoint)
        BY <2>1, <3>2
      <4>4. Magnitudes(recovered') = recovered'
        BY <4>2, <4>3, MagnitudesKeep
      <4>5. Joins => rerun' - 1 = decision.checkpoint /\ decision.checkpoint \notin typed
        BY <2>1, <3>2 DEF Joins
      <4>6. \A d \in Seq(Nat) : d \in Seq(Int)
        OBVIOUS
      <4> QED
        BY <4>2, <4>3, <4>4, <4>5, <4>6 DEF Magnitudes
    <3> QED
      BY <3>1, <3>2
  <2>5. result'.success = FALSE
    BY <1>3, <1>4, <2>1
  <2>6. RecoveryTells'
    BY <1>2, <1>3, <1>4, <1>5, <2>1, <2>3, <2>4, <2>5 DEF RecoveryTells, NoDecision
  <2> QED
    BY <1>1, <2>6, RecoverFrame
<1>12. CASE RerunNode
  <2>1. /\ decision.action = "RERUN_FROM_NODE" /\ rerun \in Pipeline
        /\ recovered' \in {Applied(recovered, rerun), AppliedBadly(recovered, rerun)}
        /\ rerun' = rerun + 1 /\ attempts' = 0 /\ result' = result
    BY <1>12 DEF RerunNode, Rerunning, Acting
  <2>2. rerun \in 1..Length /\ rerun \in Nat /\ rerun' \in 0..Length + 1 /\ rerun' - 1 = rerun
        /\ rerun # NoNode /\ attempts' \in 0..MaxAttempts /\ attempts' < MaxAttempts
    BY <2>1 DEF Pipeline, NoNode
  <2>3. recovered' \in Seq(Int) /\ Magnitudes(recovered') = Applied(Magnitudes(recovered), rerun)
    BY <1>5, <2>1, <2>2, MagnitudesApplied
  <2>4. Joins => Magnitudes(recovered') = Uninterrupted[rerun' - 1]
    BY <1>5, <2>2, <2>3, UninterruptedIs
  <2>5. result'.success = FALSE
    BY <1>3, <1>4, <2>1
  <2>6. Magnitudes(recovered)' = Magnitudes(recovered')
    BY DEF Magnitudes
  <2>7. RecoveryTells'
    BY <1>2, <1>3, <1>4, <1>5, <2>1, <2>2, <2>3, <2>4, <2>5, <2>6 DEF RecoveryTells, NoDecision
  <2> QED
    BY <1>1, <2>7, RecoverFrame
<1>13. CASE RerunRaises
  <2>1. /\ UNCHANGED <<rerun, recovered>> /\ attempts' = attempts + 1
        /\ IF attempts' = MaxAttempts THEN result' = Failed ELSE result' = result
    BY <1>13 DEF RerunRaises, Conclude
  <2>2. attempts' \in 0..MaxAttempts /\ (attempts' < MaxAttempts \/ attempts' = MaxAttempts)
    BY <1>4, <1>5, <2>1
  <2> QED
    BY <1>3, <1>4, <1>6, <1>7, <2>1, <2>2
<1>14. CASE RerunCompletes
  <2>1. /\ decision.action = "RERUN_FROM_NODE" /\ rerun = Length + 1 /\ UNCHANGED <<rerun, attempts, recovered>>
        /\ result' = Outcome("SUCCESS", TRUE, decision.checkpoint, decision.target)
    BY <1>14 DEF RerunCompletes, Acting, Conclude
  <2>2. /\ result'.success = TRUE /\ result'.from = decision.checkpoint
        /\ result'.resumed = decision.target
    BY <2>1 DEF Outcome
  <2>3. result' # NoResult
    BY <1>3, <2>2
  <2> QED
    BY <1>5, <1>6, <2>1, <2>2, <2>3
<1>15. CASE ReportOnly
  <2>1. /\ UNCHANGED <<rerun, attempts, recovered>>
        /\ \E s : result' = Outcome(s, FALSE, NoCheckpoint, NoNode)
    BY <1>15 DEF ReportOnly, Conclude
  <2>2. result'.success = FALSE
    BY <2>1 DEF Outcome
  <2> QED
    BY <1>4, <1>5, <1>6, <2>1, <2>2
<1> QED
  BY <1>8, <1>9, <1>10, <1>11, <1>12, <1>13, <1>14, <1>15 DEF RecoverStep

(* A step of the run, of its files or of the recovery, or a stutter.       *)
LEMMA PipelineStep ==
    ASSUME PipelineInv, [PipelineNext]_pipelineVars
    PROVE  PipelineInv'
<1>1. CASE UNCHANGED pipelineVars
  <2>1. UNCHANGED <<runVars, storeVars, decision>> /\ UNCHANGED recoveryVars
    BY <1>1 DEF pipelineVars, recoveryVars
  <2>2. UNCHANGED <<input, silent, typed, status, position, records, checkpoints, recoveryVars>>
    BY <2>1 DEF runVars, storeVars
  <2>3. RecoveryTells'
    BY <2>2, RecoveryStays DEF PipelineInv
  <2> QED
    BY <2>1, <2>3, RecoverFrame
<1> QED
  BY <1>1, RunSteps, BetweenSteps, AnalyzeStep, RecoverSteps DEF PipelineNext

(* A run's checkpoints are what each node made of the one before, its      *)
(* records end at the first failure, and both keep their types, whatever   *)
(* fails, is lost or is restarted.                                         *)
LEMMA PipelineInvSound == PipelineInv => PipelineSound
<1> SUFFICES ASSUME PipelineInv PROVE PipelineSound
  OBVIOUS
<1>0. RunTells /\ StoreTells /\ RecoveryTells /\ RecordsTell
  BY DEF PipelineInv, RunTells
<1>1. \A d \in Seq(Nat) : d \in Seq(Int)
  OBVIOUS
<1>2. PipelineTypeOK
  <2>1. checkpoints \in Seq([node : Pipeline, data : Seq(Int), filed : BOOLEAN])
    <3> DEFINE A == [node : Pipeline, data : Seq(Nat), filed : BOOLEAN]
               B == [node : Pipeline, data : Seq(Int), filed : BOOLEAN]
    <3>1. \A a \in A : a \in B
      BY <1>1
    <3>2. checkpoints \in Seq(A)
      BY <1>0 DEF StoreTells
    <3> HIDE DEF A, B
    <3>3. checkpoints \in Seq(B)
      BY <3>1, <3>2
    <3> QED
      BY <3>3 DEF B
  <2>2. context \in Seq(Int)
    BY <1>0, <1>1 DEF RunTells
  <2>3. decision.target \in 0 .. Length /\ decision.checkpoint \in 0 .. Len(checkpoints)
        /\ rerun \in 0 .. Length + 1 /\ attempts \in 0 .. MaxAttempts /\ recovered \in Seq(Int)
    <3>1. Len(checkpoints) \in Nat /\ NoCheckpoint = 0
      BY <1>0 DEF StoreTells, NoCheckpoint
    <3>2. decision.checkpoint \in {NoCheckpoint, Len(checkpoints)}
      BY <1>0 DEF RecoveryTells
    <3>3. decision.checkpoint \in 0 .. Len(checkpoints)
      BY <3>1, <3>2
    <3> QED
      BY <1>0, <3>3 DEF RecoveryTells
  <2>4. known \subseteq DOMAIN checkpoints /\ lost \subseteq DOMAIN checkpoints
    BY <1>0 DEF StoreTells
  <2>5. position \in 1 .. Length + 1 /\ records \in Seq(NodeRecord)
    BY <1>0 DEF RecordsTell
  <2>6. input \in {NoData, CallerInput} /\ silent \subseteq Pipeline /\ typed \subseteq Pipeline
        /\ status \in {"running", "SUCCESS", "FAILED"}
    BY <1>0 DEF RunTells
  <2> QED
    BY <2>1, <2>2, <2>3, <2>4, <2>5, <2>6 DEF PipelineTypeOK
<1>3. CheckpointsAreThePrefix
  <2> SUFFICES ASSUME NEW c \in DOMAIN checkpoints
               PROVE  /\ checkpoints[c].node = c
                      /\ checkpoints[c].data = Applied(IF c = 1 THEN input ELSE checkpoints[c - 1].data, c)
    BY DEF CheckpointsAreThePrefix
  <2>1. /\ checkpoints[c].node = c /\ checkpoints[c].data = Uninterrupted[c]
        /\ checkpoints[c].node \in Pipeline
    BY <1>0, StoredFacts
  <2>2. c \in 1..Length
    BY <2>1 DEF Pipeline
  <2>3. Uninterrupted[c] = Applied(Uninterrupted[c - 1], c)
    BY <2>2, UninterruptedIs
  <2>4. CASE c = 1
    <3>1. c - 1 = 0
      BY <2>4
    <3> QED
      BY <2>1, <2>3, <2>4, <3>1, UninterruptedIs
  <2>5. CASE c # 1
    <3>1. c - 1 \in DOMAIN checkpoints
      <4>1. DOMAIN checkpoints = 1..Len(checkpoints) /\ Len(checkpoints) \in Nat
        BY <1>0 DEF StoreTells
      <4> QED
        BY <2>2, <2>5, <4>1
    <3>2. checkpoints[c - 1].data = Uninterrupted[c - 1]
      BY <1>0, <3>1 DEF StoreTells
    <3> QED
      BY <2>1, <2>3, <2>5, <3>2
  <2> QED
    BY <2>4, <2>5
<1>4. NothingAfterFailure
  <2> SUFFICES ASSUME NEW i \in DOMAIN records
               PROVE  /\ records[i].status = "SUCCESS" => records[i].node = i /\ records[i].checkpoint = i
                      /\ records[i].status = "FAILED" => i = Len(records) /\ status = "FAILED"
    BY DEF NothingAfterFailure
  <2>1. i \in Nat /\ Len(records) \in Nat /\ i <= Len(records)
    <3>1. DOMAIN records = 1..Len(records) /\ Len(records) \in Nat
      BY <1>0 DEF RecordsTell
    <3> QED
      BY <3>1
  <2>2. CASE i < Len(records) \/ status # "FAILED"
    <3>1. records[i] = Done(i)
      BY <1>0, <2>2 DEF RecordsTell
    <3> QED
      BY <3>1 DEF Done, Record
  <2>3. CASE i = Len(records) /\ status = "FAILED"
    <3>1. \E error \in Errors : records[i] = Record(position, "FAILED", error, NoCheckpoint)
      BY <1>0, <2>3 DEF RecordsTell
    <3> QED
      BY <2>3, <3>1 DEF Record
  <2> QED
    BY <2>1, <2>2, <2>3
<1> QED
  BY <1>2, <1>3, <1>4 DEF PipelineSound

(* What a decision led to rests on the stages the run had finished.        *)
LEMMA RecoveryInvSound == PipelineInv => RecoverySound
<1> SUFFICES ASSUME PipelineInv PROVE RecoverySound
  OBVIOUS
<1>0. RunTells /\ StoreTells /\ RecoveryTells /\ RecordsTell
  BY DEF PipelineInv, RunTells
<1>1. /\ decision.checkpoint \in {0, Len(checkpoints)} /\ Len(checkpoints) \in Nat
      /\ DOMAIN checkpoints = 1..Len(checkpoints) /\ NoCheckpoint = 0 /\ NoNode = 0
  BY <1>0 DEF RecoveryTells, StoreTells, NoCheckpoint, NoNode
<1>2. position \in 1..Length + 1 /\ Len(checkpoints) <= position /\ position <= Len(checkpoints) + 1
  <2>1. position \in 1..Length + 1 /\ Len(checkpoints) \in {position - 1, position}
    BY <1>0 DEF RecordsTell, StoreTells
  <2> QED
    BY <2>1
<1>3. RollbackIsToAPrefix
  <2> SUFFICES ASSUME decision.action = "ROLLBACK", result.success
               PROVE  \E n \in 1..position : recovered = Refiled(n, Uninterrupted[n])
    BY DEF RollbackIsToAPrefix
  <2>1. recovered = Refiled(decision.checkpoint, Uninterrupted[decision.checkpoint]) /\ decision.checkpoint # 0
    BY <1>0, <1>1 DEF RecoveryTells, FiledPrefix
  <2>2. decision.checkpoint \in 1..position
    BY <1>1, <1>2, <2>1
  <2> QED
    BY <2>1, <2>2
<1>4. RerunIsWhole
  <2> SUFFICES ASSUME decision.action = "RERUN_FROM_NODE", result.success,
                      IF result.from = NoCheckpoint THEN result.resumed = 1 /\ input = NoData
                      ELSE checkpoints[result.from].node = result.resumed - 1 /\ result.resumed - 1 \notin typed
               PROVE  Magnitudes(recovered) = Uninterrupted[Length]
    BY DEF RerunIsWhole
  <2>1. result.from = decision.checkpoint /\ result.resumed = decision.target /\ rerun = Length + 1
    BY <1>0 DEF RecoveryTells
  <2>2. Joins
    <3>1. CASE decision.checkpoint = NoCheckpoint
      BY <2>1, <3>1 DEF Joins
    <3>2. CASE decision.checkpoint # NoCheckpoint
      <4>1. decision.checkpoint \in DOMAIN checkpoints
        BY <1>1, <3>2
      <4>2. checkpoints[decision.checkpoint].node = decision.checkpoint
        BY <1>0, <4>1, StoredFacts
      <4> QED
        BY <2>1, <3>2, <4>2 DEF Joins
    <3> QED
      BY <3>1, <3>2
  <2>3. rerun # NoNode /\ rerun - 1 = Length
    BY <1>1, <2>1
  <2> QED
    BY <1>0, <2>2, <2>3 DEF RecoveryTells
<1>5. RerunSkipsOnlySucceeded
  <2> SUFFICES ASSUME rerun # NoNode, NEW n \in 1..decision.target - 1
               PROVE  \E i \in DOMAIN records : records[i].node = n /\ records[i].status = "SUCCESS"
    BY DEF RerunSkipsOnlySucceeded
  <2>1. status = "FAILED" /\ decision.target \in 1..position
    BY <1>0 DEF RecoveryTells
  <2>2. DOMAIN records = 1..Len(records) /\ Len(records) \in {position, position + 1}
    BY <1>0, <2>1 DEF RecordsTell
  <2>3. n \in 1..Len(records) /\ n < Len(records)
    <3>1. position \in Nat
      BY <1>2
    <3>2. decision.target \in Nat /\ decision.target <= position
      BY <2>1, <3>1
    <3>3. n \in Nat /\ n >= 1 /\ n < position
      BY <3>1, <3>2
    <3> DEFINE l == Len(records)
    <3>4. l = position \/ l = position + 1
      BY <2>2
    <3> HIDE DEF l
    <3>5. n \in 1..l /\ n < l
      BY <3>1, <3>3, <3>4
    <3> QED
      BY <3>5 DEF l
  <2>4. records[n] = Done(n)
    BY <1>0, <2>2, <2>3 DEF RecordsTell
  <2>5. n \in DOMAIN records /\ records[n].node = n /\ records[n].status = "SUCCESS"
    BY <2>2, <2>3, <2>4 DEF Done, Record
  <2> QED
    BY <2>5
<1>6. RerunLeavesNothingOut
  <2> SUFFICES ASSUME decision.action = "RERUN_FROM_NODE", result.success, result.from # NoCheckpoint
               PROVE  result.resumed <= checkpoints[result.from].node + 1
    BY DEF RerunLeavesNothingOut
  <2>1. /\ result.from = decision.checkpoint /\ result.resumed = decision.target
        /\ decision.target \in 1..position
    BY <1>0 DEF RecoveryTells
  <2>2. result.from = Len(checkpoints) /\ result.from \in DOMAIN checkpoints
    BY <1>1, <2>1
  <2>3. checkpoints[result.from].node = Len(checkpoints)
    BY <1>0, <2>2, StoredFacts
  <2> DEFINE n == Len(checkpoints)
  <2>4. n \in Nat /\ position \in Nat /\ position <= n + 1 /\ result.resumed \in 1..position
    BY <1>1, <1>2, <2>1
  <2> HIDE DEF n
  <2>5. result.resumed <= n + 1
    BY <2>4
  <2> QED
    BY <2>3, <2>5 DEF n
<1>7. CorruptionIsNeverRecovered
  <2> SUFFICES ASSUME NEW i \in DOMAIN records, records[i].error \in Integrity, result.success
               PROVE  FALSE
    BY DEF CorruptionIsNeverRecovered, Integrity
  <2> QED
    BY <1>0 DEF RecoveryTells
<1> QED
  BY <1>3, <1>4, <1>5, <1>6, <1>7 DEF RecoverySound

(* The checkpoints of a run are exactly the stages it finished, in their   *)
(* order, and nothing is executed or stored after a failure, for every     *)
(* length of the pipeline and every way its nodes, its artifacts and its   *)
(* restarts fail (PipelineExecutor.execute, CheckpointManager.create).     *)
THEOREM PipelineIsSound == PipelineSpec => []PipelineSound
<1>1. PipelineInit => PipelineInv
  BY PipelineBegins
<1>2. PipelineInv /\ [PipelineNext]_pipelineVars => PipelineInv'
  BY PipelineStep
<1>3. PipelineInv => PipelineSound
  BY PipelineInvSound
<1> QED
  BY <1>1, <1>2, <1>3, PTL DEF PipelineSpec

(* A rollback that succeeds restored the file form of what the             *)
(* uninterrupted run held after a node; a rerun that succeeds left out     *)
(* only stages that had succeeded and none behind its checkpoint, and it   *)
(* is whole where it takes up right behind a checkpoint whose file holds   *)
(* what the node returned (or runs everything, without input).  Of a retry *)
(* success says nothing but that the callable did not raise.  Evidence of  *)
(* a corruption is answered by none of them.  All for every number of      *)
(* attempts (RecoveryExecutor.execute on what RecoveryDecisionEngine       *)
(* decides about the failed run).                                          *)
THEOREM RecoveryIsSound == PipelineSpec => []RecoverySound
<1>1. PipelineInit => PipelineInv
  BY PipelineBegins
<1>2. PipelineInv /\ [PipelineNext]_pipelineVars => PipelineInv'
  BY PipelineStep
<1>3. PipelineInv => RecoverySound
  BY RecoveryInvSound
<1> QED
  BY <1>1, <1>2, <1>3, PTL DEF PipelineSpec

(***************************************************************************)
(* Self-healing                                                            *)
(***************************************************************************)
PlanActions == {"REMAP_SCHEMA", "RERUN_FROM_CHECKPOINT", "RESTORE_CHECKPOINT", "REBUILD_ARTIFACT",
                "MANUAL_REVIEW", "USE_VALIDATED_PREPROCESSING", "RESTORE_CONFIGURATION", "RERUN_NODE"}
PlanStep == [action : PlanActions, risk : Severities]
Restoring == {"RESTORE_CHECKPOINT", "RERUN_FROM_CHECKPOINT"}

(* The steps that a plan may hold when there is, or is not, a checkpoint.  *)
Allowed(checkpoint) ==
    {step \in PlanStep : step.action \in Restoring => checkpoint # NoCheckpoint}

(* Whatever the category, a plan's steps are of the planner's.             *)
LEMMA PlanFacts ==
    ASSUME NEW category, NEW root, NEW checkpoint
    PROVE  PlanSteps(category, root, checkpoint) \in Seq(Allowed(checkpoint))
<1> DEFINE A == Allowed(checkpoint)
<1>2. ReviewStep("HIGH") \in A /\ ReviewStep("MEDIUM") \in A /\ ReviewStep("CRITICAL") \in A
      /\ Step("REMAP_SCHEMA", "LOW") \in A /\ Step("REBUILD_ARTIFACT", "MEDIUM") \in A
      /\ Step("USE_VALIDATED_PREPROCESSING", "LOW") \in A /\ Step("RESTORE_CONFIGURATION", "MEDIUM") \in A
      /\ Step("RERUN_NODE", "MEDIUM") \in A
  BY DEF Step, ReviewStep, Allowed, PlanStep, PlanActions, Severities, Restoring
<1>3. checkpoint # NoCheckpoint =>
         Step("RERUN_FROM_CHECKPOINT", "MEDIUM") \in A /\ Step("RESTORE_CHECKPOINT", "MEDIUM") \in A
         /\ Step("RESTORE_CHECKPOINT", "HIGH") \in A
  BY DEF Step, Allowed, PlanStep, PlanActions, Severities, Restoring
<1> HIDE DEF A
<1>4. /\ \A a \in A : <<a>> \in Seq(A)
      /\ \A a, b \in A : <<a, b>> \in Seq(A)
      /\ \A s, t \in Seq(A) : s \o t \in Seq(A)
      /\ << >> \in Seq(A)
  OBVIOUS
<1>5. SchemaSteps(root, checkpoint) \in Seq(A)
  BY <1>2, <1>3, <1>4 DEF SchemaSteps
<1>6. MissingSteps(checkpoint) \in Seq(A)
  BY <1>2, <1>3, <1>4 DEF MissingSteps
<1>7. CorruptedSteps(checkpoint) \in Seq(A)
  BY <1>2, <1>3, <1>4 DEF CorruptedSteps
<1>8. TransformationSteps(checkpoint) \in Seq(A)
  BY <1>2, <1>3, <1>4 DEF TransformationSteps
<1>9. DependencySteps(checkpoint) \in Seq(A)
  BY <1>2, <1>3, <1>4 DEF DependencySteps
<1>10. ResourceSteps \in Seq(A) /\ ConfigurationSteps \in Seq(A) /\ QualitySteps \in Seq(A)
       /\ TimeoutSteps \in Seq(A) /\ UnknownSteps \in Seq(A)
  BY <1>2, <1>4 DEF ResourceSteps, ConfigurationSteps, QualitySteps, TimeoutSteps, UnknownSteps
<1>11. ExecutionSteps(checkpoint) \in Seq(A)
  BY <1>2, <1>3, <1>4 DEF ExecutionSteps
<1>12. PlanSteps(category, root, checkpoint) \in Seq(A)
  BY <1>5, <1>6, <1>7, <1>8, <1>9, <1>10, <1>11 DEF PlanSteps
<1> QED
  BY <1>12 DEF A

(* The category of a plan is its fault's own.                              *)
LEMMA TopHypothesis ==
    ASSUME NEW fault, NEW place, NEW anyEvent
    PROVE  Hypotheses(fault, place, anyEvent)[1].category = HypothesisOf(fault.type)
<1> DEFINE others == SecondaryHypotheses(fault.type)
           primary == AtMost(BaseConfidence(fault.type) + LocalizationBoost(place)
                               + (IF anyEvent THEN 50 ELSE 0), MaxConfidence)
           top == [category |-> HypothesisOf(fault.type), confidence |-> primary]
           rest == [i \in DOMAIN others |->
                      [category |-> others[i],
                       confidence |-> AtLeast(AtMost((primary * (70 - 10 * i)) \div 100,
                                                     MaxConfidence), 50)]]
<1>1. Hypotheses(fault, place, anyEvent) = <<top>> \o rest
  BY DEF Hypotheses
<1>2. \E n \in Nat : DOMAIN others = 1..n
  <2>1. \A a, b, c : DOMAIN <<a, b>> = 1..2 /\ DOMAIN <<a, b, c>> = 1..3
    OBVIOUS
  <2>2. \/ \E a, b : others = <<a, b>>
        \/ \E a, b, c : others = <<a, b, c>>
    BY Zenon DEF SecondaryHypotheses
  <2> HIDE DEF others
  <2> QED
    BY <2>1, <2>2
<1> HIDE DEF others, primary
<1>3. top.category = HypothesisOf(fault.type)
  OBVIOUS
<1> DEFINE All == {rest[i] : i \in DOMAIN others} \cup {top}
<1>4. rest \in Seq(All)
  <2>1. PICK n \in Nat : DOMAIN others = 1..n
    BY <1>2
  <2>2. rest = [i \in 1..n |-> rest[i]] /\ \A i \in 1..n : rest[i] \in All
    BY <2>1
  <2> HIDE DEF rest, All
  <2>3. rest \in [1..n -> All]
    BY <2>2
  <2> QED
    BY <2>1, <2>3
<1>5. top \in All
  OBVIOUS
<1> HIDE DEF top, rest, All
<1>6. (<<top>> \o rest)[1] = top
  BY <1>4, <1>5
<1> QED
  BY <1>1, <1>3, <1>6

(* Of a fault that a rollback answers, the plan first restores, or asks.   *)
LEMMA FirstStep ==
    ASSUME NEW type \in RollbackTypes, NEW root, NEW checkpoint, checkpoint # NoCheckpoint
    PROVE  LET steps == PlanSteps(HypothesisOf(type), root, checkpoint)
           IN  1 \in DOMAIN steps /\ steps[1].action \in {"RESTORE_CHECKPOINT", "MANUAL_REVIEW"}
<1> DEFINE Good(steps) == 1 \in DOMAIN steps /\ steps[1].action \in {"RESTORE_CHECKPOINT", "MANUAL_REVIEW"}
<1>1. Good(MissingSteps(checkpoint)) /\ Good(ExecutionSteps(checkpoint)) /\ Good(DependencySteps(checkpoint))
  BY DEF MissingSteps, ExecutionSteps, DependencySteps, Step, ReviewStep
<1>2. Good(ResourceSteps) /\ Good(TimeoutSteps) /\ Good(UnknownSteps)
  BY DEF ResourceSteps, TimeoutSteps, UnknownSteps, Step, ReviewStep
<1> HIDE DEF Good
<1>3. HypothesisOf(type) \in {"MISSING_ARTIFACT", "DEPENDENCY_FAILURE", "EXECUTION_ERROR", "RESOURCE_FAILURE",
                              "TIMEOUT", "UNKNOWN"}
  BY DEF HypothesisOf, RollbackTypes, FaultTypes
<1>4. Good(PlanSteps(HypothesisOf(type), root, checkpoint))
  BY <1>1, <1>2, <1>3 DEF PlanSteps
<1> QED
  BY <1>4 DEF Good

(* A plan that is executed without a human asks for none.                  *)
SafeSteps(steps) ==
    \A i \in DOMAIN steps : steps[i].risk \in {"LOW", "MEDIUM"} /\ steps[i].action # "MANUAL_REVIEW"

(* A plan of the planner, and what makes it safe to execute.               *)
LEMMA SafePlan ==
    ASSUME NEW fault, NEW place, NEW anyEvent, NEW checkpoint, NEW auto
    PROVE  LET plan == RepairPlan(fault, place, anyEvent, checkpoint)
           IN  /\ plan.root = place.root
               /\ plan.steps \in Seq(Allowed(checkpoint))
               /\ PlanIsAutoSafe(plan, auto) => SafeSteps(plan.steps)
               /\ PlanIsAutoSafe(plan, auto) /\ fault.type \in RollbackTypes /\ checkpoint # NoCheckpoint =>
                     plan.steps[1].action = "RESTORE_CHECKPOINT"
<1> DEFINE plan == RepairPlan(fault, place, anyEvent, checkpoint)
           category == Hypotheses(fault, place, anyEvent)[1].category
           steps == PlanSteps(category, place.root, checkpoint)
<1>1. plan = [category |-> category, root |-> place.root, steps |-> steps,
              approval |-> NeedsApproval(steps)]
  BY DEF RepairPlan
<1>t. category = HypothesisOf(fault.type)
  BY TopHypothesis
<1> HIDE DEF category
<1>2. steps \in Seq(Allowed(checkpoint))
  BY PlanFacts
<1>f. fault.type \in RollbackTypes /\ checkpoint # NoCheckpoint =>
         1 \in DOMAIN steps /\ steps[1].action \in {"RESTORE_CHECKPOINT", "MANUAL_REVIEW"}
  BY <1>t, FirstStep
<1> HIDE DEF steps, plan
<1>3. plan.root = place.root /\ plan.steps = steps /\ plan.approval = NeedsApproval(steps)
  BY <1>1
<1>4. \A i \in DOMAIN steps : steps[i].risk \in {"LOW", "MEDIUM", "HIGH", "CRITICAL"}
  <2>1. \A s \in Allowed(checkpoint) : s.risk \in Severities
    BY DEF Allowed, PlanStep
  <2>2. \A i \in DOMAIN steps : steps[i] \in Allowed(checkpoint)
    BY <1>2
  <2> QED
    BY <2>1, <2>2 DEF Severities
<1>5. ASSUME PlanIsAutoSafe(plan, auto) PROVE SafeSteps(steps)
  <2>1. /\ \A i \in DOMAIN steps : steps[i].action # "MANUAL_REVIEW"
        /\ \/ ~NeedsApproval(steps)
           \/ \A i \in DOMAIN steps : steps[i].risk \in {"LOW", "MEDIUM"}
    BY <1>3, <1>5 DEF PlanIsAutoSafe
  <2> QED
    BY <1>4, <2>1 DEF NeedsApproval, SafeSteps
<1>6. SafeSteps(steps) /\ fault.type \in RollbackTypes /\ checkpoint # NoCheckpoint =>
         steps[1].action = "RESTORE_CHECKPOINT"
  BY <1>f DEF SafeSteps
<1> QED
  BY <1>2, <1>3, <1>5, <1>6 DEF plan

Finals == {"none", "no_fault", "manual_review", "aborted", "quarantined", "resumed", "rolled_back",
           "failed"}
Healing == [phase : HealPhases, auto : BOOLEAN, action : Action \cup {"none"}, approval : BOOLEAN,
            checkpoint : Nat, steps : Seq(PlanStep), root : 0..Length, at : Nat, succeeded : Nat,
            failed : {0, 1}, final : Finals]

(* The plan of this call is, or was, executed.                             *)
Executed(heal) ==
    heal.phase \in {"sandbox", "validate", "rollback", "restore"}
        \/ heal.final \in {"resumed", "rolled_back", "failed"}
Executable(heal) ==
    /\ SafeSteps(heal.steps) /\ heal.action \notin {"MANUAL_REVIEW", "QUARANTINE", "ABORT"}
    /\ heal.approval => heal.action = "ROLLBACK" /\ heal.steps[1].action = "RESTORE_CHECKPOINT"
    /\ status = "FAILED"
    /\ \A i \in DOMAIN records : records[i].error \notin Integrity

(* The call behind its diagnosis: it is over, or it executes a plan that   *)
(* may be executed.                                                        *)
LEMMA DiagnosisFacts ==
    ASSUME RecordsTell, status \in {"SUCCESS", "FAILED"}, NEW reported, NEW checkpoint \in Nat,
           NEW auto \in BOOLEAN
    PROVE  LET heal == Diagnosis(status, records, reported, checkpoint, auto)
           IN  /\ heal \in Healing /\ heal.checkpoint = checkpoint
               /\ heal.steps \in Seq(Allowed(checkpoint))
               /\ heal.at = 1 /\ heal.succeeded = 0 /\ heal.failed = 0
               /\ heal.phase \in {"sandbox", "done"}
               /\ heal.phase = "sandbox" => heal.final = "none"
               /\ heal.final \notin {"resumed", "rolled_back", "failed"}
               /\ Executed(heal) => Executable(heal)
<1> DEFINE fault == Detect(status, records)
           place == Localize(records, fault, reported)
           choice == Decide(fault, place, checkpoint)
           plan == RepairPlan(fault, place, reported # {}, checkpoint)
           verdict == Verdict(fault, choice.action)
           Call(phase, steps, root, final) ==
              [phase |-> phase, auto |-> auto, action |-> choice.action,
               approval |-> choice.approval, checkpoint |-> checkpoint, steps |-> steps,
               root |-> root, at |-> 1, succeeded |-> 0, failed |-> 0, final |-> final]
           heal == Diagnosis(status, records, reported, checkpoint, auto)
<1>1. choice \in [action : Action, approval : BOOLEAN, target : 0..Length,
                  checkpoint : {NoCheckpoint, checkpoint}]
      /\ (choice.action \in {"RETRY", "ROLLBACK", "RERUN_FROM_NODE"} =>
            /\ \A i \in DOMAIN records : records[i].error \notin Integrity
            /\ choice.approval => choice.action = "ROLLBACK" /\ fault.type \in RollbackTypes)
      /\ (choice.action = "ROLLBACK" => checkpoint # NoCheckpoint)
  BY ChoiceFacts
<1>2. /\ plan.root = place.root /\ plan.steps \in Seq(Allowed(checkpoint))
      /\ PlanIsAutoSafe(plan, auto) => SafeSteps(plan.steps)
      /\ PlanIsAutoSafe(plan, auto) /\ fault.type \in RollbackTypes /\ checkpoint # NoCheckpoint =>
            plan.steps[1].action = "RESTORE_CHECKPOINT"
  <2> DEFINE anyEvent == reported # {}
             p == RepairPlan(fault, place, anyEvent, checkpoint)
  <2> HIDE DEF fault, place, anyEvent
  <2>1. /\ p.root = place.root /\ p.steps \in Seq(Allowed(checkpoint))
        /\ PlanIsAutoSafe(p, auto) => SafeSteps(p.steps)
        /\ PlanIsAutoSafe(p, auto) /\ fault.type \in RollbackTypes /\ checkpoint # NoCheckpoint =>
              p.steps[1].action = "RESTORE_CHECKPOINT"
    BY SafePlan
  <2>2. p = plan
    BY DEF anyEvent
  <2> HIDE DEF p, plan
  <2> QED
    BY <2>1, <2>2, Zenon
<1>3. place.root \in 0..Length
  <2>1. CASE status = "SUCCESS"
    <3>1. place.root = 0
      BY <2>1, SuccessFacts DEF NoNode
    <3> HIDE DEF place
    <3> QED
      BY <3>1
  <2>2. CASE status = "FAILED"
    <3>1. place.root \in 1..position
      BY <2>2, FailureFacts
    <3>2. position \in 1..Length + 1 /\ position <= Length
      BY <2>2 DEF RecordsTell
    <3>3. \A r \in 1..position : r \in 0..Length
      BY <3>2
    <3> HIDE DEF place
    <3> QED
      BY <3>1, <3>3
  <2> QED
    BY <2>1, <2>2
<1>4. verdict \in Finals \ {"resumed", "rolled_back", "failed"}
      /\ (verdict = "none" => status = "FAILED" /\ choice.action \in {"RETRY", "ROLLBACK", "RERUN_FROM_NODE"})
  <2>1. status = "SUCCESS" => ~fault.detected
    BY SuccessFacts
  <2> HIDE DEF fault, choice
  <2> QED
    BY <1>1, <2>1 DEF Verdict, Finals, Action
<1>5. heal = IF verdict # "none" THEN Call("done", << >>, NoNode, verdict)
             ELSE IF PlanIsAutoSafe(plan, auto) THEN Call("sandbox", plan.steps, plan.root, "none")
             ELSE Call("done", plan.steps, plan.root, "manual_review")
  BY DEF Diagnosis
<1>6. Allowed(checkpoint) \subseteq PlanStep
  BY DEF Allowed
<1> HIDE DEF fault, place, plan, verdict, heal
<1>7. plan.steps \in Seq(PlanStep)
  BY <1>2, <1>6
<1>8. choice.action \in Action /\ choice.approval \in BOOLEAN
  BY <1>1
<1> HIDE DEF choice
<1>9. << >> \in Seq(PlanStep) /\ << >> \in Seq(Allowed(checkpoint)) /\ NoNode \in 0..Length
  <2>1. NoNode \in 0..Length
    BY DEF NoNode
  <2>2. \A S : << >> \in Seq(S)
    OBVIOUS
  <2> QED
    BY <2>1, <2>2
<1>10. ASSUME NEW steps \in Seq(Allowed(checkpoint)), steps \in Seq(PlanStep), NEW root \in 0..Length,
              NEW phase \in {"sandbox", "done"}, NEW final \in Finals \ {"resumed", "rolled_back", "failed"},
              phase = "sandbox" => final = "none" /\ verdict = "none" /\ SafeSteps(steps),
              phase = "sandbox" /\ choice.approval => steps[1].action = "RESTORE_CHECKPOINT",
              heal = Call(phase, steps, root, final)
       PROVE  /\ heal \in Healing /\ heal.checkpoint = checkpoint
              /\ heal.steps \in Seq(Allowed(checkpoint))
              /\ heal.at = 1 /\ heal.succeeded = 0 /\ heal.failed = 0
              /\ heal.phase \in {"sandbox", "done"}
              /\ heal.phase = "sandbox" => heal.final = "none"
              /\ heal.final \notin {"resumed", "rolled_back", "failed"}
              /\ Executed(heal) => Executable(heal)
  <2>1. heal \in Healing
    BY <1>8, <1>10 DEF Healing, HealPhases
  <2>2. /\ heal.phase = phase /\ heal.final = final /\ heal.steps = steps /\ heal.action = choice.action
        /\ heal.approval = choice.approval
        /\ heal.checkpoint = checkpoint /\ heal.at = 1 /\ heal.succeeded = 0 /\ heal.failed = 0
    BY <1>10
  <2>3. Executed(heal) => Executable(heal)
    <3>1. Executed(heal) => phase = "sandbox"
      BY <1>10, <2>2 DEF Executed
    <3> QED
      BY <1>1, <1>4, <1>10, <2>2, <3>1 DEF Executable
  <2> QED
    BY <1>10, <2>1, <2>2, <2>3
<1>11. CASE verdict # "none"
  BY <1>4, <1>5, <1>9, <1>10, <1>11 DEF heal
<1>12. CASE verdict = "none" /\ PlanIsAutoSafe(plan, auto)
  <2>1. choice.approval => plan.steps[1].action = "RESTORE_CHECKPOINT"
    BY <1>1, <1>2, <1>4, <1>12
  <2> QED
    BY <2>1, <1>2, <1>3, <1>5, <1>7, <1>10, <1>12 DEF heal, Finals
<1>13. CASE verdict = "none" /\ ~PlanIsAutoSafe(plan, auto)
  BY <1>2, <1>3, <1>5, <1>7, <1>10, <1>13 DEF heal, Finals
<1> QED
  BY <1>11, <1>12, <1>13 DEF heal

(* The invariant: what the call in progress holds, and what it may do.     *)
HealTells ==
    /\ healing \in Healing
    /\ healing.checkpoint \in 0..Len(checkpoints)
    /\ healing.steps \in Seq(Allowed(healing.checkpoint))
    /\ healing.at \in 1..Len(healing.steps) + 1 /\ healing.succeeded \in 0..healing.at - 1
    /\ healing.phase = "none" => healing = NoHealing
    /\ healing.phase # "none" => status # "running" /\ decision = NoDecision
    /\ healing.phase # "done" => healing.final = "none"
    /\ Executed(healing) => Executable(healing)
    /\ healing.failed = 1 => healing.phase \in {"rollback", "restore", "done"} /\ healing.final # "resumed"
    /\ healing.phase = "validate" \/ healing.final = "resumed" => healing.at = Len(healing.steps) + 1
    /\ healing.phase = "restore" => healing.checkpoint # NoCheckpoint
    /\ healing.final = "rolled_back" =>
          healing.checkpoint # NoCheckpoint /\ recovered = FiledPrefix(healing.checkpoint)

HealingInv == PipelineInv /\ HealTells

(* No call, before the first one.                                          *)
LEMMA IdleHealing ==
    ASSUME NEW n \in Nat
    PROVE  /\ NoHealing \in Healing /\ NoHealing.checkpoint \in 0..n
           /\ NoHealing.steps \in Seq(Allowed(NoHealing.checkpoint))
           /\ NoHealing.at \in 1..Len(NoHealing.steps) + 1 /\ NoHealing.succeeded \in 0..NoHealing.at - 1
           /\ NoHealing.phase = "none" /\ NoHealing.final = "none" /\ ~Executed(NoHealing)
           /\ NoHealing.failed = 0
<1>1. /\ NoHealing.phase = "none" /\ NoHealing.final = "none" /\ NoHealing.failed = 0
      /\ NoHealing.checkpoint = 0 /\ NoHealing.steps = << >> /\ NoHealing.at = 1 /\ NoHealing.succeeded = 0
  BY DEF NoHealing, NoCheckpoint
<1>2. \A S : << >> \in Seq(S)
  OBVIOUS
<1>3. NoNode \in 0..Length /\ NoCheckpoint \in Nat
  BY DEF NoNode, NoCheckpoint
<1>4. NoHealing \in Healing
  <2>1. << >> \in Seq(PlanStep)
    BY <1>2
  <2> HIDE DEF PlanStep
  <2> QED
    BY <1>3, <2>1 DEF NoHealing, Healing, HealPhases, Finals
<1>5. Len(<< >>) = 0 /\ 0 \in 0..n
  OBVIOUS
<1> QED
  BY <1>1, <1>2, <1>4, <1>5 DEF Executed

(* The initial states satisfy the invariant.                               *)
LEMMA HealingBegins == HealingInit => HealingInv
<1> SUFFICES ASSUME HealingInit PROVE HealingInv
  OBVIOUS
<1>1. PipelineInv /\ healing = NoHealing
  BY PipelineBegins DEF HealingInit
<1>2. Len(checkpoints) \in Nat
  BY <1>1 DEF PipelineInv, StoreTells
<1> QED
  BY <1>1, <1>2, IdleHealing DEF HealingInv, HealTells

(* A call that waits for the run.                                          *)
LEMMA HealingWaits ==
    ASSUME HealTells, PipelineInv', healing.phase = "none", UNCHANGED healing
    PROVE  HealTells'
<1>1. Len(checkpoints') \in Nat
  BY DEF PipelineInv, StoreTells
<1>2. healing' = NoHealing
  BY DEF HealTells
<1>3. NoHealing' = NoHealing
  BY DEF NoHealing
<1>4. /\ NoHealing \in Healing /\ NoHealing.checkpoint \in 0..Len(checkpoints')
      /\ NoHealing.steps \in Seq(Allowed(NoHealing.checkpoint))
      /\ NoHealing.at \in 1..Len(NoHealing.steps) + 1 /\ NoHealing.succeeded \in 0..NoHealing.at - 1
      /\ NoHealing.phase = "none" /\ NoHealing.final = "none" /\ ~Executed(NoHealing)
      /\ NoHealing.failed = 0
  BY <1>1, IdleHealing
<1> QED
  BY <1>2, <1>3, <1>4 DEF HealTells, Executed

(* A call begins with its diagnosis.                                       *)
LEMMA HealingStarts ==
    ASSUME HealingInv, StartHealing
    PROVE  HealTells'
<1>1. /\ status # "running" /\ decision = NoDecision /\ UNCHANGED pipelineVars
      /\ \E reported \in SUBSET Pipeline, auto \in BOOLEAN :
            healing' = Diagnosis(status, records, reported, LastKnownGood, auto)
  BY DEF StartHealing
<1>2. UNCHANGED <<status, records, checkpoints, decision, recovered>>
  BY <1>1 DEF pipelineVars, runVars, storeVars, recoveryVars
<1>3. RecordsTell /\ StoreTells /\ status \in {"SUCCESS", "FAILED"}
  BY <1>1 DEF HealingInv, PipelineInv, RunTells
<1>4. LastKnownGood \in 0..Len(checkpoints) /\ LastKnownGood \in Nat
  BY <1>3, LastKnownFacts
<1>5. PICK reported \in SUBSET Pipeline, auto \in BOOLEAN :
         healing' = Diagnosis(status, records, reported, LastKnownGood, auto)
  BY <1>1
<1>6. /\ healing' \in Healing /\ healing'.checkpoint = LastKnownGood
      /\ healing'.steps \in Seq(Allowed(LastKnownGood))
      /\ healing'.at = 1 /\ healing'.succeeded = 0 /\ healing'.failed = 0
      /\ healing'.phase \in {"sandbox", "done"}
      /\ healing'.phase = "sandbox" => healing'.final = "none"
      /\ healing'.final \notin {"resumed", "rolled_back", "failed"}
      /\ Executed(healing') => Executable(healing')
  BY <1>3, <1>4, <1>5, DiagnosisFacts
<1>7. Executed(healing)' => Executable(healing)'
  BY <1>2, <1>6 DEF Executed, Executable
<1>8. healing'.at \in 1..Len(healing'.steps) + 1 /\ healing'.succeeded \in 0..healing'.at - 1
  <2>1. Len(healing'.steps) \in Nat
    BY <1>6
  <2> QED
    BY <1>6, <2>1
<1>9. healing'.final \notin {"rolled_back", "resumed"}
  BY <1>6
<1> QED
  BY <1>1, <1>2, <1>4, <1>6, <1>7, <1>8, <1>9 DEF HealTells

(* A step of the call that keeps what was planned.                         *)
Kept == UNCHANGED <<status, records, checkpoints, decision, typed, Uninterrupted>>
Planned ==
    /\ healing'.action = healing.action /\ healing'.steps = healing.steps /\ healing'.approval = healing.approval
    /\ healing'.checkpoint = healing.checkpoint

(* A step of the call keeps what it holds.                                 *)
LEMMA HealingGoesOn ==
    ASSUME HealTells, healing.phase # "none", Kept, Planned, healing' \in Healing,
           healing'.phase # "none",
           healing'.at \in 1..Len(healing.steps) + 1, healing'.succeeded \in 0..healing'.at - 1,
           healing'.phase # "done" => healing'.final = "none",
           Executed(healing') => Executed(healing),
           healing'.failed = 1 => healing'.phase \in {"rollback", "restore", "done"} /\ healing'.final # "resumed",
           healing'.phase = "validate" \/ healing'.final = "resumed" => healing'.at = Len(healing.steps) + 1,
           healing'.phase = "restore" => healing.checkpoint # NoCheckpoint,
           healing'.final = "rolled_back" =>
              healing.checkpoint # NoCheckpoint /\ recovered' = FiledPrefix(healing.checkpoint)
    PROVE  HealTells'
<1>1. Executed(healing)' => Executable(healing)'
  <2>1. Executed(healing)' => Executed(healing)
    BY DEF Executed
  <2>2. Executable(healing) => Executable(healing)'
    BY DEF Executable, SafeSteps, Planned, Kept
  <2> QED
    BY <2>1, <2>2 DEF HealTells
<1>2. /\ healing'.checkpoint \in 0..Len(checkpoints')
      /\ healing'.steps \in Seq(Allowed(healing'.checkpoint))
      /\ status' # "running" /\ decision' = NoDecision'
  BY DEF HealTells, Planned, Kept, NoDecision
<1>3. healing'.final = "rolled_back" =>
         healing'.checkpoint # NoCheckpoint /\ recovered' = FiledPrefix(healing.checkpoint)'
  BY DEF Planned, Kept, FiledPrefix, Refiled
<1> QED
  BY <1>1, <1>2, <1>3 DEF HealTells, Planned

(* The plan's next step.                                                   *)
LEMMA Onward ==
    \A l, a, s \in Nat : a \in 1..l /\ s \in 0..a - 1 =>
        a + 1 \in 1..l + 1 /\ s \in 0..(a + 1) - 1 /\ s + 1 \in 0..(a + 1) - 1
OBVIOUS

(* The steps of a plan, one by one: done, failed, or rolled back.          *)
LEMMA RepairSteps ==
    ASSUME HealingInv, Repairing
    PROVE  HealingInv'
<1>0. /\ PipelineInv /\ RunTells /\ StoreTells /\ RecoveryTells
      /\ HealTells /\ healing \in Healing
  BY DEF HealingInv, PipelineInv, HealTells
<1>1. Len(healing.steps) \in Nat /\ healing.at \in 1..Len(healing.steps) + 1
      /\ healing.succeeded \in 0..healing.at - 1 /\ healing.at \in Nat /\ healing.succeeded \in Nat
  <2>1. healing.steps \in Seq(PlanStep) /\ healing.at \in Nat /\ healing.succeeded \in Nat
    BY <1>0 DEF Healing
  <2> QED
    BY <1>0, <2>1 DEF HealTells
<1>2. /\ healing.phase # "none" /\ healing.phase # "done" /\ healing.final = "none"
      /\ Executed(healing) /\ decision = NoDecision
  <2>1. healing.phase \in {"sandbox", "validate", "rollback", "restore"}
    BY DEF Repairing, StepSkipped, StepSucceeds, StepFails, PlanExecuted, ValidateRepair,
           TrustCheckpoint, RollBackRepair, InSandbox
  <2> QED
    BY <1>0, <2>1 DEF HealTells, Executed
<1>3. UNCHANGED <<runVars, storeVars, decision, rerun, attempts, result>>
  BY DEF Repairing, StepSkipped, StepSucceeds, StepFails, PlanExecuted, ValidateRepair,
         TrustCheckpoint, RollBackRepair, pipelineVars, recoveryVars
<1>4. Kept
  BY <1>3, UninterruptedStays DEF Kept, runVars, storeVars
<1>5. ASSUME recovered' \in Seq(Int) PROVE PipelineInv'
  <2>1. rerun = NoNode /\ result = NoResult
    BY <1>0, <1>2 DEF RecoveryTells
  <2>2. /\ decision' = decision /\ rerun' = rerun /\ attempts' = attempts /\ result' = result
        /\ checkpoints' = checkpoints /\ status' = status /\ position' = position /\ records' = records
        /\ NoResult' = NoResult /\ NoDecision' = NoDecision /\ result.success = FALSE
    BY <1>3, <2>1 DEF runVars, storeVars, NoResult, NoDecision
  <2>3. RecoveryTells'
    BY <1>0, <1>5, <2>1, <2>2 DEF RecoveryTells
  <2> QED
    BY <1>0, <1>3, <2>3, RecoverFrame
<1>6. ASSUME UNCHANGED pipelineVars PROVE PipelineInv'
  <2>1. recovered' \in Seq(Int)
    BY <1>0, <1>6 DEF RecoveryTells, pipelineVars, recoveryVars
  <2> QED
    BY <1>5, <2>1
<1>7. CASE StepSkipped
  <2>1. /\ healing' = [healing EXCEPT !.at = @ + 1] /\ healing.at \in DOMAIN healing.steps
        /\ healing.phase = "sandbox" /\ UNCHANGED pipelineVars
    BY <1>7 DEF StepSkipped, InSandbox
  <2>2. healing' \in Healing /\ Planned /\ healing'.at = healing.at + 1
        /\ healing'.phase = "sandbox" /\ healing'.final = "none" /\ healing'.failed = healing.failed
        /\ healing'.succeeded = healing.succeeded
    BY <1>0, <1>2, <2>1 DEF Healing, Planned
  <2>3. healing'.at \in 1..Len(healing.steps) + 1 /\ healing'.succeeded \in 0..healing'.at - 1
    <3>1. healing.at \in 1..Len(healing.steps)
      BY <1>0, <2>1 DEF Healing
    <3> QED
      BY <1>1, <2>2, <3>1, Onward
  <2>4. healing'.failed # 1
    BY <1>0, <2>1, <2>2 DEF HealTells
  <2>5. HealTells'
    BY <1>0, <1>2, <1>4, <2>2, <2>3, <2>4, HealingGoesOn
  <2> QED
    BY <1>6, <2>1, <2>5 DEF HealingInv
<1>8. CASE StepSucceeds
  <2>1. /\ healing' = [healing EXCEPT !.at = @ + 1, !.succeeded = @ + 1]
        /\ healing.at \in DOMAIN healing.steps
        /\ healing.phase = "sandbox" /\ UNCHANGED pipelineVars
    BY <1>8 DEF StepSucceeds, InSandbox
  <2>2. healing' \in Healing /\ Planned /\ healing'.at = healing.at + 1
        /\ healing'.phase = "sandbox" /\ healing'.final = "none" /\ healing'.failed = healing.failed
        /\ healing'.succeeded = healing.succeeded + 1
    <3>1. healing.at + 1 \in Nat /\ healing.succeeded + 1 \in Nat
      BY <1>1
    <3>2. healing' \in Healing
      BY <1>0, <2>1, <3>1 DEF Healing
    <3> QED
      BY <1>0, <1>2, <2>1, <3>2 DEF Healing, Planned
  <2>3. healing'.at \in 1..Len(healing.steps) + 1 /\ healing'.succeeded \in 0..healing'.at - 1
    <3>1. healing.at \in 1..Len(healing.steps)
      BY <1>0, <2>1 DEF Healing
    <3> QED
      BY <1>1, <2>2, <3>1, Onward
  <2>4. healing'.failed # 1
    BY <1>0, <2>1, <2>2 DEF HealTells
  <2>5. HealTells'
    BY <1>0, <1>2, <1>4, <2>2, <2>3, <2>4, HealingGoesOn
  <2> QED
    BY <1>6, <2>1, <2>5 DEF HealingInv
<1>9. CASE StepFails
  <2>1. healing' = [healing EXCEPT !.failed = 1, !.phase = "rollback"] /\ UNCHANGED pipelineVars
    BY <1>9 DEF StepFails
  <2>2. healing' \in Healing /\ Planned /\ healing'.at = healing.at /\ healing'.succeeded = healing.succeeded
        /\ healing'.phase = "rollback" /\ healing'.final = "none"
    BY <1>0, <1>2, <2>1 DEF Healing, Planned, HealPhases
  <2>3. HealTells'
    BY <1>0, <1>1, <1>2, <1>4, <2>2, HealingGoesOn
  <2> QED
    BY <1>6, <2>1, <2>3 DEF HealingInv
<1>10. CASE PlanExecuted
  <2>1. healing' = [healing EXCEPT !.phase = "validate"] /\ UNCHANGED pipelineVars
        /\ healing.phase = "sandbox" /\ healing.at = Len(healing.steps) + 1
    BY <1>10 DEF PlanExecuted
  <2>2. healing' \in Healing /\ Planned /\ healing'.at = healing.at /\ healing'.succeeded = healing.succeeded
        /\ healing'.phase = "validate" /\ healing'.final = "none" /\ healing'.failed = healing.failed
    BY <1>0, <1>2, <2>1 DEF Healing, Planned, HealPhases
  <2>3. healing'.failed # 1 /\ healing'.at = Len(healing.steps) + 1
    BY <1>0, <2>1, <2>2 DEF HealTells
  <2>4. HealTells'
    BY <1>0, <1>1, <1>2, <1>4, <2>2, <2>3, HealingGoesOn
  <2> QED
    BY <1>6, <2>1, <2>4 DEF HealingInv
<1>11. CASE ValidateRepair
  <2>1. /\ healing.phase = "validate" /\ UNCHANGED pipelineVars
        /\ \/ healing' = [healing EXCEPT !.phase = "rollback"]
           \/ healing' = [healing EXCEPT !.phase = "done", !.final = "resumed"]
    BY <1>11 DEF ValidateRepair, End
  <2>2. /\ healing' \in Healing /\ Planned /\ healing'.at = healing.at /\ healing'.succeeded = healing.succeeded
        /\ healing'.failed = healing.failed
        /\ healing'.phase \in {"rollback", "done"} /\ healing'.final \in {"none", "resumed"}
        /\ healing'.phase # "done" => healing'.final = "none"
    <3>1. CASE healing' = [healing EXCEPT !.phase = "rollback"]
      BY <1>0, <1>2, <3>1 DEF Healing, Planned, HealPhases
    <3>2. CASE healing' = [healing EXCEPT !.phase = "done", !.final = "resumed"]
      <4>1. healing' \in Healing
        BY <1>0, <3>2 DEF Healing, HealPhases, Finals
      <4> QED
        BY <1>0, <3>2, <4>1 DEF Healing, Planned
    <3> QED
      BY <2>1, <3>1, <3>2
  <2>3. healing'.failed # 1 /\ healing'.at = Len(healing.steps) + 1
    BY <1>0, <2>1, <2>2 DEF HealTells
  <2>4. HealTells'
    BY <1>0, <1>1, <1>2, <1>4, <2>2, <2>3, HealingGoesOn
  <2> QED
    BY <1>6, <2>1, <2>4 DEF HealingInv
<1>12. CASE TrustCheckpoint
  <2>1. UNCHANGED pipelineVars
    BY <1>12 DEF TrustCheckpoint
  <2>2. CASE healing' = [healing EXCEPT !.phase = "restore"] /\ healing.checkpoint # NoCheckpoint
    <3>1. healing' \in Healing /\ Planned /\ healing'.at = healing.at /\ healing'.succeeded = healing.succeeded
          /\ healing'.phase = "restore" /\ healing'.final = "none" /\ healing'.failed = healing.failed
      BY <1>0, <1>2, <2>2 DEF Healing, Planned, HealPhases
    <3>2. HealTells'
      BY <1>0, <1>1, <1>2, <1>4, <2>2, <3>1, HealingGoesOn
    <3> QED
      BY <1>6, <2>1, <3>2 DEF HealingInv
  <2>3. ASSUME NEW final \in {"failed", "manual_review"},
               healing' = [healing EXCEPT !.phase = "done", !.final = final]
        PROVE  HealingInv'
    <3>1. healing' \in Healing /\ Planned /\ healing'.at = healing.at /\ healing'.succeeded = healing.succeeded
          /\ healing'.phase = "done" /\ healing'.final = final
      BY <1>0, <1>2, <2>3 DEF Healing, Planned, HealPhases, Finals
    <3>2. HealTells'
      BY <1>0, <1>1, <1>2, <1>4, <3>1, HealingGoesOn
    <3> QED
      BY <1>6, <2>1, <3>2 DEF HealingInv
  <2> QED
    BY <1>12, <2>2, <2>3 DEF TrustCheckpoint, End
<1>13. CASE RollBackRepair
  <2>1. \E final \in {"failed", "rolled_back"} :
           /\ healing' = [healing EXCEPT !.phase = "done", !.final = final]
           /\ final # "rolled_back" => recovered' = recovered
           /\ final = "rolled_back" =>
                 healing.checkpoint # NoCheckpoint /\ recovered' = Restored(healing.checkpoint)
    <3>1. healing.phase = "restore"
      BY <1>13 DEF RollBackRepair
    <3>2. healing.checkpoint # NoCheckpoint
      BY <1>0, <3>1 DEF HealTells
    <3> QED
      BY <1>13, <3>2 DEF RollBackRepair, End
  <2>2. PICK final \in {"failed", "rolled_back"} :
           /\ healing' = [healing EXCEPT !.phase = "done", !.final = final]
           /\ final # "rolled_back" => recovered' = recovered
           /\ final = "rolled_back" =>
                 healing.checkpoint # NoCheckpoint /\ recovered' = Restored(healing.checkpoint)
    BY <2>1
  <2>3. /\ healing' \in Healing /\ Planned /\ healing'.at = healing.at /\ healing'.succeeded = healing.succeeded
        /\ healing'.phase = "done" /\ healing'.final = final
    BY <1>0, <1>2, <2>2 DEF Healing, Planned, HealPhases, Finals
  <2>4. final = "rolled_back" =>
           recovered' = FiledPrefix(healing.checkpoint) /\ recovered' \in Seq(Nat)
    <3>1. healing.checkpoint # NoCheckpoint => healing.checkpoint \in DOMAIN checkpoints
      <4>1. healing.checkpoint \in 0..Len(checkpoints) /\ Len(checkpoints) \in Nat
            /\ DOMAIN checkpoints = 1..Len(checkpoints)
        BY <1>0 DEF HealTells, StoreTells
      <4> QED
        BY <4>1 DEF NoCheckpoint
    <3> QED
      BY <1>0, <2>2, <3>1, RestoredFacts
  <2>5. recovered' \in Seq(Int)
    <3>1. \A d \in Seq(Nat) : d \in Seq(Int)
      OBVIOUS
    <3>2. recovered \in Seq(Int)
      BY <1>0 DEF RecoveryTells
    <3> QED
      BY <2>2, <2>4, <3>1, <3>2
  <2>6. HealTells'
    BY <1>0, <1>1, <1>2, <1>4, <2>2, <2>3, <2>4, HealingGoesOn
  <2> QED
    BY <1>5, <2>5, <2>6 DEF HealingInv
<1> QED
  BY <1>7, <1>8, <1>9, <1>10, <1>11, <1>12, <1>13 DEF Repairing

(* A step of the run, of its files or of the call, or a stutter.           *)
LEMMA HealingStep ==
    ASSUME HealingInv, [HealingNext]_healingVars
    PROVE  HealingInv'
<1>0. PipelineInv /\ HealTells
  BY DEF HealingInv
<1>1. ASSUME PipelineInv', UNCHANGED <<status, records, checkpoints, decision, recovered, input, silent, typed>>,
             UNCHANGED healing
      PROVE  HealingInv'
  <2>1. UNCHANGED Uninterrupted
    BY <1>1, UninterruptedStays
  <2>2. Executable(healing)' <=> Executable(healing)
    BY <1>1 DEF Executable, SafeSteps
  <2> DEFINE U == Uninterrupted
  <2>3. U' = U /\ NoHealing' = NoHealing /\ NoDecision' = NoDecision
        /\ FiledPrefix(healing.checkpoint)' = FiledPrefix(healing.checkpoint)
    BY <1>1, <2>1 DEF NoHealing, NoDecision, FiledPrefix, Refiled
  <2> HIDE DEF U
  <2>4. HealTells'
    BY <1>0, <1>1, <2>2, <2>3 DEF HealTells, Executed, U
  <2> QED
    BY <1>1, <2>4 DEF HealingInv
<1>2. CASE UNCHANGED healingVars
  <2>1. UNCHANGED pipelineVars /\ UNCHANGED healing
    BY <1>2 DEF healingVars
  <2>2. PipelineInv'
    BY <1>0, <2>1, PipelineStep
  <2> QED
    BY <1>1, <2>1, <2>2 DEF pipelineVars, runVars, storeVars, recoveryVars
<1>3. CASE RunOrRecover
  <2>1. PipelineInv' /\ healing.phase = "none" /\ UNCHANGED healing
    BY <1>0, <1>3, PipelineStep DEF RunOrRecover
  <2> QED
    BY <1>0, <2>1, HealingWaits DEF HealingInv
<1>4. CASE LoseDuringHealing
  <2>1. LoseArtifact /\ UNCHANGED healing
    BY <1>4 DEF LoseDuringHealing
  <2>2. PipelineInv'
    BY <1>0, <2>1, PipelineStep DEF PipelineNext
  <2>3. UNCHANGED <<status, records, checkpoints, decision, recovered, input, silent, typed>>
    BY <2>1 DEF LoseArtifact, runVars, recoveryVars
  <2> QED
    BY <1>1, <2>1, <2>2, <2>3
<1>5. CASE StartHealing
  <2>1. PipelineInv'
    BY <1>0, <1>5, PipelineStep DEF StartHealing
  <2> QED
    BY <1>5, <2>1, HealingStarts DEF HealingInv
<1>6. CASE Repairing
  BY <1>6, RepairSteps
<1> QED
  BY <1>2, <1>3, <1>4, <1>5, <1>6 DEF HealingNext

(* The call's part of the invariant holds what the property says.          *)
LEMMA HealingInvSound == HealingInv => HealingSound
<1> SUFFICES ASSUME HealingInv PROVE HealingSound
  OBVIOUS
<1>0. PipelineInv /\ HealTells /\ StoreTells /\ RunTells /\ healing \in Healing
  BY DEF HealingInv, PipelineInv, HealTells
<1>1. HealingTypeOK
  <2>1. healing.phase \in HealPhases /\ healing.auto \in BOOLEAN /\ healing.approval \in BOOLEAN /\ healing.root \in 0..Length
        /\ healing.failed \in {0, 1} /\ healing.final \in Finals
        /\ healing.at \in Nat /\ healing.succeeded \in Nat /\ healing.steps \in Seq(PlanStep)
    BY <1>0 DEF Healing
  <2>2. healing.checkpoint \in 0..Len(checkpoints) /\ healing.at \in 1..Len(healing.steps) + 1
        /\ healing.succeeded \in 0..healing.at - 1
    BY <1>0 DEF HealTells
  <2>3. healing.succeeded \in 0..Len(healing.steps)
    <3>1. Len(healing.steps) \in Nat
      BY <2>1
    <3>2. \A l, a, s \in Nat : a \in 1..l + 1 /\ s \in 0..a - 1 => s \in 0..l
      OBVIOUS
    <3> QED
      BY <2>1, <2>2, <3>1, <3>2
  <2> QED
    BY <2>1, <2>2, <2>3 DEF HealingTypeOK, Finals
<1>2. ReviewIsNotExecuted /\ OnlyRestoresUnapproved
  <2>1. PlanHandedOver => Executable(healing)
    BY <1>0 DEF HealTells, Executed, PlanHandedOver
  <2> QED
    BY <2>1 DEF Executable, SafeSteps, ReviewIsNotExecuted, OnlyRestoresUnapproved
<1>3. HealedIsSafe
  <2> SUFFICES ASSUME healing.final = "resumed"
               PROVE  /\ healing.failed = 0 /\ healing.at = Len(healing.steps) + 1
                      /\ status = "FAILED"
                      /\ \A i \in DOMAIN records : records[i].error \notin Integrity
    BY DEF HealedIsSafe, Integrity
  <2>1. Executable(healing) /\ healing.failed # 1 /\ healing.failed \in {0, 1}
        /\ healing.at = Len(healing.steps) + 1
    BY <1>0 DEF HealTells, Executed, Healing
  <2> QED
    BY <2>1 DEF Executable
<1>4. HealedFromAPrefix
  <2>1. ASSUME healing.final = "rolled_back"
        PROVE  \E n \in 1..position : recovered = Refiled(n, Uninterrupted[n])
    <3>1. recovered = Refiled(healing.checkpoint, Uninterrupted[healing.checkpoint]) /\ healing.checkpoint # 0
          /\ healing.checkpoint \in 0..Len(checkpoints)
      BY <1>0, <2>1 DEF HealTells, NoCheckpoint, FiledPrefix
    <3>2. position \in 1..Length + 1 /\ Len(checkpoints) \in {position - 1, position}
      BY <1>0 DEF RunTells, RecordsTell, StoreTells
    <3>3. Len(checkpoints) <= position /\ Len(checkpoints) \in Nat /\ position \in Nat
      <4>1. position \in Nat
        BY <3>2
      <4>2. Len(checkpoints) \in Nat
        BY <1>0 DEF StoreTells
      <4> QED
        BY <3>2, <4>1, <4>2
    <3>4. healing.checkpoint \in 1..position
      BY <3>1, <3>3
    <3> QED
      BY <3>1, <3>4
  <2>2. ASSUME NEW i \in DOMAIN healing.steps, healing.steps[i].action \in Restoring
        PROVE  healing.checkpoint # NoCheckpoint
    <3>1. healing.steps[i] \in Allowed(healing.checkpoint)
      BY <1>0 DEF HealTells
    <3> QED
      BY <2>2, <3>1 DEF Allowed
  <2> QED
    BY <2>1, <2>2 DEF HealedFromAPrefix, Restoring
<1> QED
  BY <1>1, <1>2, <1>3, <1>4 DEF HealingSound

(* Self-healing is sound for every length of the pipeline, whatever fails  *)
(* in the run, in the plan or in the files meanwhile: a plan that asks for *)
(* a review is not executed, and one whose decision requires an approval   *)
(* only when it first restores a checkpoint; a run is resumed only at the  *)
(* end of a plan of which no step failed (skipped ones pass) and never     *)
(* over evidence of a corruption; and what is rolled back is the file form *)
(* of what the uninterrupted run held                                      *)
(* (SelfHealingOrchestrator.handle_failure).                               *)
THEOREM HealingIsSound == HealingSpec => []HealingSound
<1>1. HealingInit => HealingInv
  BY HealingBegins
<1>2. HealingInv /\ [HealingNext]_healingVars => HealingInv'
  BY HealingStep
<1>3. HealingInv => HealingSound
  BY HealingInvSound
<1> QED
  BY <1>1, <1>2, <1>3, PTL DEF HealingSpec

(***************************************************************************)
(* Concurrent runs                                                         *)
(***************************************************************************)
Classes == Errors \cup {NoError}
Thread == [pc : Running \cup {"absent", "queued", "over"}, next : 1..Len(Candidates) + 1,
           fellBack : BOOLEAN, evaluated : SUBSET Models, best : Models \cup {NoModel},
           raised : Classes, success : BOOLEAN, drained : SUBSET Executions]
Artifact == [model : Models \cup {NoModel}, fitOn : Executions \cup {Nobody}, strategy : {"none", "selected"}]
FaultEvent == [node : Nat, error : Classes]
Rows == {"absent", "started", "completed", "failed"}

AlertTypes == alerts \subseteq Executions /\ alerted \subseteq Executions /\ torn \subseteq Executions

EngineTypes ==
    /\ record \in [Executions -> Statuses] /\ healer \in [Executions -> Statuses \cup {"idle"}]
    /\ thread \in [Executions -> Thread] /\ artifact \in [Executions -> Artifact]
    /\ row \in [Executions -> Rows] /\ faults \in [Executions -> Seq(FaultEvent)]
    /\ analysed \in [Executions -> Seq(Classes)]
    /\ fitted \in [Models -> Executions \cup {Nobody}]
    /\ AlertTypes /\ checkpointed \subseteq Executions
    /\ shared \in [Executions -> SUBSET Executions] /\ early \subseteq Executions

(* What a run alone knows: its thread t, the status r of its record, its   *)
(* row w and its artifact a.                                               *)
Local(t, r, w, a) ==
    /\ t.pc \notin {"answer", "over"} => w \in {"absent", "started"} /\ t.success = FALSE
    /\ t.pc # "train" => t.evaluated = {}
    /\ t.pc \in {"absent", "queued", "characterize", "train"} => t.best = NoModel
    /\ t.pc \in {"drain", "clear", "complete"} => a.model = t.best
    /\ t.pc \notin {"clear", "complete", "answer", "over"} => t.drained = {}
    /\ t.pc = "fault" => t.raised # NoError
    /\ t.success = TRUE => t.best # NoModel /\ a.model = t.best /\ w # "failed"
    /\ r = "succeeded" => t.success = TRUE

(* What the analyses s of a run that was over, and the fault events fs     *)
(* they leave, go by.                                                      *)
ErrorOf(t) == IF t.raised = NoError THEN "other" ELSE t.raised
Agreeing(t, w, fs, s) ==
    /\ t.pc \notin {"answer", "over"} => fs = << >> /\ s = << >>
    /\ s # << >> => w \in {"completed", "failed"}
    /\ w = "failed" =>
          /\ fs = << >> \/ fs[1].error = ErrorOf(t)
          /\ \A i \in DOMAIN s : s[i] = ErrorOf(t)

(* The trainer's models are an execution's own, or those of one that       *)
(* trained while it did.                                                   *)
InTraining == {"train", "build"}
Together(e) ==
    LET fitters == {e} \cup shared[e]
    IN  /\ thread[e].pc = "train" => \A m \in thread[e].evaluated : fitted[m] \in fitters
        /\ thread[e].pc = "build" /\ thread[e].best # NoModel => fitted[thread[e].best] \in fitters
        /\ artifact[e].model # NoModel => artifact[e].fitOn \in fitters
        /\ thread[e].pc \in InTraining =>
              \A f \in Executions \ {e} : thread[f].pc \in InTraining => f \in shared[e]
AllTogether == \A e \in Executions : Together(e)

(* An alert is raised at the end of the training.  In the buffer, it is    *)
(* with whoever stands before the clear, and with nobody else.             *)
Past(t) == t.pc \notin {"absent", "queued", "characterize", "train"}
Untorn(e) == e \in alerts => \A f \in Executions : e \in thread[f].drained <=> thread[f].pc = "clear"
AlertsInv ==
    /\ \A e \in alerts : Past(thread[e])
    /\ \A f \in Executions : \A e \in thread[f].drained : Past(thread[e])
    /\ \A e \in Executions \ torn : Untorn(e)
    /\ AlertsReportedOnce

EngineInv ==
    /\ EngineTypes
    /\ \A e \in Executions : Local(thread[e], record[e], row[e], artifact[e])
    /\ \A e \in Executions \ early : Agreeing(thread[e], row[e], faults[e], analysed[e])
    /\ AllTogether
    /\ AlertsInv

(* A step of one run leaves the others' own state alone.                   *)
Others(e) ==
    \A f \in Executions \ {e} :
        /\ thread'[f] = thread[f] /\ record'[f] = record[f] /\ row'[f] = row[f]
        /\ artifact'[f] = artifact[f] /\ faults'[f] = faults[f] /\ analysed'[f] = analysed[f]

(* Such a step, from what it does to the run's own state.                  *)
LEMMA OneMoves ==
    ASSUME EngineInv, NEW e \in Executions, EngineTypes', Others(e), early \subseteq early',
           Local(thread'[e], record'[e], row'[e], artifact'[e]),
           e \notin early' => Agreeing(thread'[e], row'[e], faults'[e], analysed'[e]),
           AllTogether', AlertsInv'
    PROVE  EngineInv'
<1>1. \A f \in Executions : Local(thread'[f], record'[f], row'[f], artifact'[f])
  BY DEF EngineInv, Others
<1>2. \A f \in Executions \ early' : Agreeing(thread'[f], row'[f], faults'[f], analysed'[f])
  BY DEF EngineInv, Others
<1>3. (\A f \in Executions : Local(thread[f], record[f], row[f], artifact[f]))'
  BY <1>1 DEF Local
<1>4. (\A f \in Executions \ early : Agreeing(thread[f], row[f], faults[f], analysed[f]))'
  BY <1>2 DEF Agreeing, ErrorOf
<1> QED
  BY <1>3, <1>4 DEF EngineInv

(* A step that fits nothing: the run trains no more than before, and its   *)
(* artifact is the old one, none, or what it fitted.                       *)
LEMMA TrainedStay ==
    ASSUME EngineInv, NEW e \in Executions, NEW t \in Thread, NEW a \in Artifact,
           thread' = [thread EXCEPT ![e] = t], artifact' = [artifact EXCEPT ![e] = a],
           fitted' = fitted, shared' = shared,
           t.pc \in InTraining => thread[e].pc \in InTraining,
           t.pc = "train" => thread[e].pc = "train" /\ t.evaluated \subseteq thread[e].evaluated,
           t.pc = "build" /\ t.best # NoModel =>
              \/ thread[e].pc = "train" /\ t.best \in thread[e].evaluated
              \/ thread[e].pc = "build" /\ t.best = thread[e].best,
           \/ a = artifact[e] \/ a.model = NoModel
           \/ /\ thread[e].pc = "build" /\ thread[e].best # NoModel
              /\ a.fitOn = fitted[thread[e].best]
    PROVE  AllTogether'
<1>0. /\ thread \in [Executions -> Thread] /\ artifact \in [Executions -> Artifact] /\ AllTogether
  BY DEF EngineInv, EngineTypes
<1> SUFFICES ASSUME NEW f \in Executions PROVE Together(f)'
  BY DEF AllTogether
<1>1. /\ thread'[e] = t /\ artifact'[e] = a
      /\ \A g \in Executions \ {e} : thread'[g] = thread[g] /\ artifact'[g] = artifact[g]
  BY <1>0
<1>2. Together(f) /\ Together(e)
  BY <1>0 DEF AllTogether
<1>3. thread'[f].pc \in InTraining =>
         \A g \in Executions \ {f} : thread'[g].pc \in InTraining => g \in shared[f]
  <2>1. \A g \in Executions : thread'[g].pc \in InTraining => thread[g].pc \in InTraining
    BY <1>1
  <2> QED
    BY <1>2, <2>1 DEF Together
<1>4. thread'[f].pc = "train" => \A m \in thread'[f].evaluated : fitted[m] \in {f} \cup shared[f]
  BY <1>1, <1>2 DEF Together
<1>5. thread'[f].pc = "build" /\ thread'[f].best # NoModel =>
         fitted[thread'[f].best] \in {f} \cup shared[f]
  BY <1>1, <1>2 DEF Together
<1>6. artifact'[f].model # NoModel => artifact'[f].fitOn \in {f} \cup shared[f]
  BY <1>1, <1>2 DEF Together
<1> QED
  BY <1>3, <1>4, <1>5, <1>6 DEF Together, InTraining

(* A step that neither raises an alert nor drains one.                     *)
LEMMA AlertsStay ==
    ASSUME EngineInv, NEW e \in Executions, NEW t \in Thread,
           thread' = [thread EXCEPT ![e] = t], UNCHANGED <<alerts, alertVars>>,
           t.drained = thread[e].drained, Past(thread[e]) => Past(t),
           t.pc = "clear" <=> thread[e].pc = "clear"
    PROVE  AlertsInv'
<1>0. /\ thread \in [Executions -> Thread] /\ AlertTypes /\ AlertsInv
      /\ UNCHANGED <<alerts, alerted, torn>>
  BY DEF EngineInv, EngineTypes, alertVars
<1>1. \A f \in Executions :
         /\ thread'[f].drained = thread[f].drained /\ thread[f].drained \subseteq Executions
         /\ Past(thread[f]) => Past(thread'[f])
         /\ thread'[f].pc = "clear" <=> thread[f].pc = "clear"
  <2>1. \A f \in Executions : thread[f].drained \subseteq Executions
    BY <1>0 DEF Thread
  <2> QED
    BY <1>0, <2>1
<1>2. \A f \in alerts : Past(thread'[f])
  BY <1>0, <1>1 DEF AlertsInv, AlertTypes
<1>3. \A f \in Executions : \A g \in thread'[f].drained : Past(thread'[g])
  BY <1>0, <1>1 DEF AlertsInv
<1>4. \A f \in Executions \ torn : Untorn(f)'
  BY <1>0, <1>1 DEF AlertsInv, Untorn
<1>5. AlertsReportedOnce'
  BY <1>0, <1>1 DEF AlertsInv, AlertsReportedOnce, ReportedBy
<1> QED
  BY <1>0, <1>2, <1>3, <1>4, <1>5 DEF AlertsInv, Past

(* The state of one run, and that it is itself.                            *)
LEMMA Framed ==
    ASSUME EngineInv, NEW e \in Executions
    PROVE  /\ thread[e] \in Thread /\ record[e] \in Statuses /\ row[e] \in Rows
           /\ faults[e] \in Seq(FaultEvent) /\ analysed[e] \in Seq(Classes) /\ artifact[e] \in Artifact
           /\ thread = [thread EXCEPT ![e] = thread[e]]
           /\ record = [record EXCEPT ![e] = record[e]]
           /\ row = [row EXCEPT ![e] = row[e]]
           /\ faults = [faults EXCEPT ![e] = faults[e]]
           /\ analysed = [analysed EXCEPT ![e] = analysed[e]]
           /\ artifact = [artifact EXCEPT ![e] = artifact[e]]
           /\ Local(thread[e], record[e], row[e], artifact[e])
           /\ e \notin early => Agreeing(thread[e], row[e], faults[e], analysed[e])
<1>1. /\ record \in [Executions -> Statuses] /\ thread \in [Executions -> Thread]
      /\ artifact \in [Executions -> Artifact] /\ row \in [Executions -> Rows]
      /\ faults \in [Executions -> Seq(FaultEvent)] /\ analysed \in [Executions -> Seq(Classes)]
  BY DEF EngineInv, EngineTypes
<1>2. /\ thread[e] \in Thread /\ record[e] \in Statuses /\ row[e] \in Rows
      /\ faults[e] \in Seq(FaultEvent) /\ analysed[e] \in Seq(Classes) /\ artifact[e] \in Artifact
  BY <1>1
<1>3. /\ thread = [thread EXCEPT ![e] = thread[e]]
      /\ record = [record EXCEPT ![e] = record[e]]
      /\ row = [row EXCEPT ![e] = row[e]]
      /\ faults = [faults EXCEPT ![e] = faults[e]]
      /\ analysed = [analysed EXCEPT ![e] = analysed[e]]
      /\ artifact = [artifact EXCEPT ![e] = artifact[e]]
  BY <1>1
<1>4. /\ Local(thread[e], record[e], row[e], artifact[e])
      /\ e \notin early => Agreeing(thread[e], row[e], faults[e], analysed[e])
  BY DEF EngineInv
<1> QED
  BY <1>2, <1>3, <1>4

(* A thread that goes on, and one whose training is behind it.             *)
Alike(n, t) == n.best = t.best /\ n.raised = t.raised /\ n.success = t.success /\ n.drained = t.drained
Stages == Running \cup {"absent", "queued", "over"}

(* A thread at its next stage.                                             *)
LEMMA GoesOn ==
    ASSUME NEW t \in Thread, NEW step \in Stages
    PROVE  /\ [t EXCEPT !.pc = step] \in Thread
           /\ [t EXCEPT !.pc = step].pc = step /\ Alike([t EXCEPT !.pc = step], t)
           /\ [t EXCEPT !.pc = step].evaluated = t.evaluated
BY DEF Thread, Alike, Stages

(* A thread whose training is behind it.                                   *)
LEMMA IsBehind ==
    ASSUME NEW e, thread[e] \in Thread, NEW step \in Stages
    PROVE  /\ Behind(e, step) \in Thread /\ Behind(e, step).pc = step
           /\ Alike(Behind(e, step), thread[e]) /\ Behind(e, step).evaluated = {}
<1>1. Len(Candidates) \in Nat /\ 1 \in 1..Len(Candidates) + 1
  BY CandidatesAssumption
<1>2. {} \in SUBSET Models
  OBVIOUS
<1> QED
  BY <1>1, <1>2 DEF Thread, Alike, Stages, Behind

(* A step that changes the run's thread, and none of its other state.      *)
LEMMA ThreadMoves ==
    ASSUME EngineInv, NEW e \in Executions, NEW t \in Thread, thread' = [thread EXCEPT ![e] = t],
           UNCHANGED <<record, healer, row, faults, analysed, artifact, early>>,
           fitted' \in [Models -> Executions \cup {Nobody}], AlertTypes',
           checkpointed' \subseteq Executions, shared' \in [Executions -> SUBSET Executions],
           Local(t, record[e], row[e], artifact[e]),
           e \notin early => Agreeing(t, row[e], faults[e], analysed[e]), AllTogether', AlertsInv'
    PROVE  EngineInv'
<1>1. /\ record \in [Executions -> Statuses] /\ thread \in [Executions -> Thread]
      /\ artifact \in [Executions -> Artifact] /\ row \in [Executions -> Rows]
      /\ faults \in [Executions -> Seq(FaultEvent)] /\ analysed \in [Executions -> Seq(Classes)]
      /\ healer \in [Executions -> Statuses \cup {"idle"}] /\ early \subseteq Executions
  BY DEF EngineInv, EngineTypes
<1>2. /\ thread' \in [Executions -> Thread] /\ thread'[e] = t
      /\ \A f \in Executions \ {e} : thread'[f] = thread[f]
  BY <1>1
<1>3. EngineTypes'
  BY <1>1, <1>2 DEF EngineTypes
<1>4. Others(e)
  BY <1>2 DEF Others
<1>5. /\ Local(thread'[e], record'[e], row'[e], artifact'[e])
      /\ e \notin early' => Agreeing(thread'[e], row'[e], faults'[e], analysed'[e])
  BY <1>2
<1> QED
  BY <1>3, <1>4, <1>5, OneMoves

(* A stage raises: the run goes to its exception handler.                  *)
LEMMA Raises ==
    ASSUME EngineInv, NEW e \in Executions, NEW error \in Errors, Raise(e, error),
           At(e, "characterize") \/ At(e, "train"),
           UNCHANGED <<serviceVars, databaseVars, analysed, artifact, fitted, alerts, historyVars>>,
           checkpointed' \subseteq Executions
    PROVE  EngineInv'
<1> DEFINE n == [Behind(e, "fault") EXCEPT !.raised = error]
           t == thread[e]
<1>1. /\ t \in Thread /\ record[e] \in Statuses /\ row[e] \in Rows
      /\ faults[e] \in Seq(FaultEvent) /\ analysed[e] \in Seq(Classes) /\ artifact[e] \in Artifact
      /\ record = [record EXCEPT ![e] = record[e]] /\ row = [row EXCEPT ![e] = row[e]]
      /\ faults = [faults EXCEPT ![e] = faults[e]] /\ analysed = [analysed EXCEPT ![e] = analysed[e]]
      /\ artifact = [artifact EXCEPT ![e] = artifact[e]]
      /\ Local(t, record[e], row[e], artifact[e])
      /\ e \notin early => Agreeing(t, row[e], faults[e], analysed[e])
  BY Framed
<1>2. thread' = [thread EXCEPT ![e] = n] /\ t.pc \in {"characterize", "train"}
  BY DEF Raise, At
<1>3. /\ n \in Thread /\ n.pc = "fault" /\ n.best = t.best /\ n.raised = error
      /\ n.success = t.success /\ n.drained = t.drained /\ n.evaluated = {}
  <2>1. "fault" \in Stages /\ error \in Classes
    BY DEF Stages, Running, Classes
  <2>2. /\ Behind(e, "fault") \in Thread /\ Behind(e, "fault").pc = "fault"
        /\ Alike(Behind(e, "fault"), t) /\ Behind(e, "fault").evaluated = {}
    BY <1>1, <2>1, IsBehind
  <2> QED
    BY <2>1, <2>2 DEF Thread, Alike
<1> HIDE DEF n, t
<1>4. error # NoError
  BY DEF Errors, NoError
<1>5. Local(n, record[e], row[e], artifact[e])
  BY <1>1, <1>2, <1>3, <1>4 DEF Local
<1>6. e \notin early => Agreeing(n, row[e], faults[e], analysed[e])
  BY <1>1, <1>2, <1>3 DEF Agreeing, Local
<1>7. UNCHANGED <<record, healer, row, faults, analysed, artifact, fitted, alerts, shared, early, alertVars>>
  BY DEF serviceVars, databaseVars, historyVars
<1>8. AllTogether'
  <2>1. artifact' = [artifact EXCEPT ![e] = artifact[e]]
    BY <1>1, <1>7
  <2>2. n.pc \notin InTraining
    BY <1>3 DEF InTraining
  <2> QED
    BY <1>1, <1>2, <1>3, <1>7, <2>1, <2>2, TrainedStay
<1>9. AlertsInv'
  BY <1>2, <1>3, <1>7, AlertsStay DEF t, Past
<1>10. /\ healer' \in [Executions -> Statuses \cup {"idle"}]
       /\ fitted' \in [Models -> Executions \cup {Nobody}] /\ AlertTypes'
       /\ shared' \in [Executions -> SUBSET Executions] /\ early \subseteq early' /\ early' \subseteq Executions
  BY <1>7 DEF EngineInv, EngineTypes, AlertTypes, alertVars
<1> QED
  BY <1>1, <1>2, <1>3, <1>5, <1>6, <1>7, <1>8, <1>9, <1>10, ThreadMoves DEF t

(* What is left alone by a step that shares nothing.                       *)
LEMMA SharedStay ==
    ASSUME EngineInv
    PROVE  /\ fitted \in [Models -> Executions \cup {Nobody}] /\ AlertTypes
           /\ checkpointed \subseteq Executions /\ shared \in [Executions -> SUBSET Executions]
           /\ healer \in [Executions -> Statuses \cup {"idle"}] /\ early \subseteq Executions
BY DEF EngineInv, EngineTypes

(* A step that changes the run's thread, record and row.                   *)
LEMMA RunMoves ==
    ASSUME EngineInv, NEW e \in Executions, NEW t \in Thread, thread' = [thread EXCEPT ![e] = t],
           record' \in [Executions -> Statuses], row' \in [Executions -> Rows],
           \A f \in Executions \ {e} : record'[f] = record[f] /\ row'[f] = row[f],
           UNCHANGED <<healer, faults, analysed, artifact, fitted, alerts, shared, early, alertVars>>,
           checkpointed' \subseteq Executions,
           t.drained = thread[e].drained, Past(thread[e]) => Past(t), t.pc \notin InTraining,
           t.pc = "clear" <=> thread[e].pc = "clear",
           Local(t, record'[e], row'[e], artifact[e]),
           e \notin early => Agreeing(t, row'[e], faults[e], analysed[e])
    PROVE  EngineInv'
<1>1. /\ thread \in [Executions -> Thread] /\ artifact \in [Executions -> Artifact]
      /\ artifact = [artifact EXCEPT ![e] = artifact[e]] /\ artifact[e] \in Artifact
  BY Framed DEF EngineInv, EngineTypes
<1>2. /\ thread' \in [Executions -> Thread] /\ thread'[e] = t
      /\ \A f \in Executions \ {e} : thread'[f] = thread[f]
  BY <1>1
<1>3. EngineTypes'
  BY <1>2 DEF EngineInv, EngineTypes, AlertTypes, alertVars
<1>4. Others(e)
  BY <1>2 DEF Others
<1>5. /\ Local(thread'[e], record'[e], row'[e], artifact'[e])
      /\ e \notin early' => Agreeing(thread'[e], row'[e], faults'[e], analysed'[e])
  BY <1>2
<1>6. AllTogether'
  <2>1. artifact' = [artifact EXCEPT ![e] = artifact[e]]
    BY <1>1
  <2> QED
    BY <1>1, <2>1, TrainedStay DEF InTraining
<1>7. AlertsInv'
  BY AlertsStay
<1> QED
  BY <1>3, <1>4, <1>5, <1>6, <1>7, OneMoves

(* The request that starts a run.                                          *)
LEMMA StartRunKeeps ==
    ASSUME EngineInv, NEW e \in Executions, StartRun(e)
    PROVE  EngineInv'
<1> DEFINE t == thread[e]  n == [thread[e] EXCEPT !.pc = "queued"]
<1>1. /\ t \in Thread /\ Local(t, record[e], row[e], artifact[e])
      /\ e \notin early => Agreeing(t, row[e], faults[e], analysed[e])
      /\ record \in [Executions -> Statuses] /\ row \in [Executions -> Rows]
  BY Framed DEF EngineInv, EngineTypes
<1>2. /\ t.pc = "absent" /\ record' = [record EXCEPT ![e] = "queued"]
      /\ thread' = [thread EXCEPT ![e] = n]
      /\ UNCHANGED <<healer, row, faults, analysed, artifact, fitted, alerts, checkpointed, shared, early, alertVars>>
  BY DEF StartRun, At, Goto, databaseVars, singletonVars, historyVars
<1>3. n \in Thread /\ n.pc = "queued" /\ Alike(n, t) /\ n.evaluated = t.evaluated
  BY <1>1, GoesOn DEF Stages
<1> HIDE DEF n
<1>4. /\ record' \in [Executions -> Statuses] /\ record'[e] = "queued"
      /\ \A f \in Executions \ {e} : record'[f] = record[f]
  BY <1>1, <1>2 DEF Statuses
<1>5. Local(n, record'[e], row'[e], artifact[e])
  BY <1>1, <1>2, <1>3, <1>4 DEF Local, Alike
<1>6. e \notin early => Agreeing(n, row'[e], faults[e], analysed[e])
  BY <1>1, <1>2, <1>3 DEF Agreeing
<1>7. n.drained = t.drained /\ (Past(t) => Past(n)) /\ n.pc \notin InTraining
      /\ n.pc # "clear" /\ t.pc # "clear"
  BY <1>2, <1>3 DEF Alike, Past, InTraining
<1> QED
  BY <1>1, <1>2, <1>3, <1>4, <1>5, <1>6, <1>7, SharedStay, RunMoves

(* The thread's first write, which makes the row.                          *)
LEMMA RunBeginsKeeps ==
    ASSUME EngineInv, NEW e \in Executions, RunBegins(e)
    PROVE  EngineInv'
<1> DEFINE t == thread[e]  n == [thread[e] EXCEPT !.pc = "characterize"]
<1>1. /\ t \in Thread /\ Local(t, record[e], row[e], artifact[e])
      /\ e \notin early => Agreeing(t, row[e], faults[e], analysed[e])
      /\ record \in [Executions -> Statuses] /\ row \in [Executions -> Rows]
  BY Framed DEF EngineInv, EngineTypes
<1>2. /\ t.pc = "queued" /\ record' = [record EXCEPT ![e] = "running"]
      /\ thread' = [thread EXCEPT ![e] = n]
      /\ row' = [row EXCEPT ![e] = "started"] \/ row' = row
      /\ UNCHANGED <<healer, faults, analysed, artifact, fitted, alerts, checkpointed, shared, early, alertVars>>
  BY DEF RunBegins, RowBecomes, At, Goto, singletonVars, historyVars
<1>3. n \in Thread /\ n.pc = "characterize" /\ Alike(n, t) /\ n.evaluated = t.evaluated
  BY <1>1, GoesOn DEF Stages, Running
<1> HIDE DEF n
<1>4. /\ record' \in [Executions -> Statuses] /\ record'[e] = "running"
      /\ row' \in [Executions -> Rows] /\ row'[e] \in {"started", row[e]}
      /\ \A f \in Executions \ {e} : record'[f] = record[f] /\ row'[f] = row[f]
  BY <1>1, <1>2 DEF Statuses, Rows
<1>5. Local(n, record'[e], row'[e], artifact[e])
  BY <1>1, <1>2, <1>3, <1>4 DEF Local, Alike
<1>6. e \notin early => Agreeing(n, row'[e], faults[e], analysed[e])
  BY <1>1, <1>2, <1>3, <1>4 DEF Agreeing
<1>7. n.drained = t.drained /\ (Past(t) => Past(n)) /\ n.pc \notin InTraining
      /\ n.pc # "clear" /\ t.pc # "clear"
  BY <1>2, <1>3 DEF Alike, Past, InTraining
<1> QED
  BY <1>1, <1>2, <1>3, <1>4, <1>5, <1>6, <1>7, SharedStay, RunMoves

(* The first write fails, and the thread with it.                          *)
LEMMA RunNeverBeginsKeeps ==
    ASSUME EngineInv, NEW e \in Executions, RunNeverBegins(e)
    PROVE  EngineInv'
<1> DEFINE t == thread[e]  n == [thread[e] EXCEPT !.pc = "over"]
<1>1. /\ t \in Thread /\ artifact[e] \in Artifact /\ artifact = [artifact EXCEPT ![e] = artifact[e]]
      /\ Local(t, record[e], row[e], artifact[e])
      /\ e \notin early => Agreeing(t, row[e], faults[e], analysed[e])
  BY Framed
<1>2. /\ t.pc = "queued" /\ thread' = [thread EXCEPT ![e] = n]
      /\ UNCHANGED <<record, healer, row, faults, analysed, artifact, fitted, alerts, checkpointed,
                     shared, early, alertVars>>
  BY DEF RunNeverBegins, At, Goto, serviceVars, databaseVars, singletonVars, historyVars
<1>3. n \in Thread /\ n.pc = "over" /\ Alike(n, t) /\ n.evaluated = t.evaluated
  BY <1>1, GoesOn DEF Stages
<1> HIDE DEF n
<1>4. Local(n, record[e], row[e], artifact[e])
  BY <1>1, <1>2, <1>3 DEF Local, Alike
<1>5. e \notin early => Agreeing(n, row[e], faults[e], analysed[e])
  BY <1>1, <1>2, <1>3 DEF Agreeing, Local
<1>6. artifact' = [artifact EXCEPT ![e] = artifact[e]]
  BY <1>1, <1>2
<1>7. AllTogether'
  BY <1>1, <1>2, <1>3, <1>6, TrainedStay DEF InTraining
<1>8. AlertsInv'
  BY <1>2, <1>3, AlertsStay DEF Past, Alike
<1> QED
  BY <1>2, <1>3, <1>4, <1>5, <1>7, <1>8, SharedStay, ThreadMoves
  DEF AlertTypes, alertVars

(* The last update of the record.                                          *)
LEMMA RunAnswersKeeps ==
    ASSUME EngineInv, NEW e \in Executions, RunAnswers(e)
    PROVE  EngineInv'
<1> DEFINE t == thread[e]  n == [thread[e] EXCEPT !.pc = "over"]
<1>1. /\ t \in Thread /\ Local(t, record[e], row[e], artifact[e])
      /\ e \notin early => Agreeing(t, row[e], faults[e], analysed[e])
      /\ record \in [Executions -> Statuses] /\ row \in [Executions -> Rows]
  BY Framed DEF EngineInv, EngineTypes
<1>2. /\ t.pc = "answer" /\ thread' = [thread EXCEPT ![e] = n]
      /\ \/ record' = [record EXCEPT ![e] = IF t.success THEN "succeeded" ELSE "failed"]
         \/ record' = [record EXCEPT ![e] = "failed"]
         \/ record' = record
      /\ UNCHANGED <<healer, row, faults, analysed, artifact, fitted, alerts, checkpointed, shared, early, alertVars>>
  BY DEF RunAnswers, At, Goto, databaseVars, singletonVars, historyVars
<1>3. n \in Thread /\ n.pc = "over" /\ Alike(n, t) /\ n.evaluated = t.evaluated
  BY <1>1, GoesOn DEF Stages
<1> HIDE DEF n
<1>4. /\ record' \in [Executions -> Statuses]
      /\ record'[e] = "succeeded" => t.success = TRUE
      /\ \A f \in Executions \ {e} : record'[f] = record[f]
  <2>1. t.success \in BOOLEAN /\ "succeeded" \in Statuses /\ "failed" \in Statuses
    BY <1>1 DEF Thread, Statuses
  <2>2. CASE record' = record
    BY <1>1, <2>2 DEF Local
  <2>3. CASE record' = [record EXCEPT ![e] = "failed"]
    BY <1>1, <2>1, <2>3
  <2>4. CASE t.success = TRUE /\ record' = [record EXCEPT ![e] = "succeeded"]
    BY <1>1, <2>1, <2>4
  <2> QED
    BY <1>2, <2>1, <2>2, <2>3, <2>4
<1>5. Local(n, record'[e], row'[e], artifact[e])
  BY <1>1, <1>2, <1>3, <1>4 DEF Local, Alike
<1>6. e \notin early => Agreeing(n, row'[e], faults[e], analysed[e])
  BY <1>1, <1>2, <1>3 DEF Agreeing, ErrorOf, Alike
<1>7. n.drained = t.drained /\ (Past(t) => Past(n)) /\ n.pc \notin InTraining
      /\ n.pc # "clear" /\ t.pc # "clear"
  BY <1>2, <1>3 DEF Alike, Past, InTraining
<1> QED
  BY <1>1, <1>2, <1>3, <1>4, <1>5, <1>6, <1>7, SharedStay, RunMoves

(* The stages before the training: the run joins those that train, fails   *)
(* or raises.                                                              *)
LEMMA CharacterizeKeeps ==
    ASSUME EngineInv, NEW e \in Executions, Characterize(e)
    PROVE  EngineInv'
<1> DEFINE t == thread[e]
<1>1. /\ t \in Thread /\ Local(t, record[e], row[e], artifact[e])
      /\ e \notin early => Agreeing(t, row[e], faults[e], analysed[e])
      /\ record \in [Executions -> Statuses] /\ row \in [Executions -> Rows]
      /\ thread \in [Executions -> Thread]
  BY Framed DEF EngineInv, EngineTypes
<1>2. /\ t.pc = "characterize" /\ At(e, "characterize") /\ checkpointed' \subseteq Executions
      /\ UNCHANGED <<record, healer, faults, analysed, artifact, fitted, alerts, early, alertVars>>
  BY SharedStay DEF Characterize, At, serviceVars
<1>3. CASE Goto(e, "train") /\ shared' = Overlap(e) /\ UNCHANGED row
  <2> DEFINE n == [thread[e] EXCEPT !.pc = "train"]
  <2>1. thread' = [thread EXCEPT ![e] = n]
    BY <1>3 DEF Goto
  <2>2. n \in Thread /\ n.pc = "train" /\ Alike(n, t) /\ n.evaluated = t.evaluated
    BY <1>1, GoesOn DEF Stages, Running
  <2> HIDE DEF n
  <2>3. Local(n, record[e], row[e], artifact[e])
    BY <1>1, <1>2, <2>2 DEF Local, Alike
  <2>4. e \notin early => Agreeing(n, row[e], faults[e], analysed[e])
    BY <1>1, <1>2, <2>2 DEF Agreeing
  <2>5. AlertsInv'
    BY <1>2, <2>1, <2>2, AlertsStay DEF Past, Alike
  <2> DEFINE others == {other \in Executions \ {e} : thread[other].pc \in InTraining}
  <2>6. shared' = [f \in Executions |-> IF f = e THEN shared[e] \cup others
                                        ELSE IF f \in others THEN shared[f] \cup {e} ELSE shared[f]]
    BY <1>3 DEF Overlap, InTraining
  <2>7. /\ shared' \in [Executions -> SUBSET Executions]
        /\ \A f \in Executions : shared[f] \subseteq shared'[f]
        /\ others \subseteq shared'[e] /\ \A f \in others : e \in shared'[f]
    <3>1. shared \in [Executions -> SUBSET Executions] /\ others \subseteq Executions /\ e \notin others
      BY SharedStay
    <3> HIDE DEF others
    <3> QED
      BY <2>6, <3>1
  <2>8. AllTogether'
    <3> SUFFICES ASSUME NEW f \in Executions PROVE Together(f)'
      BY DEF AllTogether
    <3>1. thread'[e] = n /\ \A g \in Executions \ {e} : thread'[g] = thread[g]
      BY <1>1, <2>1
    <3>2. Together(f) /\ shared[f] \subseteq shared'[f]
      BY <2>7 DEF EngineInv, AllTogether
    <3>3. artifact'[f] = artifact[f] /\ fitted' = fitted
      BY <1>2
    <3>4. CASE f = e
      <4>1. \A g \in Executions \ {e} : thread'[g].pc \in InTraining => g \in shared'[e]
        BY <2>7, <3>1
      <4>2. n.evaluated = {}
        BY <1>1, <1>2, <2>2 DEF Local
      <4> QED
        BY <2>2, <3>1, <3>2, <3>3, <3>4, <4>1, <4>2 DEF Together
    <3>5. CASE f # e
      <4>1. thread'[f] = thread[f]
        BY <3>1, <3>5
      <4>2. thread'[f].pc \in InTraining =>
               \A g \in Executions \ {f} : thread'[g].pc \in InTraining => g \in shared'[f]
        <5>1. thread[f].pc \in InTraining => e \in shared'[f]
          BY <2>7, <3>5
        <5> QED
          BY <3>1, <3>2, <4>1, <5>1 DEF Together
      <4> QED
        BY <3>2, <3>3, <4>1, <4>2 DEF Together
    <3> QED
      BY <3>4, <3>5
  <2> QED
    BY <1>2, <1>3, <2>1, <2>2, <2>3, <2>4, <2>5, <2>7, <2>8, SharedStay, ThreadMoves
    DEF AlertTypes, alertVars
<1>4. CASE Goto(e, "answer") /\ PersistCompletion(e, FALSE) /\ UNCHANGED shared
  <2> DEFINE n == [thread[e] EXCEPT !.pc = "answer"]
  <2>1. thread' = [thread EXCEPT ![e] = n]
    BY <1>4 DEF Goto
  <2>2. n \in Thread /\ n.pc = "answer" /\ Alike(n, t) /\ n.evaluated = t.evaluated
    BY <1>1, GoesOn DEF Stages, Running
  <2> HIDE DEF n
  <2>3. /\ row' \in [Executions -> Rows] /\ row'[e] \in {"failed", row[e]}
        /\ \A f \in Executions \ {e} : row'[f] = row[f]
    BY <1>1, <1>4 DEF PersistCompletion, RowBecomes, Rows
  <2>4. Local(n, record'[e], row'[e], artifact[e])
    BY <1>1, <1>2, <2>2, <2>3 DEF Local, Alike
  <2>5. e \notin early => Agreeing(n, row'[e], faults[e], analysed[e])
    BY <1>1, <1>2, <2>2, <2>3 DEF Agreeing, Local
  <2>6. n.drained = t.drained /\ (Past(t) => Past(n)) /\ n.pc \notin InTraining
        /\ n.pc # "clear" /\ t.pc # "clear"
    BY <1>2, <2>2 DEF Alike, Past, InTraining
  <2> QED
    BY <1>1, <1>2, <1>4, <2>1, <2>2, <2>3, <2>4, <2>5, <2>6, RunMoves
<1>5. CASE \E error \in RunErrors : Raise(e, error) /\ UNCHANGED <<row, shared>>
  <2>1. PICK error \in RunErrors : Raise(e, error) /\ UNCHANGED <<row, shared>>
    BY <1>5
  <2>2. error \in Errors
    BY RunErrorsAssumption
  <2>3. UNCHANGED <<serviceVars, databaseVars, analysed, artifact, fitted, alerts, historyVars>>
    BY <1>2, <2>1 DEF serviceVars, databaseVars, historyVars
  <2> QED
    BY <1>2, <2>1, <2>2, <2>3, Raises
<1> QED
  BY <1>3, <1>4, <1>5 DEF Characterize

(* The training starts over, skips a candidate, or raises.                 *)
LEMMA TrainingKeeps ==
    ASSUME EngineInv, NEW e \in Executions,
           TrainingRefused(e) \/ ModelSkipped(e) \/ CheckpointFails(e)
    PROVE  EngineInv'
<1> DEFINE t == thread[e]
<1>1. /\ t \in Thread /\ Local(t, record[e], row[e], artifact[e])
      /\ e \notin early => Agreeing(t, row[e], faults[e], analysed[e])
      /\ artifact = [artifact EXCEPT ![e] = artifact[e]] /\ artifact[e] \in Artifact
  BY Framed
<1>2. /\ UNCHANGED <<serviceVars, databaseVars, analysed, artifact, singletonVars, historyVars>>
      /\ UNCHANGED <<record, healer, row, faults, analysed, artifact, fitted, alerts, checkpointed,
                     shared, early, alertVars>>
  BY DEF TrainingRefused, ModelSkipped, CheckpointFails, serviceVars, databaseVars, singletonVars,
         historyVars
<1>3. ASSUME NEW error \in Errors, Raise(e, error), At(e, "characterize") \/ At(e, "train")
      PROVE  EngineInv'
  <2>1. checkpointed' \subseteq Executions
    BY <1>2, SharedStay
  <2>2. UNCHANGED <<serviceVars, databaseVars, analysed, artifact, fitted, alerts, historyVars>>
    BY <1>2
  <2> QED
    BY <1>3, <2>1, <2>2, Raises
<1>4. "denied" \in Errors /\ "bad_value" \in Errors
  BY DEF Errors
<1>5. ASSUME NEW n \in Thread, thread' = [thread EXCEPT ![e] = n], n.pc = "train", t.pc = "train",
             Alike(n, t), n.evaluated \subseteq t.evaluated
      PROVE  EngineInv'
  <2>1. Local(n, record[e], row[e], artifact[e])
    BY <1>1, <1>5 DEF Local, Alike
  <2>2. e \notin early => Agreeing(n, row[e], faults[e], analysed[e])
    BY <1>1, <1>5 DEF Agreeing, Local
  <2>3. AlertsInv'
    BY <1>2, <1>5, AlertsStay DEF Past, Alike
  <2>4. AllTogether'
    <3>1. artifact' = [artifact EXCEPT ![e] = artifact[e]]
      BY <1>1, <1>2
    <3> QED
      BY <1>1, <1>2, <1>5, <3>1, TrainedStay DEF InTraining
  <2> QED
    BY <1>2, <1>5, <2>1, <2>2, <2>3, <2>4, SharedStay, ThreadMoves
    DEF AlertTypes, alertVars
<1>6. CASE TrainingRefused(e) /\ t.fellBack
  BY <1>3, <1>4, <1>6 DEF TrainingRefused, Training
<1>7. CASE TrainingRefused(e) /\ ~t.fellBack
  <2>1. thread' = [thread EXCEPT ![e] = [t EXCEPT !.fellBack = TRUE, !.next = 1, !.evaluated = {}]]
        /\ t.pc = "train"
    BY <1>7 DEF TrainingRefused, Training, At
  <2>2. Len(Candidates) \in Nat /\ 1 \in 1..Len(Candidates) + 1 /\ {} \in SUBSET Models
    BY CandidatesAssumption
  <2> DEFINE n == [t EXCEPT !.fellBack = TRUE, !.next = 1, !.evaluated = {}]
  <2>3. n \in Thread /\ n.pc = "train" /\ Alike(n, t) /\ n.evaluated \subseteq t.evaluated
    BY <1>1, <2>1, <2>2 DEF Thread, Alike
  <2> HIDE DEF n
  <2> QED
    BY <1>5, <2>1, <2>3 DEF n
<1>8. CASE ModelSkipped(e)
  <2>1. thread' = [thread EXCEPT ![e] = [t EXCEPT !.next = @ + 1]]
        /\ t.pc = "train" /\ t.next \in DOMAIN Candidates
    BY <1>8 DEF ModelSkipped, Training, At
  <2>2. t.next + 1 \in 1..Len(Candidates) + 1
    BY <2>1, CandidatesAssumption
  <2> DEFINE n == [t EXCEPT !.next = @ + 1]
  <2>3. n \in Thread /\ n.pc = "train" /\ Alike(n, t) /\ n.evaluated \subseteq t.evaluated
    BY <1>1, <2>1, <2>2 DEF Thread, Alike
  <2> HIDE DEF n
  <2> QED
    BY <1>5, <2>1, <2>3 DEF n
<1>9. CASE CheckpointFails(e)
  BY <1>3, <1>4, <1>9 DEF CheckpointFails
<1> QED
  BY <1>6, <1>7, <1>8, <1>9

(* A candidate is fitted: the only write to the shared dictionary.         *)
LEMMA ModelFitKeeps ==
    ASSUME EngineInv, NEW e \in Executions, ModelFit(e)
    PROVE  EngineInv'
<1> DEFINE t == thread[e]
           c == Candidate(e)
<1>1. /\ t \in Thread /\ Local(t, record[e], row[e], artifact[e])
      /\ e \notin early => Agreeing(t, row[e], faults[e], analysed[e])
      /\ thread \in [Executions -> Thread] /\ fitted \in [Models -> Executions \cup {Nobody}]
  BY Framed DEF EngineInv, EngineTypes
<1>2. /\ t.pc = "train" /\ t.next \in DOMAIN Candidates /\ fitted' = [fitted EXCEPT ![c] = e]
      /\ UNCHANGED <<record, healer, row, faults, analysed, artifact, alerts, checkpointed,
                     shared, early, alertVars>>
  BY DEF ModelFit, Training, At, serviceVars, databaseVars, historyVars
<1>3. PICK scored \in {{}, {c}} :
         thread' = [thread EXCEPT ![e] = [t EXCEPT !.next = @ + 1, !.evaluated = @ \cup scored]]
  BY DEF ModelFit
<1> DEFINE n == [t EXCEPT !.next = @ + 1, !.evaluated = @ \cup scored]
<1>4. c \in Models /\ t.next + 1 \in 1..Len(Candidates) + 1
  BY <1>2, CandidatesAssumption DEF Candidate, Models
<1> HIDE DEF c
<1>5. n \in Thread /\ n.pc = "train" /\ Alike(n, t) /\ n.evaluated = t.evaluated \cup scored
  <2>1. t.evaluated \cup scored \in SUBSET Models
    BY <1>1, <1>4 DEF Thread
  <2> QED
    BY <1>1, <1>2, <1>4, <2>1 DEF Thread, Alike
<1>6. thread' = [thread EXCEPT ![e] = n]
  BY <1>3
<1> HIDE DEF n
<1>7. Local(n, record[e], row[e], artifact[e])
  BY <1>1, <1>2, <1>5 DEF Local, Alike
<1>8. e \notin early => Agreeing(n, row[e], faults[e], analysed[e])
  BY <1>1, <1>2, <1>5 DEF Agreeing, Local
<1>9. AlertsInv'
  BY <1>2, <1>5, <1>6, AlertsStay DEF Past, Alike
<1>10. fitted' \in [Models -> Executions \cup {Nobody}] /\ fitted'[c] = e
       /\ \A m \in Models \ {c} : fitted'[m] = fitted[m]
  BY <1>1, <1>2, <1>4
<1>11. AllTogether'
  <2> SUFFICES ASSUME NEW f \in Executions PROVE Together(f)'
    BY DEF AllTogether
  <2>1. thread'[e] = n /\ \A g \in Executions \ {e} : thread'[g] = thread[g]
    BY <1>1, <1>6
  <2>2. Together(f) /\ shared' = shared /\ artifact' = artifact
    BY <1>2 DEF EngineInv, AllTogether
  <2>3. thread'[f].pc \in InTraining =>
           \A g \in Executions \ {f} : thread'[g].pc \in InTraining => g \in shared[f]
    <3>1. \A g \in Executions : thread'[g].pc \in InTraining => thread[g].pc \in InTraining
      BY <1>2, <2>1 DEF InTraining
    <3> QED
      BY <2>2, <3>1 DEF Together
  <2> DEFINE fitters == {f} \cup shared[f]
  <2>4. \A m \in Models : /\ fitted'[m] \in {fitted[m], e}
                          /\ fitted'[m] # fitted[m] => m = c
    BY <1>10
  <2>5. thread[f].pc \in InTraining => e \in fitters
    BY <1>2, <2>2 DEF Together, InTraining
  <2>6. thread'[f].pc = "train" => \A m \in thread'[f].evaluated : fitted'[m] \in fitters
    <3>1. CASE f = e
      <4>1. \A m \in t.evaluated : fitted[m] \in fitters /\ m \in Models
        BY <1>1, <1>2, <2>2, <3>1 DEF Together, Thread
      <4>2. \A m \in n.evaluated : m \in t.evaluated \/ m = c
        BY <1>5
      <4> QED
        BY <1>10, <2>1, <2>4, <3>1, <4>1, <4>2
    <3>2. CASE f # e
      <4>1. thread'[f] = thread[f] /\ thread[f].evaluated \subseteq Models
        BY <1>1, <2>1, <3>2 DEF Thread
      <4> QED
        BY <2>2, <2>4, <2>5, <4>1 DEF Together, InTraining
    <3> QED
      BY <3>1, <3>2
  <2>7. thread'[f].pc = "build" /\ thread'[f].best # NoModel => fitted'[thread'[f].best] \in fitters
    <3>1. thread'[f].pc = "build" => thread'[f] = thread[f]
      BY <1>5, <2>1
    <3>2. thread[f].best \in Models \cup {NoModel}
      BY <1>1 DEF Thread
    <3> QED
      BY <2>2, <2>4, <2>5, <3>1, <3>2 DEF Together, InTraining
  <2> QED
    BY <2>2, <2>3, <2>6, <2>7 DEF Together
<1> QED
  BY <1>2, <1>5, <1>6, <1>7, <1>8, <1>9, <1>10, <1>11, SharedStay, ThreadMoves
  DEF AlertTypes, alertVars

(* The best of what was evaluated, and the alert.                          *)
LEMMA TrainingEndsKeeps ==
    ASSUME EngineInv, NEW e \in Executions, TrainingEnds(e)
    PROVE  EngineInv'
<1> DEFINE t == thread[e]
<1>1. /\ t \in Thread /\ Local(t, record[e], row[e], artifact[e])
      /\ e \notin early => Agreeing(t, row[e], faults[e], analysed[e])
      /\ artifact = [artifact EXCEPT ![e] = artifact[e]] /\ artifact[e] \in Artifact
      /\ thread \in [Executions -> Thread] /\ AlertTypes
  BY Framed DEF EngineInv, EngineTypes
<1>2. /\ t.pc = "train" /\ checkpointed' \subseteq Executions
      /\ UNCHANGED <<record, healer, row, faults, analysed, artifact, fitted, shared, early>>
  BY SharedStay DEF TrainingEnds, At, serviceVars, databaseVars
<1>3. PICK best \in t.evaluated \cup {NoModel} :
         /\ thread' = [thread EXCEPT ![e] = [Behind(e, "build") EXCEPT !.best = best]]
         /\ UNCHANGED <<alerts, alertVars>> \/ Alert(e)
  <2>1. CASE t.evaluated = {}
    <3>1. thread' = [thread EXCEPT ![e] = Behind(e, "build")] /\ UNCHANGED <<alerts, alertVars>>
      BY <2>1 DEF TrainingEnds
    <3>2. Behind(e, "build") \in Thread /\ Behind(e, "build").best = NoModel
      <4>1. "build" \in Stages /\ t.best = NoModel
        BY <1>1, <1>2 DEF Stages, Running, Local
      <4> QED
        BY <1>1, <4>1, IsBehind DEF Alike
    <3>3. Behind(e, "build") = [Behind(e, "build") EXCEPT !.best = NoModel]
      BY <3>2 DEF Thread
    <3> QED
      BY <3>1, <3>3
  <2>2. CASE t.evaluated # {}
    BY <2>2 DEF TrainingEnds
  <2> QED
    BY <2>1, <2>2
<1> DEFINE n == [Behind(e, "build") EXCEPT !.best = best]
<1>4. /\ n \in Thread /\ n.pc = "build" /\ n.best = best /\ n.evaluated = {} /\ n.raised = t.raised
      /\ n.success = t.success /\ n.drained = t.drained
  <2>1. "build" \in Stages /\ best \in Models \cup {NoModel}
    BY <1>1, <1>3 DEF Stages, Running, Thread
  <2>2. /\ Behind(e, "build") \in Thread /\ Behind(e, "build").pc = "build"
        /\ Alike(Behind(e, "build"), t) /\ Behind(e, "build").evaluated = {}
    BY <1>1, <2>1, IsBehind
  <2> QED
    BY <2>1, <2>2 DEF Thread, Alike
<1>5. thread' = [thread EXCEPT ![e] = n]
  BY <1>3
<1> HIDE DEF n
<1>6. Local(n, record[e], row[e], artifact[e])
  BY <1>1, <1>2, <1>4 DEF Local
<1>7. e \notin early => Agreeing(n, row[e], faults[e], analysed[e])
  BY <1>1, <1>2, <1>4 DEF Agreeing, Local
<1>8. AllTogether'
  <2>1. artifact' = [artifact EXCEPT ![e] = artifact[e]]
    BY <1>1, <1>2
  <2>2. /\ n.pc \in InTraining => thread[e].pc \in InTraining
        /\ n.pc # "train"
        /\ n.pc = "build" /\ n.best # NoModel =>
              thread[e].pc = "train" /\ n.best \in thread[e].evaluated
    BY <1>2, <1>3, <1>4 DEF InTraining
  <2>3. fitted' = fitted /\ shared' = shared
    BY <1>2
  <2> HIDE DEF t
  <2> QED
    BY <1>1, <1>4, <1>5, <2>1, <2>2, <2>3, TrainedStay
<1>9. AlertsInv' /\ AlertTypes'
  <2>1. CASE UNCHANGED <<alerts, alertVars>>
    <3>1. AlertTypes'
      BY <1>1, <2>1 DEF AlertTypes, alertVars
    <3> QED
      BY <1>1, <1>2, <1>4, <1>5, <2>1, <3>1, AlertsStay DEF Past
  <2>2. CASE Alert(e)
    <3>0. /\ alerts' = alerts \cup {e} /\ alerted' = alerted \cup {e}
          /\ torn' = IF Clearing = {} THEN torn ELSE torn \cup {e}
      BY <2>2 DEF Alert
    <3>1. thread'[e] = n /\ \A g \in Executions \ {e} : thread'[g] = thread[g]
      BY <1>1, <1>5
    <3>2. \A g \in Executions : /\ thread'[g].drained = thread[g].drained
                                /\ thread[g].drained \subseteq Executions
                                /\ Past(thread[g]) => g # e /\ Past(thread'[g])
                                /\ thread'[g].pc = "clear" <=> thread[g].pc = "clear"
      BY <1>1, <1>2, <1>4, <3>1 DEF Past, Thread
    <3>3. Past(thread'[e])
      BY <1>4, <3>1 DEF Past
    <3>4. AlertsInv /\ ~Past(thread[e])
      BY <1>2 DEF EngineInv, Past
    <3>5. AlertTypes'
      BY <1>1, <3>0 DEF AlertTypes
    <3>6. \A g \in alerts' : Past(thread'[g])
      BY <1>1, <3>0, <3>2, <3>3, <3>4 DEF AlertsInv, AlertTypes
    <3>7. \A g \in Executions : \A h \in thread'[g].drained : Past(thread'[h])
      BY <3>2, <3>4 DEF AlertsInv
    <3>8. \A g \in Executions : e \notin thread[g].drained
      BY <3>4 DEF AlertsInv
    <3>9. \A g \in Executions \ torn' : Untorn(g)'
      <4> SUFFICES ASSUME NEW g \in Executions \ torn' PROVE Untorn(g)'
        OBVIOUS
      <4>1. CASE g = e
        <5>1. Clearing = {}
          BY <3>0, <4>1
        <5>2. \A f \in Executions : thread[f].pc # "clear"
          BY <5>1 DEF Clearing, At
        <5> QED
          BY <3>2, <3>8, <4>1, <5>2 DEF Untorn
      <4>2. CASE g # e
        <5>1. Untorn(g) /\ (g \in alerts' => g \in alerts)
          BY <3>0, <3>4, <4>2 DEF AlertsInv
        <5> QED
          BY <3>2, <5>1 DEF Untorn
      <4> QED
        BY <4>1, <4>2
    <3>10. AlertsReportedOnce'
      <4>1. \A g \in Executions : ReportedBy(g)' = ReportedBy(g)
        BY <3>2 DEF ReportedBy
      <4>2. torn \subseteq torn'
        BY <3>0
      <4> QED
        BY <3>0, <3>4, <4>1, <4>2 DEF AlertsInv, AlertsReportedOnce
    <3> QED
      BY <3>5, <3>6, <3>7, <3>9, <3>10 DEF AlertsInv, Past
  <2> QED
    BY <1>3, <2>1, <2>2
<1> QED
  BY <1>2, <1>4, <1>5, <1>6, <1>7, <1>8, <1>9, SharedStay, ThreadMoves

(* The exception handler: the first fault event of the run, and the row.   *)
LEMMA PersistFailureKeeps ==
    ASSUME EngineInv, NEW e \in Executions, PersistFailure(e)
    PROVE  EngineInv'
<1> DEFINE t == thread[e]  n == [thread[e] EXCEPT !.pc = "answer"]
<1>1. /\ t \in Thread /\ Local(t, record[e], row[e], artifact[e])
      /\ e \notin early => Agreeing(t, row[e], faults[e], analysed[e])
      /\ artifact = [artifact EXCEPT ![e] = artifact[e]] /\ artifact[e] \in Artifact
      /\ thread \in [Executions -> Thread] /\ row \in [Executions -> Rows]
      /\ faults \in [Executions -> Seq(FaultEvent)]
  BY Framed DEF EngineInv, EngineTypes
<1> DEFINE event == Event(Orchestrator, t.raised)
<1>2. /\ t.pc = "fault" /\ thread' = [thread EXCEPT ![e] = n]
      /\ row' = row \/ row' = [row EXCEPT ![e] = "failed"]
      /\ faults' = faults \/ faults' = [faults EXCEPT ![e] = Append(faults[e], event)]
      /\ UNCHANGED <<record, healer, analysed, artifact, fitted, alerts, checkpointed, shared, early, alertVars>>
  BY <1>1 DEF PersistFailure, RowBecomes, At, Goto, serviceVars, singletonVars, historyVars
<1>3. n \in Thread /\ n.pc = "answer" /\ Alike(n, t) /\ n.evaluated = t.evaluated
  BY <1>1, GoesOn DEF Stages, Running
<1>4. event \in FaultEvent /\ event.error = t.raised /\ t.raised # NoError
  BY <1>1, <1>2 DEF Event, FaultEvent, Thread, Orchestrator, Local
<1> HIDE DEF n, event
<1>5. /\ row' \in [Executions -> Rows] /\ row'[e] \in {"failed", row[e]}
      /\ \A f \in Executions \ {e} : row'[f] = row[f]
  BY <1>1, <1>2 DEF Rows
<1>6. /\ faults' \in [Executions -> Seq(FaultEvent)]
      /\ faults'[e] = faults[e] \/ faults'[e] = Append(faults[e], event)
      /\ \A f \in Executions \ {e} : faults'[f] = faults[f]
  <2>1. Append(faults[e], event) \in Seq(FaultEvent)
    BY <1>1, <1>4
  <2> QED
    BY <1>1, <1>2, <2>1
<1>7. /\ thread' \in [Executions -> Thread] /\ thread'[e] = n
      /\ \A f \in Executions \ {e} : thread'[f] = thread[f]
  BY <1>1, <1>2, <1>3
<1>8. EngineTypes'
  BY <1>2, <1>5, <1>6, <1>7 DEF EngineInv, EngineTypes, AlertTypes, alertVars
<1>9. Others(e)
  BY <1>2, <1>5, <1>6, <1>7 DEF Others
<1>10. Local(n, record'[e], row'[e], artifact'[e])
  BY <1>1, <1>2, <1>3, <1>5 DEF Local, Alike
<1>11. e \notin early => Agreeing(n, row'[e], faults'[e], analysed'[e])
  <2> SUFFICES ASSUME e \notin early PROVE Agreeing(n, row'[e], faults'[e], analysed'[e])
    OBVIOUS
  <2>1. faults[e] = << >> /\ analysed'[e] = << >>
    BY <1>1, <1>2 DEF Agreeing
  <2>2. faults'[e] = << >> \/ faults'[e][1].error = ErrorOf(n)
    BY <1>3, <1>4, <1>6, <2>1 DEF ErrorOf, Alike
  <2> QED
    BY <1>3, <2>1, <2>2 DEF Agreeing
<1>12. AllTogether'
  <2>1. artifact' = [artifact EXCEPT ![e] = artifact[e]]
    BY <1>1, <1>2
  <2> QED
    BY <1>1, <1>2, <1>3, <2>1, TrainedStay DEF InTraining
<1>13. AlertsInv'
  BY <1>2, <1>3, AlertsStay DEF Past, Alike
<1> QED
  BY <1>2, <1>7, <1>8, <1>9, <1>10, <1>11, <1>12, <1>13, OneMoves

(* The artifact takes the model that the dictionary has under the best     *)
(* one's name.                                                             *)
LEMMA BuildArtifactKeeps ==
    ASSUME EngineInv, NEW e \in Executions, BuildArtifact(e)
    PROVE  EngineInv'
<1> DEFINE t == thread[e]  n == [thread[e] EXCEPT !.pc = "drain"]
           a == IF t.best = NoModel THEN NoArtifact
                ELSE [model |-> t.best, fitOn |-> fitted[t.best], strategy |-> "selected"]
<1>1. /\ t \in Thread /\ Local(t, record[e], row[e], artifact[e])
      /\ e \notin early => Agreeing(t, row[e], faults[e], analysed[e])
      /\ thread \in [Executions -> Thread] /\ artifact \in [Executions -> Artifact]
      /\ fitted \in [Models -> Executions \cup {Nobody}]
  BY Framed DEF EngineInv, EngineTypes
<1>2. /\ t.pc = "build" /\ thread' = [thread EXCEPT ![e] = n]
      /\ artifact' = [artifact EXCEPT ![e] = a]
      /\ UNCHANGED <<record, healer, row, faults, analysed, fitted, alerts, checkpointed, shared, early, alertVars>>
  BY DEF BuildArtifact, At, Goto, serviceVars, databaseVars, singletonVars, historyVars
<1>3. n \in Thread /\ n.pc = "drain" /\ Alike(n, t) /\ n.evaluated = t.evaluated
  BY <1>1, GoesOn DEF Stages, Running
<1>4. /\ a \in Artifact /\ a.model = t.best
      /\ a.model = NoModel \/ (t.best # NoModel /\ a.fitOn = fitted[t.best])
  <2>1. CASE t.best = NoModel
    BY <1>1, <2>1 DEF Artifact, NoArtifact
  <2>2. CASE t.best # NoModel
    <3>1. t.best \in Models
      BY <1>1, <2>2 DEF Thread
    <3> QED
      BY <1>1, <2>2, <3>1 DEF Artifact
  <2> QED
    BY <2>1, <2>2
<1> HIDE DEF n, a
<1>5. /\ thread' \in [Executions -> Thread] /\ thread'[e] = n
      /\ artifact' \in [Executions -> Artifact] /\ artifact'[e] = a
      /\ \A f \in Executions \ {e} : thread'[f] = thread[f] /\ artifact'[f] = artifact[f]
  BY <1>1, <1>2, <1>3, <1>4
<1>6. EngineTypes'
  BY <1>2, <1>5 DEF EngineInv, EngineTypes, AlertTypes, alertVars
<1>7. Others(e)
  BY <1>2, <1>5 DEF Others
<1>8. Local(n, record'[e], row'[e], artifact'[e])
  BY <1>1, <1>2, <1>3, <1>4, <1>5 DEF Local, Alike
<1>9. e \notin early => Agreeing(n, row'[e], faults'[e], analysed'[e])
  BY <1>1, <1>2, <1>3 DEF Agreeing, Local
<1>10. AllTogether'
  <2>1. n.pc \notin InTraining /\ n.pc # "train" /\ n.pc # "build"
    BY <1>3 DEF InTraining
  <2>2. \/ a = artifact[e] \/ a.model = NoModel
        \/ /\ thread[e].pc = "build" /\ thread[e].best # NoModel
           /\ a.fitOn = fitted[thread[e].best]
    BY <1>2, <1>4
  <2>3. fitted' = fitted /\ shared' = shared
    BY <1>2
  <2> QED
    BY <1>2, <1>3, <1>4, <2>1, <2>2, <2>3, TrainedStay
<1>11. AlertsInv'
  BY <1>2, <1>3, AlertsStay DEF Past, Alike
<1> QED
  BY <1>2, <1>5, <1>6, <1>7, <1>8, <1>9, <1>10, <1>11, OneMoves

(* What is left of the invariant by a step of a run behind its training.   *)
LEMMA DrainMoves ==
    ASSUME EngineInv, NEW e \in Executions, NEW t \in Thread, thread' = [thread EXCEPT ![e] = t],
           t.pc \in {"clear", "complete"}, thread[e].pc \in {"drain", "clear"},
           t.best = thread[e].best, t.success = thread[e].success, t.evaluated = {},
           UNCHANGED <<record, healer, row, faults, analysed, artifact, fitted, checkpointed, shared,
                       early>>,
           AlertTypes', AlertsInv'
    PROVE  EngineInv'
<1>1. /\ Local(thread[e], record[e], row[e], artifact[e])
      /\ e \notin early => Agreeing(thread[e], row[e], faults[e], analysed[e])
      /\ artifact = [artifact EXCEPT ![e] = artifact[e]] /\ artifact[e] \in Artifact
  BY Framed
<1>2. Local(t, record[e], row[e], artifact[e])
  BY <1>1 DEF Local
<1>3. e \notin early => Agreeing(t, row[e], faults[e], analysed[e])
  BY <1>1 DEF Agreeing, Local
<1>4. AllTogether'
  <2>1. artifact' = [artifact EXCEPT ![e] = artifact[e]]
    BY <1>1
  <2>2. t.pc \notin InTraining /\ t.pc # "train" /\ t.pc # "build"
    BY DEF InTraining
  <2> QED
    BY <1>1, <2>1, <2>2, TrainedStay
<1> QED
  BY <1>2, <1>3, <1>4, SharedStay, ThreadMoves

(* Who copies the buffer has every alert that is in it.  Without another   *)
(* drain between its copy and its clear, nobody else has one of them.      *)
LEMMA CopyAlertsKeeps ==
    ASSUME EngineInv, NEW e \in Executions, CopyAlerts(e)
    PROVE  EngineInv'
<1> DEFINE t == thread[e]
           n == [thread[e] EXCEPT !.pc = "clear", !.drained = alerts]
<1>1. /\ t \in Thread /\ Local(t, record[e], row[e], artifact[e])
      /\ thread \in [Executions -> Thread] /\ AlertTypes /\ AlertsInv
  BY Framed DEF EngineInv, EngineTypes
<1>2. /\ t.pc = "drain" /\ thread' = [thread EXCEPT ![e] = n]
      /\ alerts' = alerts /\ alerted' = alerted
      /\ torn' = IF Clearing = {} THEN torn ELSE torn \cup alerts
      /\ UNCHANGED <<record, healer, row, faults, analysed, artifact, fitted, checkpointed, shared,
                     early>>
  BY DEF CopyAlerts, At, serviceVars, databaseVars, singletonVars
<1>3. /\ n \in Thread /\ n.pc = "clear" /\ n.drained = alerts /\ n.best = t.best
      /\ n.success = t.success /\ n.evaluated = {} /\ t.drained = {}
  <2>1. t.drained = {} /\ t.evaluated = {}
    BY <1>1, <1>2 DEF Local
  <2> QED
    BY <1>1, <2>1 DEF Thread, Running, AlertTypes
<1> HIDE DEF n
<1>4. thread'[e] = n /\ \A f \in Executions \ {e} : thread'[f] = thread[f]
  BY <1>1, <1>2
<1>5. AlertTypes'
  BY <1>1, <1>2 DEF AlertTypes
<1>6. \A f \in Executions : Past(thread[f]) => Past(thread'[f])
  BY <1>3, <1>4 DEF Past
<1>7. \A f \in alerts' : Past(thread'[f])
  BY <1>1, <1>2, <1>6 DEF AlertsInv, AlertTypes
<1>8. \A f \in Executions : \A g \in thread'[f].drained : Past(thread'[g])
  <2> SUFFICES ASSUME NEW f \in Executions, NEW g \in thread'[f].drained PROVE Past(thread'[g])
    OBVIOUS
  <2>1. g \in Executions /\ Past(thread[g])
    BY <1>1, <1>3, <1>4 DEF AlertsInv, AlertTypes, Thread
  <2> QED
    BY <1>6, <2>1
<1>9. ASSUME NEW g \in Executions \ torn', g \in alerts
      PROVE  /\ \A f \in Executions : thread[f].pc # "clear" /\ g \notin thread[f].drained
             /\ \A f \in Executions : g \in thread'[f].drained <=> f = e
  <2>1. Clearing = {} /\ g \notin torn
    BY <1>2, <1>9
  <2>2. \A f \in Executions : thread[f].pc # "clear"
    BY <2>1 DEF Clearing, At
  <2>3. \A f \in Executions : g \notin thread[f].drained
    BY <1>1, <1>9, <2>1, <2>2 DEF AlertsInv, Untorn
  <2> QED
    BY <1>3, <1>4, <1>9, <2>2, <2>3
<1>10. ASSUME NEW g \in Executions, g \notin alerts
       PROVE  ReportedBy(g)' = ReportedBy(g)
  BY <1>3, <1>4, <1>10 DEF ReportedBy
<1>11. \A g \in Executions \ torn' : Untorn(g)'
  <2> SUFFICES ASSUME NEW g \in Executions \ torn', g \in alerts' PROVE Untorn(g)'
    BY DEF Untorn
  <2>1. \A f \in Executions : thread'[f].pc = "clear" <=> f = e
    BY <1>2, <1>3, <1>4, <1>9
  <2> QED
    BY <1>2, <1>9, <2>1 DEF Untorn
<1>12. AlertsReportedOnce'
  <2> SUFFICES ASSUME NEW g \in Executions \ torn'
               PROVE  /\ \A f, h \in ReportedBy(g)' : f = h
                      /\ g \in alerted' => g \in alerts' \/ ReportedBy(g)' # {}
    BY DEF AlertsReportedOnce
  <2>1. CASE g \in alerts
    BY <1>2, <1>9, <2>1 DEF ReportedBy
  <2>2. CASE g \notin alerts
    <3>1. g \notin torn
      BY <1>2
    <3> QED
      BY <1>1, <1>2, <1>10, <2>2, <3>1 DEF AlertsInv, AlertsReportedOnce
  <2> QED
    BY <2>1, <2>2
<1>13. AlertsInv'
  BY <1>7, <1>8, <1>11, <1>12 DEF AlertsInv, Past
<1> QED
  BY <1>2, <1>3, <1>5, <1>13, DrainMoves DEF t

(* Who clears the buffer loses nothing but what was raised since the copy. *)
LEMMA ClearAlertsKeeps ==
    ASSUME EngineInv, NEW e \in Executions, ClearAlerts(e)
    PROVE  EngineInv'
<1> DEFINE t == thread[e]
           n == [thread[e] EXCEPT !.pc = "complete"]
<1>1. /\ t \in Thread /\ Local(t, record[e], row[e], artifact[e])
      /\ thread \in [Executions -> Thread] /\ AlertTypes /\ AlertsInv
  BY Framed DEF EngineInv, EngineTypes
<1>2. /\ t.pc = "clear" /\ thread' = [thread EXCEPT ![e] = n]
      /\ alerts' = {} /\ alerted' = alerted /\ torn' = torn
      /\ UNCHANGED <<record, healer, row, faults, analysed, artifact, fitted, checkpointed, shared,
                     early>>
  BY DEF ClearAlerts, At, Goto, serviceVars, databaseVars, historyVars, alertVars
<1>3. n \in Thread /\ n.pc = "complete" /\ Alike(n, t) /\ n.evaluated = {}
  <2>1. t.evaluated = {}
    BY <1>1, <1>2 DEF Local
  <2> QED
    BY <1>1, <2>1, GoesOn DEF Stages, Running
<1> HIDE DEF n
<1>4. thread'[e] = n /\ \A f \in Executions \ {e} : thread'[f] = thread[f]
  BY <1>1, <1>2
<1>5. \A f \in Executions : /\ thread'[f].drained = thread[f].drained
                            /\ thread[f].drained \subseteq Executions
                            /\ Past(thread[f]) => Past(thread'[f])
  BY <1>1, <1>3, <1>4 DEF Past, Alike, Thread
<1>6. \A f \in Executions : \A g \in thread'[f].drained : Past(thread'[g])
  BY <1>1, <1>5 DEF AlertsInv
<1>7. AlertsReportedOnce'
  <2>1. \A g \in Executions : ReportedBy(g)' = ReportedBy(g)
    BY <1>5 DEF ReportedBy
  <2>2. \A g \in Executions \ torn : g \in alerts => e \in ReportedBy(g)
    BY <1>1, <1>2 DEF AlertsInv, Untorn, ReportedBy
  <2> QED
    BY <1>1, <1>2, <2>1, <2>2 DEF AlertsInv, AlertsReportedOnce
<1>8. AlertsInv' /\ AlertTypes'
  <2>1. AlertTypes'
    BY <1>1, <1>2 DEF AlertTypes
  <2>2. \A g \in Executions : Untorn(g)'
    BY <1>2 DEF Untorn
  <2> QED
    BY <1>2, <1>6, <1>7, <2>1, <2>2 DEF AlertsInv, Past
<1> QED
  BY <1>2, <1>3, <1>8, DrainMoves DEF t, Alike

(* The run's success, and its row.                                         *)
LEMMA CompleteRowKeeps ==
    ASSUME EngineInv, NEW e \in Executions, CompleteRow(e)
    PROVE  EngineInv'
<1> DEFINE t == thread[e]
           n == [thread[e] EXCEPT !.pc = "answer", !.success = t.best # NoModel]
<1>1. /\ t \in Thread /\ Local(t, record[e], row[e], artifact[e])
      /\ e \notin early => Agreeing(t, row[e], faults[e], analysed[e])
      /\ record \in [Executions -> Statuses] /\ row \in [Executions -> Rows]
  BY Framed DEF EngineInv, EngineTypes
<1>2. /\ t.pc = "complete" /\ thread' = [thread EXCEPT ![e] = n]
      /\ \/ row' = row
         \/ t.best # NoModel /\ row' = [row EXCEPT ![e] = "completed"]
         \/ t.best = NoModel /\ row' = [row EXCEPT ![e] = "failed"]
      /\ UNCHANGED <<record, healer, faults, analysed, artifact, fitted, alerts, checkpointed, shared,
                     early, alertVars>>
  BY DEF CompleteRow, PersistCompletion, RowBecomes, At, serviceVars, singletonVars, historyVars
<1>3. /\ n \in Thread /\ n.pc = "answer" /\ n.drained = t.drained /\ n.best = t.best
      /\ n.raised = t.raised /\ (n.success = TRUE => t.best # NoModel)
      /\ n.evaluated = t.evaluated
  BY <1>1 DEF Thread, Running
<1> HIDE DEF n
<1>4. /\ row' \in [Executions -> Rows] /\ row'[e] \in {"completed", "failed", row[e]}
      /\ row'[e] = "failed" => t.best = NoModel \/ row[e] = "failed"
      /\ \A f \in Executions \ {e} : row'[f] = row[f]
  BY <1>1, <1>2 DEF Rows
<1>5. Local(n, record[e], row'[e], artifact[e])
  BY <1>1, <1>2, <1>3, <1>4 DEF Local
<1>6. e \notin early => Agreeing(n, row'[e], faults[e], analysed[e])
  BY <1>1, <1>2, <1>3, <1>4 DEF Agreeing
<1>7. (Past(t) => Past(n)) /\ n.pc \notin InTraining /\ n.pc # "clear" /\ t.pc # "clear"
  BY <1>2, <1>3 DEF Past, InTraining
<1>8. /\ record' \in [Executions -> Statuses] /\ record'[e] = record[e]
      /\ \A f \in Executions \ {e} : record'[f] = record[f]
  BY <1>1, <1>2
<1> QED
  BY <1>2, <1>3, <1>4, <1>5, <1>6, <1>7, <1>8, SharedStay, RunMoves

(* Healing a record finds an unknown fault, since there are no nodes.      *)
LEMMA HealedTells ==
    ASSUME NEW seen, NEW e, NEW auto
    PROVE  Healed(seen, CheckpointOf(e), auto) \in {"aborted", "manual_review"}
<1> DEFINE fault == Detect(DomainStatus(seen), << >>)
           checkpoint == CheckpointOf(e)
           place == Localize(<< >>, fault, {})
           verdict == Verdict(fault, Decide(fault, place, checkpoint).action)
           plan == RepairPlan(fault, place, FALSE, checkpoint)
<1>1. DomainStatus(seen) # "SUCCESS"
  BY DEF DomainStatus
<1>2. FailedIndex(<< >>) = 0
  BY DEF FailedIndex
<1>3. fault = Fault(TRUE, "UNKNOWN", "HIGH", NoNode, NoError)
  BY <1>1, <1>2 DEF Detect
<1>4. /\ fault.detected = TRUE /\ fault.type = "UNKNOWN" /\ fault.severity = "HIGH"
      /\ fault.node = NoNode
  BY <1>3 DEF Fault
<1> HIDE DEF fault
<1>5. place.root = NoNode
  BY <1>4 DEF Localize, Located
<1> HIDE DEF place, checkpoint
<1>6. verdict \in {"aborted", "none"}
  <2>1. Decide(fault, place, checkpoint).action \in {"ROLLBACK", "ABORT"}
    BY <1>4 DEF Decide, ExecutionDecision, Decision
  <2> QED
    BY <1>4, <2>1 DEF Verdict
<1>7. plan.steps = UnknownSteps
  <2>1. HypothesisOf(fault.type) = "UNKNOWN"
    BY <1>4 DEF HypothesisOf
  <2> DEFINE others == SecondaryHypotheses(fault.type)
  <2>2. others \in Seq({"EXECUTION_ERROR", "CONFIGURATION_FAILURE"})
    <3>1. others = <<"EXECUTION_ERROR", "CONFIGURATION_FAILURE">>
      BY <1>4 DEF SecondaryHypotheses
    <3> HIDE DEF others
    <3> QED
      BY <3>1
  <2>3. Hypotheses(fault, place, FALSE)[1].category = "UNKNOWN"
    <3> HIDE DEF others
    <3> DEFINE primary == AtMost(BaseConfidence(fault.type) + LocalizationBoost(place)
                                   + (IF FALSE THEN 50 ELSE 0), MaxConfidence)
               rest == [i \in DOMAIN others |->
                          [category |-> others[i],
                           confidence |-> AtLeast(AtMost((primary * (70 - 10 * i)) \div 100,
                                                         MaxConfidence), 50)]]
               first == [category |-> HypothesisOf(fault.type), confidence |-> primary]
    <3>1. Hypotheses(fault, place, FALSE) = <<first>> \o rest
      BY DEF Hypotheses, others
    <3>2. \E T : rest \in Seq(T) /\ first \in T
      <4> DEFINE E(i) == [category |-> others[i],
                          confidence |-> AtLeast(AtMost((primary * (70 - 10 * i)) \div 100, MaxConfidence), 50)]
                 T == {E(i) : i \in DOMAIN others} \cup {first}
      <4>1. DOMAIN others = 1..Len(others) /\ Len(others) \in Nat
        BY <2>2
      <4>2. rest \in [1..Len(others) -> T]
        BY <4>1
      <4>3. rest \in Seq(T)
        BY <4>1, <4>2
      <4> QED
        BY <4>3
    <3>3. first.category = "UNKNOWN"
      BY <2>1
    <3> HIDE DEF rest, first
    <3>4. (<<first>> \o rest)[1] = first
      BY <3>2
    <3> QED
      BY <3>1, <3>3, <3>4
  <2> QED
    BY <2>3 DEF RepairPlan, PlanSteps
<1>8. ~PlanIsAutoSafe(plan, auto)
  <2> DEFINE step == ReviewStep("CRITICAL")
  <2>1. plan.steps = <<step>> /\ step.action = "MANUAL_REVIEW"
    BY <1>7 DEF UnknownSteps, ReviewStep, Step
  <2> HIDE DEF plan, step
  <2>2. 1 \in DOMAIN plan.steps /\ plan.steps[1].action = "MANUAL_REVIEW"
    BY <2>1
  <2> QED
    BY <2>2 DEF PlanIsAutoSafe
<1> QED
  BY <1>6, <1>8 DEF Healed, fault, place, checkpoint

(* A step of the request that heals a record.                              *)
LEMMA HealerMoves ==
    ASSUME EngineInv, NEW e \in Executions,
           record' \in [Executions -> Statuses], healer' \in [Executions -> Statuses \cup {"idle"}],
           \A f \in Executions \ {e} : record'[f] = record[f],
           record'[e] = "succeeded" => record[e] = "succeeded",
           UNCHANGED <<thread, databaseVars, analysed, artifact, singletonVars, historyVars>>
    PROVE  EngineInv'
<1> DEFINE t == thread[e]
<1>1. /\ t \in Thread /\ artifact[e] \in Artifact /\ Local(t, record[e], row[e], artifact[e])
      /\ e \notin early => Agreeing(t, row[e], faults[e], analysed[e])
      /\ thread = [thread EXCEPT ![e] = t] /\ artifact = [artifact EXCEPT ![e] = artifact[e]]
  BY Framed
<1>2. UNCHANGED <<thread, row, faults, analysed, artifact, fitted, alerts, checkpointed, shared, early, alertVars>>
  BY DEF databaseVars, singletonVars, historyVars
<1>3. EngineTypes'
  BY <1>2 DEF EngineInv, EngineTypes, AlertTypes, alertVars
<1>4. Others(e)
  BY <1>2 DEF Others
<1>5. Local(thread'[e], record'[e], row'[e], artifact'[e])
  BY <1>1, <1>2 DEF Local
<1>6. e \notin early' => Agreeing(thread'[e], row'[e], faults'[e], analysed'[e])
  BY <1>1, <1>2
<1>7. thread' = [thread EXCEPT ![e] = t]
  BY <1>1, <1>2
<1>8. AllTogether'
  <2> SUFFICES ASSUME NEW f \in Executions PROVE Together(f)'
    BY <1>2 DEF AllTogether
  <2>1. Together(f)
    BY DEF EngineInv, AllTogether
  <2> QED
    BY <1>2, <2>1 DEF Together
<1>9. AlertsInv'
  BY <1>1, <1>2, <1>7, AlertsStay
<1> QED
  BY <1>2, <1>3, <1>4, <1>5, <1>6, <1>8, <1>9, OneMoves

(* The request that heals a record: it reads it, answers, or raises.       *)
LEMMA HealingKeeps ==
    ASSUME EngineInv, NEW e \in Executions, ReadRecord(e) \/ HealRecord(e) \/ HealRaises(e)
    PROVE  EngineInv'
<1>1. /\ record \in [Executions -> Statuses] /\ healer \in [Executions -> Statuses \cup {"idle"}]
      /\ UNCHANGED <<thread, databaseVars, analysed, artifact, singletonVars, historyVars>>
  BY DEF EngineInv, EngineTypes, ReadRecord, HealRecord, HealRaises
<1>2. CASE ReadRecord(e) \/ HealRaises(e)
  <2>1. record' = record /\ healer' \in [Executions -> Statuses \cup {"idle"}]
    BY <1>1, <1>2 DEF ReadRecord, HealRaises
  <2> QED
    BY <1>1, <2>1, HealerMoves
<1>3. CASE HealRecord(e)
  <2>1. PICK auto \in BOOLEAN :
           record' = [record EXCEPT ![e] = MapStatus(Healed(healer[e], CheckpointOf(e), auto))]
    BY <1>3 DEF HealRecord
  <2> DEFINE s == MapStatus(Healed(healer[e], CheckpointOf(e), auto))
  <2>2. s \in {"aborted", "escalated"}
    BY HealedTells DEF MapStatus
  <2>3. record' = [record EXCEPT ![e] = s]
    BY <2>1
  <2> HIDE DEF s
  <2>4. /\ record' \in [Executions -> Statuses] /\ record'[e] # "succeeded"
        /\ \A f \in Executions \ {e} : record'[f] = record[f]
    BY <1>1, <2>2, <2>3 DEF Statuses
  <2>5. healer' \in [Executions -> Statuses \cup {"idle"}]
    BY <1>1, <1>3 DEF HealRecord
  <2> QED
    BY <1>1, <2>4, <2>5, HealerMoves
<1> QED
  BY <1>2, <1>3

(* What analyze_and_heal detects from the row and the fault events of a    *)
(* run: the first fault event, or the row's own error.                     *)
LEMMA AnalysisFinds ==
    ASSUME EngineInv, NEW e \in Executions, row[e] # "absent"
    PROVE  LET fault == Detect(RowStatus(e), DomainNodes(e))
           IN  /\ fault.error \in Classes /\ fault.node \in Nat
               /\ row[e] = "failed" /\ faults[e] = << >> =>
                     fault.error = ErrorOf(thread[e]) /\ fault.node = PersistedExecution
               /\ row[e] = "failed" /\ faults[e] # << >> => fault.error = faults[e][1].error
<1> DEFINE nodes == DomainNodes(e)
           fault == Detect(RowStatus(e), nodes)
           t == thread[e]
<1>1. /\ t \in Thread /\ row[e] \in {"started", "completed", "failed"}
      /\ faults[e] \in Seq(FaultEvent)
  BY Framed DEF Rows
<1>2. NoError \in Classes /\ NoNode \in Nat /\ ErrorOf(t) \in Classes
  BY <1>1 DEF Classes, NoNode, ErrorOf, Errors, Thread
<1>3. CASE RowStatus(e) = "SUCCESS" \/ nodes = << >>
  <2>1. nodes = << >> => FailedIndex(nodes) = 0
    BY DEF FailedIndex
  <2>2. \/ fault = Fault(FALSE, "UNKNOWN", "LOW", NoNode, NoError)
        \/ fault = Fault(TRUE, "UNKNOWN", "HIGH", NoNode, NoError)
    BY <1>3, <2>1 DEF Detect
  <2>3. fault.error = NoError /\ fault.node = NoNode
    BY <2>2 DEF Fault
  <2>4. row[e] # "failed"
    <3>1. row[e] = "failed" => RowStatus(e) = "FAILED"
      BY DEF RowStatus
    <3>2. CASE nodes = << >>
      <4>1. row[e] = "failed" /\ faults[e] = << >> => Len(nodes) = 1
        BY DEF DomainNodes
      <4>2. faults[e] # << >> => Len(nodes) = Len(faults[e]) /\ Len(faults[e]) # 0
        BY <1>1 DEF DomainNodes
      <4> QED
        BY <3>2, <4>1, <4>2
    <3> QED
      BY <1>3, <3>1, <3>2
  <2> QED
    BY <1>2, <2>3, <2>4
<1>4. CASE RowStatus(e) # "SUCCESS" /\ nodes # << >>
  <2>1. /\ DOMAIN nodes # {} /\ 1 \in DOMAIN nodes /\ DOMAIN nodes \subseteq Nat \ {0}
        /\ \A i \in DOMAIN nodes : nodes[i].status = "FAILED"
        /\ faults[e] # << >> =>
              nodes[1].node = faults[e][1].node /\ nodes[1].error = faults[e][1].error
        /\ faults[e] = << >> =>
              /\ row[e] = "failed"
              /\ nodes[1].node = PersistedExecution /\ nodes[1].error = ErrorOf(t)
    <3>1. CASE faults[e] # << >>
      <4>1. DOMAIN faults[e] = 1..Len(faults[e]) /\ Len(faults[e]) \in Nat \ {0}
        BY <1>1, <3>1
      <4>2. nodes = [i \in DOMAIN faults[e] |->
                       DomainNode(faults[e][i].node, "FAILED", faults[e][i].error)]
        BY <3>1 DEF DomainNodes
      <4>3. 1 \in DOMAIN faults[e]
        BY <4>1
      <4> HIDE DEF nodes
      <4> QED
        BY <3>1, <4>1, <4>2, <4>3 DEF DomainNode
    <3>2. CASE faults[e] = << >>
      <4>1. row[e] = "failed"
        BY <1>1, <1>4, <3>2 DEF DomainNodes, RowStatus
      <4> DEFINE node == DomainNode(PersistedExecution, "FAILED", ResultError(e))
      <4>2. nodes = <<node>>
        BY <3>2, <4>1 DEF DomainNodes
      <4>3. node.status = "FAILED" /\ node.node = PersistedExecution /\ node.error = ErrorOf(t)
        BY DEF DomainNode, ResultError, ErrorOf
      <4> HIDE DEF nodes, node
      <4>4. DOMAIN nodes = {1} /\ nodes[1] = node
        BY <4>2
      <4> QED
        BY <3>2, <4>1, <4>3, <4>4
    <3> QED
      BY <3>1, <3>2
  <2> HIDE DEF nodes
  <2>2. FailedIndex(nodes) = 1
    <3>1. \A j \in DOMAIN nodes : 1 <= j
      BY <2>1
    <3>2. \A i \in DOMAIN nodes : (\A j \in DOMAIN nodes : i <= j) => i = 1
      BY <2>1
    <3> QED
      BY <2>1, <3>1, <3>2 DEF FailedIndex
  <2>3. fault.node = nodes[1].node /\ fault.error = nodes[1].error
    BY <1>4, <2>2 DEF Detect, Fault
  <2>4. faults[e] # << >> => faults[e][1].node \in Nat /\ faults[e][1].error \in Classes
    <3>1. faults[e] # << >> => faults[e][1] \in FaultEvent
      BY <1>1
    <3> QED
      BY <3>1 DEF FaultEvent
  <2>5. PersistedExecution \in Nat
    BY DEF PersistedExecution
  <2>6. fault.error \in Classes /\ fault.node \in Nat
    BY <1>2, <2>1, <2>3, <2>4, <2>5
  <2> QED
    BY <2>1, <2>3, <2>6 DEF nodes
<1> QED
  BY <1>3, <1>4

(* An analysis adds the class it found, and perhaps a fault event behind   *)
(* the first one.                                                          *)
LEMMA AnalyzeAndHealKeeps ==
    ASSUME EngineInv, NEW e \in Executions, AnalyzeAndHeal(e)
    PROVE  EngineInv'
<1> DEFINE t == thread[e]
           fault == Detect(RowStatus(e), DomainNodes(e))
           found == Event(IF fault.node = NoNode THEN PersistedFault ELSE fault.node,
                          DetectedError(fault))
<1>1. /\ t \in Thread /\ row[e] \in Rows /\ artifact[e] \in Artifact
      /\ Local(t, record[e], row[e], artifact[e])
      /\ e \notin early => Agreeing(t, row[e], faults[e], analysed[e])
      /\ thread = [thread EXCEPT ![e] = t] /\ artifact = [artifact EXCEPT ![e] = artifact[e]]
      /\ faults \in [Executions -> Seq(FaultEvent)] /\ analysed \in [Executions -> Seq(Classes)]
      /\ early \subseteq Executions
  BY Framed DEF EngineInv, EngineTypes
<1>2. /\ row[e] # "absent"
      /\ analysed' = [analysed EXCEPT ![e] = Append(analysed[e], fault.error)]
      /\ faults' = [faults EXCEPT ![e] = Append(faults[e], found)] \/ faults' = faults
      /\ early' = IF row[e] = "started" THEN early \cup {e} ELSE early
      /\ UNCHANGED <<thread, artifact, record, healer, row, fitted, alerts, checkpointed, shared, alertVars>>
  BY <1>1 DEF AnalyzeAndHeal, serviceVars, singletonVars
<1>3. /\ fault.error \in Classes /\ fault.node \in Nat
      /\ row[e] = "failed" /\ faults[e] = << >> =>
            fault.error = ErrorOf(t) /\ fault.node = PersistedExecution
      /\ row[e] = "failed" /\ faults[e] # << >> => fault.error = faults[e][1].error
  BY <1>2, AnalysisFinds
<1> HIDE DEF fault
<1>4. /\ found \in FaultEvent
      /\ row[e] = "failed" /\ faults[e] = << >> => found.error = ErrorOf(t)
  <2>1. "other" \in Classes /\ PersistedFault \in Nat /\ PersistedExecution # NoNode
    BY DEF Classes, Errors, PersistedFault, PersistedExecution, NoNode
  <2> QED
    BY <1>3, <2>1 DEF FaultEvent, Event, DetectedError
<1> HIDE DEF found
<1>5. /\ analysed' \in [Executions -> Seq(Classes)]
      /\ analysed'[e] = Append(analysed[e], fault.error)
      /\ faults' \in [Executions -> Seq(FaultEvent)]
      /\ faults'[e] = faults[e] \/ faults'[e] = Append(faults[e], found)
      /\ \A f \in Executions \ {e} : faults'[f] = faults[f] /\ analysed'[f] = analysed[f]
  <2>1. Append(faults[e], found) \in Seq(FaultEvent)
    BY <1>1, <1>4
  <2>2. Append(analysed[e], fault.error) \in Seq(Classes)
    BY <1>1, <1>3
  <2> QED
    BY <1>1, <1>2, <2>1, <2>2
<1>6. early \subseteq early' /\ early' \subseteq Executions /\ (e \notin early' => row[e] # "started")
  BY <1>1, <1>2
<1>7. EngineTypes'
  BY <1>2, <1>5, <1>6 DEF EngineInv, EngineTypes, AlertTypes, alertVars
<1>8. Others(e)
  BY <1>2, <1>5 DEF Others
<1>9. Local(thread'[e], record'[e], row'[e], artifact'[e])
  BY <1>1, <1>2
<1>10. e \notin early' => Agreeing(thread'[e], row'[e], faults'[e], analysed'[e])
  <2> SUFFICES ASSUME e \notin early' PROVE Agreeing(t, row[e], faults'[e], analysed'[e])
    BY <1>2
  <2>1. row[e] \in {"completed", "failed"} /\ t.pc \in {"answer", "over"}
        /\ Agreeing(t, row[e], faults[e], analysed[e])
    BY <1>1, <1>2, <1>6 DEF Rows, Local
  <2>2. CASE row[e] = "failed"
    <3>1. fault.error = ErrorOf(t)
      BY <1>3, <2>1, <2>2 DEF Agreeing
    <3>2. faults'[e] = << >> \/ faults'[e][1].error = ErrorOf(t)
      <4>1. faults[e] \in Seq(FaultEvent) /\ (faults[e] = << >> \/ faults[e][1].error = ErrorOf(t))
        BY <1>1, <2>1, <2>2 DEF Agreeing
      <4>2. CASE faults[e] = << >>
        BY <1>4, <1>5, <2>2, <4>2
      <4>3. CASE faults[e] # << >>
        <5>1. Append(faults[e], found)[1] = faults[e][1]
          BY <4>1, <4>3
        <5> QED
          BY <1>5, <4>1, <4>3, <5>1
      <4> QED
        BY <4>2, <4>3
    <3>3. \A i \in DOMAIN analysed'[e] : analysed'[e][i] = ErrorOf(t)
      <4>1. analysed[e] \in Seq(Classes) /\ \A i \in DOMAIN analysed[e] : analysed[e][i] = ErrorOf(t)
        BY <1>1, <2>1, <2>2 DEF Agreeing
      <4> QED
        BY <1>5, <3>1, <4>1
    <3> QED
      BY <2>1, <3>2, <3>3 DEF Agreeing
  <2>3. CASE row[e] = "completed"
    BY <2>1, <2>3 DEF Agreeing
  <2> QED
    BY <2>1, <2>2, <2>3
<1>11. AllTogether'
  <2> SUFFICES ASSUME NEW f \in Executions PROVE Together(f)'
    BY <1>2 DEF AllTogether
  <2>1. Together(f)
    BY DEF EngineInv, AllTogether
  <2> QED
    BY <1>2, <2>1 DEF Together
<1>12. AlertsInv'
  <2>1. thread' = [thread EXCEPT ![e] = t]
    BY <1>1, <1>2
  <2> QED
    BY <1>1, <1>2, <2>1, AlertsStay
<1> QED
  BY <1>6, <1>7, <1>8, <1>9, <1>10, <1>11, <1>12, OneMoves

(* The process dies: what is persisted stays, but for a record cut short.  *)
LEMMA RestartKeeps ==
    ASSUME EngineInv, NEW interrupted \in SUBSET Executions, EngineRestart(interrupted)
    PROVE  EngineInv'
<1>1. /\ record \in [Executions -> Statuses] /\ thread \in [Executions -> Thread]
      /\ alerts' = {} /\ checkpointed' = {} /\ alerted' = {} /\ AlertTypes
      /\ UNCHANGED <<row, faults, analysed, artifact, shared, early, torn>>
  BY DEF EngineInv, EngineTypes, EngineRestart, databaseVars
<1>2. ASSUME NEW e \in Executions
      PROVE  /\ thread'[e] \in Thread
             /\ Alike(thread'[e], thread[e])
             /\ thread[e].pc = "absent" => thread'[e] = thread[e]
             /\ thread[e].pc # "absent" => thread'[e].pc = "over" /\ thread'[e].evaluated = {}
             /\ record'[e] \in Statuses
             /\ record'[e] = "succeeded" => record[e] = "succeeded"
  <2>1. /\ Behind(e, "over") \in Thread /\ Behind(e, "over").pc = "over"
        /\ Alike(Behind(e, "over"), thread[e]) /\ Behind(e, "over").evaluated = {}
    BY <1>1, <1>2, IsBehind DEF Stages
  <2>2. thread'[e] = IF thread[e].pc = "absent" THEN thread[e] ELSE Behind(e, "over")
    BY <1>2 DEF EngineRestart, At
  <2>3. record'[e] = IF e \in interrupted THEN "unreadable" ELSE record[e]
    BY <1>2 DEF EngineRestart
  <2> QED
    BY <1>1, <1>2, <2>1, <2>2, <2>3 DEF Alike, Statuses
<1>3. EngineTypes'
  <2>1. thread' \in [Executions -> Thread] /\ record' \in [Executions -> Statuses]
    BY <1>2 DEF EngineRestart
  <2>2. healer' \in [Executions -> Statuses \cup {"idle"}]
        /\ fitted' \in [Models -> Executions \cup {Nobody}]
    BY DEF EngineRestart
  <2>3. AlertTypes'
    BY <1>1 DEF AlertTypes
  <2> QED
    BY <1>1, <2>1, <2>2, <2>3 DEF EngineInv, EngineTypes
<1>4. (\A e \in Executions : Local(thread[e], record[e], row[e], artifact[e]))'
  <2> SUFFICES ASSUME NEW e \in Executions
               PROVE  Local(thread'[e], record'[e], row'[e], artifact'[e])
    BY DEF Local
  <2>1. Local(thread[e], record[e], row[e], artifact[e])
    BY DEF EngineInv
  <2> QED
    BY <1>1, <1>2, <2>1 DEF Local, Alike
<1>5. (\A e \in Executions \ early : Agreeing(thread[e], row[e], faults[e], analysed[e]))'
  <2> SUFFICES ASSUME NEW e \in Executions \ early
               PROVE  Agreeing(thread'[e], row'[e], faults'[e], analysed'[e])
    BY <1>1 DEF Agreeing, ErrorOf
  <2>1. Agreeing(thread[e], row[e], faults[e], analysed[e])
    BY DEF EngineInv
  <2>2. ErrorOf(thread'[e]) = ErrorOf(thread[e])
    BY <1>2 DEF ErrorOf, Alike
  <2>3. thread'[e].pc \notin {"answer", "over"} => thread[e].pc = "absent"
    BY <1>2
  <2> QED
    BY <1>1, <2>1, <2>2, <2>3 DEF Agreeing
<1>6. AllTogether'
  <2> SUFFICES ASSUME NEW e \in Executions PROVE Together(e)'
    BY <1>1 DEF AllTogether
  <2>1. Together(e)
    BY DEF EngineInv, AllTogether
  <2>2. thread'[e].pc \notin InTraining
    BY <1>2 DEF InTraining
  <2> QED
    BY <1>1, <2>1, <2>2 DEF Together, InTraining
<1>7. AlertsInv'
  <2>1. AlertsInv
    BY DEF EngineInv
  <2>2. \A e \in Executions : /\ thread'[e].drained = thread[e].drained
                              /\ thread[e].drained \subseteq Executions
                              /\ Past(thread[e]) => Past(thread'[e])
    BY <1>1, <1>2 DEF Alike, Past, Thread
  <2>3. \A f \in Executions : \A e \in thread'[f].drained : Past(thread'[e])
    BY <2>1, <2>2 DEF AlertsInv
  <2>4. \A e \in Executions : ReportedBy(e)' = ReportedBy(e) /\ Untorn(e)'
    BY <1>1, <2>2 DEF ReportedBy, Untorn
  <2>5. AlertsReportedOnce'
    BY <1>1, <2>1, <2>4 DEF AlertsInv, AlertsReportedOnce
  <2> QED
    BY <1>1, <2>3, <2>4, <2>5 DEF AlertsInv, Past
<1> QED
  BY <1>3, <1>4, <1>5, <1>6, <1>7 DEF EngineInv

(* The initial states satisfy the invariant.                               *)
LEMMA EngineBegins == EngineInit => EngineInv
<1> SUFFICES ASSUME EngineInit PROVE EngineInv
  OBVIOUS
<1>1. /\ \A e \in Executions : /\ record[e] = "absent" /\ row[e] = "absent" /\ thread[e] = NoThread
                               /\ artifact[e] = NoArtifact
                               /\ faults[e] = << >> /\ analysed[e] = << >>
      /\ alerts = {} /\ alerted = {} /\ torn = {}
  BY DEF EngineInit
<1>2. NoThread \in Thread
  <2>1. 1 \in 1..Len(Candidates) + 1
    BY CandidatesAssumption
  <2>2. {} \in SUBSET Executions /\ {} \in SUBSET Models
    OBVIOUS
  <2> QED
    BY <2>1, <2>2 DEF NoThread, Thread, Classes
<1>3. /\ NoThread.pc = "absent" /\ NoThread.evaluated = {} /\ NoThread.best = NoModel
      /\ NoThread.success = FALSE /\ NoThread.drained = {}
      /\ NoArtifact \in Artifact /\ NoArtifact.model = NoModel
  BY DEF NoThread, NoArtifact, Artifact
<1>4. EngineTypes
  <2>1. << >> \in Seq(FaultEvent) /\ << >> \in Seq(Classes)
    OBVIOUS
  <2> QED
    BY <1>2, <1>3, <2>1 DEF EngineInit, EngineTypes, AlertTypes, Statuses, Rows
<1>5. \A e \in Executions : Local(thread[e], record[e], row[e], artifact[e])
  BY <1>1, <1>3 DEF Local
<1>6. \A e \in Executions : Agreeing(thread[e], row[e], faults[e], analysed[e])
  BY <1>1, <1>3 DEF Agreeing
<1>7. AllTogether
  BY <1>1, <1>3 DEF AllTogether, Together, InTraining
<1>8. AlertsInv
  <2>1. \A e \in Executions : thread[e].drained = {}
    BY <1>1, <1>3
  <2> QED
    BY <1>1, <2>1 DEF AlertsInv, AlertsReportedOnce, ReportedBy, Untorn
<1> QED
  BY <1>4, <1>5, <1>6, <1>7, <1>8 DEF EngineInv

(* A step of a run, of a request or of the process, or a stutter.          *)
LEMMA EngineStep ==
    ASSUME EngineInv, [EngineNext]_engineVars
    PROVE  EngineInv'
<1>1. ASSUME NEW e \in Executions, ThreadStep(e)
      PROVE  EngineInv'
  BY <1>1, RunBeginsKeeps, RunNeverBeginsKeeps, CharacterizeKeeps, TrainingKeeps, ModelFitKeeps,
     TrainingEndsKeeps, BuildArtifactKeeps, CopyAlertsKeeps, ClearAlertsKeeps, CompleteRowKeeps,
     PersistFailureKeeps, RunAnswersKeeps
  DEF ThreadStep
<1>2. ASSUME NEW e \in Executions, StartRun(e) \/ ReadRecord(e) \/ HealRecord(e) \/ HealRaises(e)
                                   \/ AnalyzeAndHeal(e)
      PROVE  EngineInv'
  BY <1>2, StartRunKeeps, HealingKeeps, AnalyzeAndHealKeeps
<1>3. ASSUME NEW interrupted \in SUBSET Executions, EngineRestart(interrupted)
      PROVE  EngineInv'
  BY <1>3, RestartKeeps
<1>4. CASE UNCHANGED engineVars
  <2>1. UNCHANGED <<record, healer, thread, row, faults, analysed, artifact, fitted, alerts,
                    checkpointed, shared, early, alertVars>>
    BY <1>4 DEF engineVars, serviceVars, databaseVars, singletonVars, historyVars
  <2>2. EngineTypes' /\ AllTogether' /\ AlertsInv'
    BY <2>1 DEF EngineInv, EngineTypes, AllTogether, Together, AlertsInv, AlertsReportedOnce, Past,
                AlertTypes, alertVars, Untorn, ReportedBy
  <2>3. (\A e \in Executions : Local(thread[e], record[e], row[e], artifact[e]))'
    BY <2>1 DEF EngineInv, Local
  <2>4. (\A e \in Executions \ early : Agreeing(thread[e], row[e], faults[e], analysed[e]))'
    BY <2>1 DEF EngineInv, Agreeing, ErrorOf
  <2> QED
    BY <2>2, <2>3, <2>4 DEF EngineInv
<1> QED
  BY <1>1, <1>2, <1>3, <1>4 DEF EngineNext

(* The invariant holds what the property says.                             *)
LEMMA EngineInvSound == EngineInv => RunsSound
<1> SUFFICES ASSUME EngineInv PROVE RunsSound
  OBVIOUS
<1>1. ASSUME NEW e \in Executions
      PROVE  /\ thread[e] \in Thread /\ artifact[e] \in Artifact
             /\ Local(thread[e], record[e], row[e], artifact[e])
             /\ e \notin early => Agreeing(thread[e], row[e], faults[e], analysed[e])
  BY <1>1, Framed
<1>2. EngineTypeOK
  <2>1. \A e \in Executions :
           /\ thread[e].pc \in Running \cup {"absent", "queued", "over"}
           /\ thread[e].next \in 1 .. Len(Candidates) + 1 /\ thread[e].evaluated \subseteq Models
           /\ thread[e].best \in Models \cup {NoModel}
           /\ thread[e].raised \in Errors \cup {NoError}
           /\ thread[e].drained \subseteq Executions
           /\ artifact[e].model \in Models \cup {NoModel}
    BY <1>1 DEF Thread, Artifact, Classes
  <2>2. \A e \in Executions : shared[e] \subseteq Executions
    BY SharedStay
  <2> QED
    BY <2>1, <2>2 DEF EngineTypeOK, EngineInv, EngineTypes, AlertTypes, Rows
<1>3. SucceededHasModel
  BY <1>1 DEF SucceededHasModel, Local
<1>4. ArtifactFitTogether
  BY DEF ArtifactFitTogether, EngineInv, AllTogether, Together
<1>5. AlertsReportedOnce
  BY DEF EngineInv, AlertsInv
<1>6. AnalysesAgree
  BY <1>1 DEF AnalysesAgree, Agreeing, ErrorOf, ResultError
<1> QED
  BY <1>2, <1>3, <1>4, <1>5, <1>6 DEF RunsSound

(* Whatever runs, requests and analyses share the engine, and however often *)
(* its process dies: a run that is reported as succeeded has the model that *)
(* its evaluation chose and no failed row; the model of an artifact was    *)
(* fitted on the run's own data, or on that of a run whose training        *)
(* overlapped its own, which the code lets happen; an alert that was       *)
(* neither raised nor copied by another run while a run stood between the  *)
(* copy and the clear of drain() is reported by one run at most, and until *)
(* the process ends is in the buffer or with that run; and every analysis  *)
(* of a failed row names the same error (PipelineService, RecoveryService, *)
(* PipelineOrchestrator.run and analyze_and_heal, PipelineMonitor.drain).  *)
THEOREM RunsAreSound == EngineSpec => []RunsSound
<1>1. EngineInv /\ [EngineNext]_engineVars => EngineInv'
  BY EngineStep
<1> QED
  BY EngineBegins, <1>1, EngineInvSound, PTL DEF EngineSpec
=============================================================================
