---------------------------- MODULE FaultAnalysis ----------------------------
(***************************************************************************)
(* The deterministic rules of the engine's fault analysis: what kind of    *)
(* fault a failed run shows (core/fault/detector.py), which node caused it *)
(* (core/fault/localizer.py), why (core/analysis/root_cause.py), what to   *)
(* do about it (core/recovery/decision.py) and in which steps              *)
(* (core/repair/planner.py).  None of them keeps state: they are operators *)
(* over the record of a run.                                               *)
(*                                                                         *)
(* A run is its status and the sequence of its node records; a node is its *)
(* position in the pipeline.  An exception is a member of Errors, one for  *)
(* every pair of error type and message hint that the detector tells       *)
(* apart.  Confidences are in thousandths.                                 *)
(***************************************************************************)
EXTENDS Integers, Sequences

NoNode == 0      \* Python's None where a node id may stand
NoCheckpoint == 0

Errors == {"missing_column", "missing_key", "missing_file", "output_validation",
           "validation", "bad_value", "timeout", "memory", "denied", "denied_integrity",
           "integrity", "dependency", "runtime", "other"}
NoError == "none"

FaultTypes == {"SCHEMA_MISMATCH", "MISSING_ARTIFACT", "VALIDATION_ERROR", "EXECUTION_ERROR",
               "TIMEOUT", "RESOURCE_ERROR", "CORRUPTED_ARTIFACT", "DEPENDENCY_FAILURE",
               "UNKNOWN"}
Severities == {"LOW", "MEDIUM", "HIGH", "CRITICAL"}

NodeRecord == [node : Nat \ {NoNode}, status : {"SUCCESS", "FAILED"},
               error : Errors \cup {NoError}, checkpoint : Nat, flagged : BOOLEAN]

----------------------------------------------------------------------------
\* FaultDetector: the class of an exception.
DataFault(error) ==
    CASE error = "missing_column"    -> <<"SCHEMA_MISMATCH", "HIGH">>
      [] error = "missing_key"       -> <<"SCHEMA_MISMATCH", "MEDIUM">>
      [] error = "missing_file"      -> <<"MISSING_ARTIFACT", "HIGH">>
      [] error = "output_validation" -> <<"VALIDATION_ERROR", "HIGH">>
      [] error = "validation"        -> <<"VALIDATION_ERROR", "MEDIUM">>
      [] error = "bad_value"         -> <<"EXECUTION_ERROR", "MEDIUM">>

EnvironmentFault(error) ==
    CASE error = "timeout"    -> <<"TIMEOUT", "HIGH">>
      [] error = "memory"     -> <<"RESOURCE_ERROR", "CRITICAL">>
      [] error = "denied"     -> <<"MISSING_ARTIFACT", "HIGH">>
      [] error \in {"denied_integrity", "integrity"} -> <<"CORRUPTED_ARTIFACT", "CRITICAL">>
      [] error = "dependency" -> <<"DEPENDENCY_FAILURE", "HIGH">>
      [] error \in {"runtime", "other"} -> <<"EXECUTION_ERROR", "MEDIUM">>
      [] error = NoError      -> <<"UNKNOWN", "MEDIUM">>

Classify(error) ==
    IF error \in {"missing_column", "missing_key", "missing_file",
                  "output_validation", "validation", "bad_value"}
    THEN DataFault(error)
    ELSE EnvironmentFault(error)

\* PipelineExecution.failed_node: the index of the first FAILED record, or 0.
FailedIndex(records) ==
    IF \E i \in DOMAIN records : records[i].status = "FAILED"
    THEN CHOOSE i \in DOMAIN records :
            /\ records[i].status = "FAILED"
            /\ \A j \in DOMAIN records : records[j].status = "FAILED" => i <= j
    ELSE 0

Fault(detected, type, severity, node, error) ==
    [detected |-> detected, type |-> type, severity |-> severity, node |-> node,
     error |-> error]

\* FaultDetector.detect.
Detect(status, records) ==
    LET first == FailedIndex(records)
    IN  IF status = "SUCCESS"
        THEN Fault(FALSE, "UNKNOWN", "LOW", NoNode, NoError)
        ELSE IF first = 0
        THEN Fault(TRUE, "UNKNOWN", "HIGH", NoNode, NoError)
        ELSE LET class == Classify(records[first].error)
             IN  Fault(TRUE, class[1], class[2], records[first].node, records[first].error)

----------------------------------------------------------------------------
\* FaultLocalizer: the records before the first one of the observed node, and
\* the nearest of them that shows a piece of evidence.
Preceding(records, node) ==
    LET first == CHOOSE i \in DOMAIN records :
                    /\ records[i].node = node
                    /\ \A j \in DOMAIN records : records[j].node = node => i <= j
    IN  SubSeq(records, 1, first - 1)

Nearest(records, Evidence(_)) ==
    CHOOSE i \in DOMAIN records :
        /\ Evidence(records[i])
        /\ \A j \in DOMAIN records : Evidence(records[j]) => j <= i

Shows(records, Evidence(_)) == \E i \in DOMAIN records : Evidence(records[i])

HasFailed(record) == record.status = "FAILED"
IsFlagged(record) == record.flagged
LacksCheckpoint(record) == record.status = "SUCCESS" /\ record.checkpoint = NoCheckpoint

Located(root, confidence) == [root |-> root, confidence |-> confidence]

\* The rules on the records before the observed node, strongest evidence first:
\* `reported` are the nodes with an output_validation_failed event.
UpstreamRoot(before, reported, observed) ==
    LET Reported(record) == record.node \in reported
        At(Evidence(_), confidence) ==
            Located(before[Nearest(before, Evidence)].node, confidence)
    IN  IF Shows(before, HasFailed) THEN At(HasFailed, 900)
        ELSE IF Shows(before, Reported) THEN At(Reported, 850)
        ELSE IF Shows(before, IsFlagged) THEN At(IsFlagged, 850)
        ELSE IF Shows(before, LacksCheckpoint) THEN At(LacksCheckpoint, 750)
        ELSE Located(observed, 550)

\* FaultLocalizer.localize.
Localize(records, fault, reported) ==
    IF ~fault.detected THEN Located(NoNode, 1000)
    ELSE IF fault.node = NoNode THEN Located(NoNode, 300)
    ELSE UpstreamRoot(Preceding(records, fault.node), reported, fault.node)

----------------------------------------------------------------------------
\* RecoveryDecisionEngine.decide, rule by rule.
Decision(action, approval, target, checkpoint) ==
    [action |-> action, approval |-> approval, target |-> target, checkpoint |-> checkpoint]

SafeRetry == Decision("RETRY", FALSE, NoNode, NoCheckpoint)

\* Every CORRUPTED_ARTIFACT class carries an integrity hint, in the type or in
\* the message; the rule's other two branches serve faults built by hand.
HasSecurityHint(fault) == fault.error \in {"integrity", "denied_integrity"}
CorruptedDecision(fault, place, checkpoint) ==
    IF HasSecurityHint(fault)
    THEN Decision("QUARANTINE", TRUE, fault.node, NoCheckpoint)
    ELSE IF checkpoint # NoCheckpoint
    THEN Decision("ROLLBACK", TRUE, place.root, checkpoint)
    ELSE Decision("ABORT", TRUE, fault.node, NoCheckpoint)

\* Mutant: the rerun starts behind the node that failed.
RerunDecisionBehind(fault, place, checkpoint) ==
    Decision("RERUN_FROM_NODE", FALSE, fault.node + 1, checkpoint)

RerunDecision(fault, place, checkpoint) ==
    Decision("RERUN_FROM_NODE", FALSE,
             IF place.root # NoNode THEN place.root ELSE fault.node, checkpoint)

MissingDecision(fault, place, checkpoint) ==
    IF checkpoint # NoCheckpoint
    THEN Decision("ROLLBACK", TRUE, place.root, checkpoint)
    ELSE Decision("ABORT", TRUE, fault.node, NoCheckpoint)

DependencyDecision(fault, place, checkpoint) ==
    IF place.root \notin {NoNode, fault.node}
    THEN Decision("RERUN_FROM_NODE", FALSE, place.root, checkpoint)
    ELSE IF checkpoint # NoCheckpoint
    THEN Decision("ROLLBACK", TRUE, NoNode, checkpoint)
    ELSE Decision("MANUAL_REVIEW", TRUE, NoNode, NoCheckpoint)

CriticalDecision(fault) == Decision("MANUAL_REVIEW", TRUE, fault.node, NoCheckpoint)

ExecutionDecision(fault, place, checkpoint) ==
    IF checkpoint # NoCheckpoint
    THEN Decision("ROLLBACK", TRUE, place.root, checkpoint)
    ELSE Decision("ABORT", TRUE, fault.node, NoCheckpoint)

ResourceDecision(fault, checkpoint) ==
    IF checkpoint # NoCheckpoint
    THEN Decision("ROLLBACK", TRUE, NoNode, checkpoint)
    ELSE Decision("MANUAL_REVIEW", TRUE, fault.node, NoCheckpoint)

Decide(fault, place, checkpoint) ==
    IF ~fault.detected \/ fault.severity = "LOW" THEN SafeRetry
    ELSE CASE fault.type = "CORRUPTED_ARTIFACT" -> CorruptedDecision(fault, place, checkpoint)
           [] fault.type \in {"VALIDATION_ERROR", "SCHEMA_MISMATCH"} ->
                  RerunDecision(fault, place, checkpoint)
           [] fault.type = "MISSING_ARTIFACT" -> MissingDecision(fault, place, checkpoint)
           [] fault.type = "DEPENDENCY_FAILURE" -> DependencyDecision(fault, place, checkpoint)
           [] OTHER ->
                IF fault.severity = "CRITICAL" THEN CriticalDecision(fault)
                ELSE IF fault.type \in {"EXECUTION_ERROR", "UNKNOWN"}
                     THEN ExecutionDecision(fault, place, checkpoint)
                     ELSE ResourceDecision(fault, checkpoint)

----------------------------------------------------------------------------
\* RootCauseAnalyzer: the categories a fault may stem from, likeliest first.
HypothesisOf(type) ==
    CASE type = "VALIDATION_ERROR" -> "INVALID_TRANSFORMATION"
      [] type = "RESOURCE_ERROR"   -> "RESOURCE_FAILURE"
      [] OTHER -> type

SecondaryHypotheses(type) ==
    CASE type = "SCHEMA_MISMATCH"    -> <<"INVALID_TRANSFORMATION", "CONFIGURATION_FAILURE">>
      [] type = "MISSING_ARTIFACT"   -> <<"DEPENDENCY_FAILURE", "INVALID_TRANSFORMATION">>
      [] type = "CORRUPTED_ARTIFACT" -> <<"DATA_QUALITY_FAILURE", "DEPENDENCY_FAILURE">>
      [] type = "VALIDATION_ERROR"   -> <<"SCHEMA_MISMATCH", "DATA_QUALITY_FAILURE">>
      [] type = "DEPENDENCY_FAILURE" -> <<"MISSING_ARTIFACT", "CONFIGURATION_FAILURE">>
      [] type = "EXECUTION_ERROR"    ->
             <<"DEPENDENCY_FAILURE", "CONFIGURATION_FAILURE", "RESOURCE_FAILURE">>
      [] type = "RESOURCE_ERROR"     -> <<"TIMEOUT", "CONFIGURATION_FAILURE">>
      [] type = "TIMEOUT"            -> <<"RESOURCE_FAILURE", "CONFIGURATION_FAILURE">>
      [] OTHER                       -> <<"EXECUTION_ERROR", "CONFIGURATION_FAILURE">>

BaseConfidence(type) ==
    CASE type \in {"SCHEMA_MISMATCH", "MISSING_ARTIFACT", "CORRUPTED_ARTIFACT",
                   "VALIDATION_ERROR"} -> 750
      [] type = "EXECUTION_ERROR"    -> 550
      [] type = "DEPENDENCY_FAILURE" -> 600
      [] OTHER                       -> 400

LocalizationBoost(place) ==
    CASE place.root # NoNode /\ place.confidence >= 850 -> 100
      [] place.root # NoNode /\ place.confidence \in 600 .. 849 -> 50
      [] OTHER -> 0

MaxConfidence == 950
AtMost(a, b) == IF a < b THEN a ELSE b
AtLeast(a, b) == IF a > b THEN a ELSE b

\* The hypotheses in the order analyze() returns them: the primary one, then the
\* secondary ones at 60%, 50% and 40% of its confidence, so the sort keeps them.
Hypotheses(fault, place, anyEvent) ==
    LET primary == AtMost(BaseConfidence(fault.type) + LocalizationBoost(place)
                            + (IF anyEvent THEN 50 ELSE 0), MaxConfidence)
        others == SecondaryHypotheses(fault.type)
    IN  <<[category |-> HypothesisOf(fault.type), confidence |-> primary]>>
        \o [i \in DOMAIN others |->
              [category |-> others[i],
               confidence |-> AtLeast(AtMost((primary * (70 - 10 * i)) \div 100,
                                             MaxConfidence), 50)]]

----------------------------------------------------------------------------
\* RepairPlanner: the steps for a category, from the root node and whether
\* there is a last-known-good checkpoint.
Step(action, risk) == [action |-> action, risk |-> risk]
ReviewStep(risk) == Step("MANUAL_REVIEW", risk)

SchemaSteps(root, checkpoint) ==
    IF root # NoNode /\ checkpoint # NoCheckpoint
    THEN <<Step("REMAP_SCHEMA", "LOW"), Step("RERUN_FROM_CHECKPOINT", "MEDIUM")>>
    ELSE <<ReviewStep("HIGH")>>

MissingSteps(checkpoint) ==
    (IF checkpoint # NoCheckpoint THEN <<Step("RESTORE_CHECKPOINT", "MEDIUM")>> ELSE << >>)
    \o <<Step("REBUILD_ARTIFACT", "MEDIUM")>>

CorruptedSteps(checkpoint) ==
    (IF checkpoint # NoCheckpoint THEN <<Step("RESTORE_CHECKPOINT", "HIGH")>> ELSE << >>)
    \o <<ReviewStep("CRITICAL")>>

TransformationSteps(checkpoint) ==
    <<Step("USE_VALIDATED_PREPROCESSING", "LOW")>>
    \o (IF checkpoint # NoCheckpoint
        THEN <<Step("RERUN_FROM_CHECKPOINT", "MEDIUM")>> ELSE << >>)

DependencySteps(checkpoint) ==
    IF checkpoint # NoCheckpoint
    THEN <<Step("RESTORE_CHECKPOINT", "MEDIUM"), Step("RERUN_FROM_CHECKPOINT", "MEDIUM")>>
    ELSE <<ReviewStep("HIGH")>>

ResourceSteps == <<ReviewStep("HIGH")>>

ConfigurationSteps == <<Step("RESTORE_CONFIGURATION", "MEDIUM"), Step("RERUN_NODE", "MEDIUM")>>

QualitySteps == <<Step("USE_VALIDATED_PREPROCESSING", "LOW"), Step("RERUN_NODE", "MEDIUM")>>

ExecutionSteps(checkpoint) ==
    (IF checkpoint # NoCheckpoint THEN <<Step("RESTORE_CHECKPOINT", "MEDIUM")>> ELSE << >>)
    \o <<ReviewStep("HIGH")>>

TimeoutSteps == <<ReviewStep("MEDIUM")>>
UnknownSteps == <<ReviewStep("CRITICAL")>>

PlanSteps(category, root, checkpoint) ==
    CASE category = "SCHEMA_MISMATCH"        -> SchemaSteps(root, checkpoint)
      [] category = "MISSING_ARTIFACT"       -> MissingSteps(checkpoint)
      [] category = "CORRUPTED_ARTIFACT"     -> CorruptedSteps(checkpoint)
      [] category = "INVALID_TRANSFORMATION" -> TransformationSteps(checkpoint)
      [] category = "DEPENDENCY_FAILURE"     -> DependencySteps(checkpoint)
      [] category = "RESOURCE_FAILURE"       -> ResourceSteps
      [] category = "CONFIGURATION_FAILURE"  -> ConfigurationSteps
      [] category = "DATA_QUALITY_FAILURE"   -> QualitySteps
      [] category = "EXECUTION_ERROR"        -> ExecutionSteps(checkpoint)
      [] category = "TIMEOUT"                -> TimeoutSteps
      [] OTHER                               -> UnknownSteps

NeedsApproval(steps) ==
    \E i \in DOMAIN steps :
        steps[i].risk \in {"HIGH", "CRITICAL"} \/ steps[i].action = "MANUAL_REVIEW"

\* RepairPlanner.plan on the top hypothesis of the root cause report.
RepairPlan(fault, place, anyEvent, checkpoint) ==
    LET category == Hypotheses(fault, place, anyEvent)[1].category
        steps == PlanSteps(category, place.root, checkpoint)
    IN  [category |-> category, root |-> place.root, steps |-> steps,
         approval |-> NeedsApproval(steps)]

----------------------------------------------------------------------------

\* Step 6: a plan is executed without a human when it has no manual step and
\* needs no approval, or holds LOW and MEDIUM steps only and auto-approval is on.
PlanIsAutoSafe(plan, auto) ==
    /\ \A i \in DOMAIN plan.steps : plan.steps[i].action # "MANUAL_REVIEW"
    /\ \/ ~plan.approval
       \/ auto /\ \A i \in DOMAIN plan.steps : plan.steps[i].risk \in {"LOW", "MEDIUM"}

\* Steps 1 to 4: detect, localize, diagnose and decide; some decisions end it.
Verdict(fault, action) ==
    CASE ~fault.detected            -> "no_fault"
      [] action = "MANUAL_REVIEW"   -> "manual_review"
      [] action = "ABORT"           -> "aborted"
      [] action = "QUARANTINE"      -> "quarantined"
      [] OTHER                      -> "none"
==============================================================================
