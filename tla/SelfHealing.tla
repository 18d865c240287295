----------------------------- MODULE SelfHealing -----------------------------
(***************************************************************************)
(* SelfHealingOrchestrator.handle_failure                                  *)
(* (core/self_healing/orchestrator.py): it analyses a finished run,        *)
(* decides, plans a repair (core/repair/planner.py), executes the plan in  *)
(* the sandbox (core/repair/sandbox.py), and rolls back to the             *)
(* last-known-good checkpoint when the repair does not validate.  A caller *)
(* uses it instead of PipelineRecovery's analysis and recovery.            *)
(*                                                                         *)
(* The call is synchronous; between its steps a checkpoint's file may go.  *)
(***************************************************************************)
EXTENDS PipelineRecovery

VARIABLE healing   \* the call in progress and, in the end, its SelfHealingResult

healingVars == <<pipelineVars, healing>>
HealPhases == {"none", "sandbox", "validate", "rollback", "restore", "done"}

NoHealing ==
    [phase |-> "none", auto |-> FALSE, action |-> "none", approval |-> FALSE,
     checkpoint |-> NoCheckpoint, steps |-> << >>, root |-> NoNode, at |-> 1,
     succeeded |-> 0, failed |-> 0, final |-> "none"]

HealingInit == PipelineInit /\ healing = NoHealing

End(final) == healing' = [healing EXCEPT !.phase = "done", !.final = final]

Diagnosis(run, log, reported, checkpoint, auto) ==
    LET fault == Detect(run, log)
        place == Localize(log, fault, reported)
        choice == Decide(fault, place, checkpoint)
        plan == RepairPlan(fault, place, reported # {}, checkpoint)
        verdict == Verdict(fault, choice.action)
        Call(phase, steps, root, final) ==
            [phase |-> phase, auto |-> auto, action |-> choice.action,
             approval |-> choice.approval, checkpoint |-> checkpoint, steps |-> steps,
             root |-> root, at |-> 1, succeeded |-> 0, failed |-> 0, final |-> final]
    IN  IF verdict # "none" THEN Call("done", << >>, NoNode, verdict)
        ELSE IF PlanIsAutoSafe(plan, auto) THEN Call("sandbox", plan.steps, plan.root, "none")
        ELSE Call("done", plan.steps, plan.root, "manual_review")

StartHealing ==
    /\ status # "running" /\ decision = NoDecision /\ healing.phase = "none"
    /\ \E reported \in SUBSET Pipeline, auto \in BOOLEAN :
         healing' = Diagnosis(status, records, reported, LastKnownGood, auto)
    /\ UNCHANGED pipelineVars

\* SandboxExecutor: a step without a handler is skipped, a handler's step
\* succeeds or fails, and the first failure ends the plan.
InSandbox == healing.phase = "sandbox" /\ healing.at \in DOMAIN healing.steps
StepSkipped ==
    /\ InSandbox
    /\ healing' = [healing EXCEPT !.at = @ + 1]
    /\ UNCHANGED pipelineVars

StepSucceeds ==
    /\ InSandbox
    /\ healing' = [healing EXCEPT !.at = @ + 1, !.succeeded = @ + 1]
    /\ UNCHANGED pipelineVars

\* Mutant: the failure does not halt the plan.
StepFailsOn ==
    /\ InSandbox
    /\ healing' = [healing EXCEPT !.failed = 1, !.at = @ + 1]
    /\ UNCHANGED pipelineVars

StepFails ==
    /\ InSandbox
    /\ healing' = [healing EXCEPT !.failed = 1, !.phase = "rollback"]
    /\ UNCHANGED pipelineVars

PlanExecuted ==
    /\ healing.phase = "sandbox" /\ healing.at = Len(healing.steps) + 1
    /\ healing' = [healing EXCEPT !.phase = "validate"]
    /\ UNCHANGED pipelineVars

\* Step 8.  validate_checkpoint looks at the Checkpoint object in hand and at the
\* file it names, not at the manager.
Intact(c) == checkpoints[c].filed => c \notin lost
ValidateRepair ==
    /\ healing.phase = "validate"
    /\ IF /\ healing.checkpoint # NoCheckpoint
          /\ healing.action \in {"ROLLBACK", "RERUN_FROM_NODE"}
          /\ ~Intact(healing.checkpoint)
       THEN healing' = [healing EXCEPT !.phase = "rollback"]
       ELSE End("resumed")
    /\ UNCHANGED pipelineVars

\* Step 9b: the repair did not validate.  The checkpoint is trusted if it validates,
TrustCheckpoint ==
    /\ healing.phase = "rollback"
    /\ IF healing.checkpoint = NoCheckpoint THEN End("failed")
       ELSE IF ~Intact(healing.checkpoint) THEN End("manual_review")
       ELSE healing' = [healing EXCEPT !.phase = "restore"]
    /\ UNCHANGED pipelineVars

\* and then restored by the recovery executor, which validates it again.
RollBackRepair ==
    /\ healing.phase = "restore"
    /\ IF Usable(healing.checkpoint)
       THEN End("rolled_back") /\ recovered' = Restored(healing.checkpoint)
       ELSE End("failed") /\ UNCHANGED recovered
    /\ UNCHANGED <<runVars, storeVars, decision, rerun, attempts, result>>

Repairing == \/ StepSkipped \/ StepSucceeds \/ StepFails \/ PlanExecuted
             \/ ValidateRepair \/ TrustCheckpoint \/ RollBackRepair
RunOrRecover == healing.phase = "none" /\ PipelineNext /\ UNCHANGED healing
LoseDuringHealing ==
    /\ healing.phase \notin {"none", "done"}
    /\ LoseArtifact
    /\ UNCHANGED healing
HealingNext == RunOrRecover \/ LoseDuringHealing \/ StartHealing \/ Repairing

\* handle_failure is a plain synchronous call.
HealingFairness == WF_healing(Repairing)
HealingSpec ==
    HealingInit /\ [][HealingNext]_healingVars /\ PipelineFairness /\ HealingFairness

----------------------------------------------------------------------------
\* Types of the healing call.
HealingTypeOK ==
    /\ healing.phase \in HealPhases
    /\ healing.auto \in BOOLEAN /\ healing.approval \in BOOLEAN
    /\ healing.checkpoint \in 0 .. Len(checkpoints)
    /\ healing.root \in 0 .. Length /\ healing.at \in 1 .. Len(healing.steps) + 1
    /\ healing.succeeded \in 0 .. Len(healing.steps) /\ healing.failed \in {0, 1}
    /\ healing.final \in {"none", "no_fault", "manual_review", "aborted", "quarantined",
                          "resumed", "rolled_back", "failed"}

\* The calls whose plan has been handed to the sandbox.
PlanHandedOver ==
    healing.phase \in {"sandbox", "validate", "rollback", "restore"}
        \/ healing.final \in {"resumed", "rolled_back", "failed"}

\* A plan that asks for a human is not executed: one with a MANUAL_REVIEW step, or
\* with a HIGH or CRITICAL one, never reaches the sandbox, whatever the caller
\* approves, nor does one whose decision is MANUAL_REVIEW, QUARANTINE or ABORT
\* ("MANUAL_REVIEW and QUARANTINE decisions are never auto-executed").  The
\* approval that the decision itself requires is not looked at: what it lets through
\* is OnlyRestoresUnapproved's.
ReviewIsNotExecuted ==
    PlanHandedOver =>
        /\ \A i \in DOMAIN healing.steps :
             healing.steps[i].risk \in {"LOW", "MEDIUM"}
               /\ healing.steps[i].action # "MANUAL_REVIEW"
        /\ healing.action \notin {"MANUAL_REVIEW", "QUARANTINE", "ABORT"}

\* A decision that requires approval is acted on without it when its plan has no
\* step above MEDIUM, which the check of the plan alone lets happen: only for a
\* rollback, and only with a plan that begins by restoring the checkpoint.
OnlyRestoresUnapproved ==
    PlanHandedOver /\ healing.approval =>
        healing.action = "ROLLBACK" /\ healing.steps[1].action = "RESTORE_CHECKPOINT"

\* Healing never resumes a run whose failure carries integrity evidence, never
\* past a failed step or before the end of the plan, and leaves a successful run
\* alone.  A step without a handler is skipped and counts as passed, so a run can be
\* resumed although nothing of its plan was done, where SandboxResult says "True only
\* if all steps passed validation" (sandbox.py:153).
HealedIsSafe ==
    healing.final = "resumed" =>
        /\ healing.failed = 0 /\ healing.at = Len(healing.steps) + 1
        /\ status = "FAILED"
        /\ \A i \in DOMAIN records : records[i].error \notin {"integrity", "denied_integrity"}

\* A rolled-back healing restored data that the uninterrupted run held, in the form
\* its checkpoint's file gives it back, and a
\* plan that restores before it reruns has a checkpoint to restore.
HealedFromAPrefix ==
    /\ healing.final = "rolled_back" =>
         \E n \in 1 .. position : recovered = Refiled(n, Uninterrupted[n])
    /\ \A i \in DOMAIN healing.steps :
         healing.steps[i].action \in {"RESTORE_CHECKPOINT", "RERUN_FROM_CHECKPOINT"}
            => healing.checkpoint # NoCheckpoint

\* Self-healing is sound: a plan that needs a review is not executed, a decision
\* that needs an approval only where it restores a checkpoint, a run is resumed only
\* at the end of a plan without a failed step, and what is rolled back was the data
\* of an uninterrupted run.
HealingSound ==
    /\ HealingTypeOK
    /\ ReviewIsNotExecuted
    /\ OnlyRestoresUnapproved
    /\ HealedIsSafe
    /\ HealedFromAPrefix

\* The call returns: handle_failure is bounded by the plan.
HealingEnds == healing.phase # "none" ~> healing.phase = "done"
==============================================================================
