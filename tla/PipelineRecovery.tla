--------------------------- MODULE PipelineRecovery ---------------------------
(***************************************************************************)
(* The engine's pipeline executor (core/pipeline/executor.py), the         *)
(* checkpoints it leaves (core/pipeline/checkpoints/manager.py), and the   *)
(* recovery executor that acts on a decision about a failed run            *)
(* (core/recovery/executor.py with core/recovery/validator.py).            *)
(*                                                                         *)
(* A result is the sequence of the nodes whose work is in it, << >> for    *)
(* None; an output that the node's own validate_output rejects holds the   *)
(* negated node.  A checkpoint's file holds the JSON form of a result: of  *)
(* a frame, a dataclass, a tuple or a value that was set into the caller's *)
(* context object, restoring gives back something else, which the mark     *)
(* Converted behind the nodes stands for.                                  *)
(***************************************************************************)
EXTENDS FaultAnalysis, FiniteSets

CONSTANTS
    Length,       \* number of nodes of the pipeline
    MaxAttempts   \* RecoveryExecutor's max_attempts

ASSUME PipelineAssumption == Length \in Nat \ {0} /\ MaxAttempts \in Nat \ {0}

Pipeline == 1 .. Length
NoData == << >>
CallerInput == <<0>>   \* a context the caller hands in
Converted == Length + 1

VARIABLES
    input,        \* the context given to execute()
    silent,       \* the nodes that return None
    typed,        \* the nodes whose result its JSON form does not give back as it was
    status,       \* of the run: running, SUCCESS or FAILED
    position,     \* the node to run next
    context,      \* what it will be given
    records,      \* the NodeExecutions so far
    checkpoints,  \* every checkpoint ever stored, in order of creation
    known,        \* the ones the manager's dictionary still holds
    lost,         \* the ones whose artifact file was removed
    decision,     \* the RecoveryDecision, once made
    rerun,        \* the node a rerun is at, NoNode when there is no rerun
    attempts,     \* how often that node was tried
    recovered,    \* the data recovery produced
    result        \* the RecoveryResult, once there is one

runVars == <<input, silent, typed, status, position, context, records>>
storeVars == <<checkpoints, known, lost>>
recoveryVars == <<decision, rerun, attempts, recovered, result>>
pipelineVars == <<runVars, storeVars, recoveryVars>>

NoDecision == Decision("none", FALSE, NoNode, NoCheckpoint)
NoResult == [status |-> "none", success |-> FALSE, from |-> NoCheckpoint,
             resumed |-> NoNode, validated |-> FALSE]

PipelineInit ==
    /\ input \in {NoData, CallerInput} /\ silent \in SUBSET Pipeline /\ typed \in SUBSET Pipeline
    /\ status = "running" /\ position = 1 /\ context = input /\ records = << >>
    /\ checkpoints = << >> /\ known = {} /\ lost = {}
    /\ decision = NoDecision /\ rerun = NoNode /\ attempts = 0
    /\ recovered = NoData /\ result = NoResult

----------------------------------------------------------------------------
\* PipelineExecutor.execute, one node at a time.
Applied(data, node) == IF node \in silent THEN NoData ELSE Append(data, node)
AppliedBadly(data, node) == IF node \in silent THEN NoData ELSE Append(data, 0 - node)

Record(node, outcome, error, checkpoint) ==
    [node |-> node, status |-> outcome, error |-> error, checkpoint |-> checkpoint,
     flagged |-> FALSE]

\* CheckpointManager.create: a result of None has no artifact file.
Checkpoint(node, data) ==
    [node |-> node, data |-> data, filed |-> data # NoData]
\* Mutant: the context is not advanced.
StoreBeforeContext ==
    /\ checkpoints' = Append(checkpoints, Checkpoint(position, context))
    /\ known' = known \cup {Len(checkpoints) + 1}
    /\ UNCHANGED lost

StoreCheckpoint ==
    /\ checkpoints' = Append(checkpoints, Checkpoint(position, Applied(context, position)))
    /\ known' = known \cup {Len(checkpoints) + 1}
    /\ UNCHANGED lost

RunningNode == status = "running" /\ position <= Length

Stop(log) ==
    /\ records' = records \o log
    /\ status' = "FAILED"
    /\ UNCHANGED <<input, silent, typed, position, context, recoveryVars>>
Failure(error) == Record(position, "FAILED", error, NoCheckpoint)
Success == Record(position, "SUCCESS", NoError, Len(checkpoints) + 1)

NodeSucceeds ==
    /\ RunningNode
    /\ StoreCheckpoint
    /\ records' = Append(records, Success)
    /\ context' = Applied(context, position)
    /\ position' = position + 1
    /\ UNCHANGED <<input, silent, typed, status, recoveryVars>>

NodeRaises ==
    /\ RunningNode
    /\ \E error \in Errors : Stop(<<Failure(error)>>)
    /\ UNCHANGED storeVars

OutputRejected ==
    /\ RunningNode
    /\ Stop(<<Failure("output_validation")>>)
    /\ UNCHANGED storeVars

\* create() fails on the artifact file, before the checkpoint is registered,
ArtifactUnstored ==
    /\ RunningNode
    /\ \E error \in {"denied", "other"} : Stop(<<Failure(error)>>)
    /\ UNCHANGED storeVars

\* or on the metadata file, after it: the checkpoint of a node recorded FAILED.
MetadataUnstored ==
    /\ RunningNode
    /\ StoreCheckpoint
    /\ \E error \in {"denied", "other"} : Stop(<<Failure(error)>>)

\* _update_context calls set_value of the caller's context, which may raise
\* after the SUCCESS record and the checkpoint of the same node.
ContextRefuses ==
    /\ RunningNode
    /\ input # NoData
    /\ StoreCheckpoint
    /\ \E error \in Errors : Stop(<<Success, Failure(error)>>)

RunCompletes ==
    /\ status = "running" /\ position = Length + 1
    /\ status' = "SUCCESS"
    /\ UNCHANGED <<input, silent, typed, position, context, records, storeVars, recoveryVars>>

----------------------------------------------------------------------------
\* Between the run and its recovery the process may be restarted, which empties
\* the manager's dictionary, and a checkpoint's file may be removed.
Restart ==
    /\ status # "running" /\ decision = NoDecision
    /\ known # {} /\ known' = {}
    /\ UNCHANGED <<runVars, checkpoints, lost, recoveryVars>>

LoseArtifact ==
    /\ status # "running" /\ result = NoResult
    /\ \E c \in DOMAIN checkpoints :
         /\ checkpoints[c].filed /\ c \notin lost
         /\ lost' = lost \cup {c}
    /\ UNCHANGED <<runVars, checkpoints, known, recoveryVars>>

\* CheckpointManager.last_known_good of this run: the latest one registered.
LastKnownGood ==
    IF known = {} THEN NoCheckpoint
    ELSE CHOOSE c \in known : \A other \in known : other <= c

\* PipelineExecutor.analyze_failure, with the events the caller passes.
AnalyzeFailure ==
    /\ status # "running" /\ decision = NoDecision
    /\ \E reported \in SUBSET Pipeline :
         LET fault == Detect(status, records)
         IN  decision' = Decide(fault, Localize(records, fault, reported), LastKnownGood)
    /\ UNCHANGED <<runVars, storeVars, rerun, attempts, recovered, result>>

----------------------------------------------------------------------------
\* RecoveryExecutor.execute.
Acting(action) == decision.action = action /\ result = NoResult
Conclude(outcome) == result' = outcome
Outcome(verdict, success, from, resumed) ==
    [status |-> verdict, success |-> success, from |-> from, resumed |-> resumed,
     validated |-> success]
Failed == Outcome("FAILED", FALSE, NoCheckpoint, NoNode)

\* RecoveryValidator.validate_checkpoint and CheckpointManager.restore.
Usable(c) == c \in known /\ (checkpoints[c].filed => c \notin lost)

\* What _serialize makes of a node's result, read back by json.load; None has no file.
Refiled(node, data) == IF node \in typed /\ data # NoData THEN Append(data, Converted) ELSE data
Restored(c) == Refiled(checkpoints[c].node, checkpoints[c].data)

\* A retry without a callable is skipped; one whose callable does not raise is a
\* success, whatever the execution it returns says.
RetryPipeline ==
    /\ Acting("RETRY")
    /\ \/ Conclude(Outcome("SKIPPED", FALSE, NoCheckpoint, NoNode))
       \/ Conclude(Outcome("SUCCESS", TRUE, NoCheckpoint, NoNode))
       \/ Conclude(Failed)
    /\ UNCHANGED <<runVars, storeVars, decision, rerun, attempts, recovered>>

RollBack ==
    /\ Acting("ROLLBACK")
    /\ IF Usable(decision.checkpoint)
       THEN /\ recovered' = Restored(decision.checkpoint)
            /\ Conclude(Outcome("SUCCESS", TRUE, decision.checkpoint, NoNode))
       ELSE Conclude(Failed) /\ UNCHANGED recovered
    /\ UNCHANGED <<runVars, storeVars, decision, rerun, attempts>>

RestoreFails ==
    /\ Acting("RERUN_FROM_NODE") /\ rerun = NoNode
    /\ decision.checkpoint # NoCheckpoint /\ ~Usable(decision.checkpoint)
    /\ Conclude(Failed)
    /\ UNCHANGED <<runVars, storeVars, decision, rerun, attempts, recovered>>

\* The caller passed no node list: analyze_and_heal never does.
NodesMissing ==
    /\ Acting("RERUN_FROM_NODE") /\ rerun = NoNode
    /\ Conclude(Failed)
    /\ UNCHANGED <<runVars, storeVars, decision, rerun, attempts, recovered>>

StartRerun ==
    /\ Acting("RERUN_FROM_NODE") /\ rerun = NoNode
    /\ decision.checkpoint # NoCheckpoint => Usable(decision.checkpoint)
    /\ rerun' = decision.target
    /\ recovered' = IF decision.checkpoint = NoCheckpoint THEN NoData
                    ELSE Restored(decision.checkpoint)
    /\ UNCHANGED <<runVars, storeVars, decision, attempts, result>>

Rerunning == Acting("RERUN_FROM_NODE") /\ rerun \in Pipeline

\* The gate checks a record that always says SUCCESS and has a result type, so it
\* passes; validate_output of the node is not called.
RerunNode ==
    /\ Rerunning
    /\ recovered' \in {Applied(recovered, rerun), AppliedBadly(recovered, rerun)}
    /\ rerun' = rerun + 1 /\ attempts' = 0
    /\ UNCHANGED <<runVars, storeVars, decision, result>>

\* Mutant: the attempts are counted afresh.
RerunRaisesForever ==
    /\ Rerunning
    /\ attempts' = 1 - attempts
    /\ UNCHANGED <<runVars, storeVars, decision, rerun, recovered, result>>

RerunRaises ==
    /\ Rerunning
    /\ attempts' = attempts + 1
    /\ IF attempts' = MaxAttempts THEN Conclude(Failed) ELSE UNCHANGED result
    /\ UNCHANGED <<runVars, storeVars, decision, rerun, recovered>>

RerunCompletes ==
    /\ Acting("RERUN_FROM_NODE") /\ rerun = Length + 1
    /\ Conclude(Outcome("SUCCESS", TRUE, decision.checkpoint, decision.target))
    /\ UNCHANGED <<runVars, storeVars, decision, rerun, attempts, recovered>>

\* ABORT, MANUAL_REVIEW and QUARANTINE execute nothing.
ReportOnly ==
    /\ result = NoResult
    /\ \/ decision.action = "ABORT" /\ Conclude(Outcome("ABORTED", FALSE, NoCheckpoint, NoNode))
       \/ /\ decision.action = "MANUAL_REVIEW"
          /\ Conclude(Outcome("PENDING_REVIEW", FALSE, NoCheckpoint, NoNode))
       \/ /\ decision.action = "QUARANTINE"
          /\ Conclude(Outcome("QUARANTINED", FALSE, NoCheckpoint, NoNode))
    /\ UNCHANGED <<runVars, storeVars, decision, rerun, attempts, recovered>>

RunStep == \/ NodeSucceeds \/ NodeRaises \/ OutputRejected \/ ArtifactUnstored
           \/ MetadataUnstored \/ ContextRefuses \/ RunCompletes
RecoverStep == \/ RetryPipeline \/ RollBack \/ RestoreFails \/ NodesMissing \/ StartRerun
               \/ RerunNode \/ RerunRaises \/ RerunCompletes \/ ReportOnly
PipelineNext == RunStep \/ Restart \/ LoseArtifact \/ AnalyzeFailure \/ RecoverStep

\* Both executors are plain synchronous calls.
PipelineFairness == WF_recoveryVars(RecoverStep)
PipelineSpec == PipelineInit /\ [][PipelineNext]_pipelineVars /\ PipelineFairness

----------------------------------------------------------------------------
\* What an uninterrupted run holds after each node.
Uninterrupted[n \in 0 .. Length] ==
    IF n = 0 THEN input ELSE Applied(Uninterrupted[n - 1], n)

Magnitudes(data) == [i \in DOMAIN data |-> IF data[i] < 0 THEN 0 - data[i] ELSE data[i]]

\* Types of the run, of its checkpoints and of its recovery.
PipelineTypeOK ==
    /\ input \in {NoData, CallerInput} /\ silent \subseteq Pipeline /\ typed \subseteq Pipeline
    /\ status \in {"running", "SUCCESS", "FAILED"} /\ position \in 1 .. Length + 1
    /\ context \in Seq(Int) /\ records \in Seq(NodeRecord)
    /\ checkpoints \in Seq([node : Pipeline, data : Seq(Int), filed : BOOLEAN])
    /\ known \subseteq DOMAIN checkpoints /\ lost \subseteq DOMAIN checkpoints
    /\ decision.target \in 0 .. Length /\ decision.checkpoint \in 0 .. Len(checkpoints)
    /\ rerun \in 0 .. Length + 1 /\ attempts \in 0 .. MaxAttempts
    /\ recovered \in Seq(Int)

\* Every checkpoint holds what its node made of the previous checkpoint's data
\* (of the caller's context, for the first): no node is left out of one, none
\* is in it twice, and no rejected output is stored (executor.py runs the node,
\* then its validation, then stores, then updates the context).
CheckpointsAreThePrefix ==
    \A c \in DOMAIN checkpoints :
        /\ checkpoints[c].node = c
        /\ checkpoints[c].data =
             Applied(IF c = 1 THEN input ELSE checkpoints[c - 1].data, c)

\* "Never continue after an unresolved pipeline failure" (executor.py:282): every
\* record before a FAILED one is the SUCCESS of the next node with its own
\* checkpoint, and nothing follows it.
NothingAfterFailure ==
    \A i \in DOMAIN records :
        /\ records[i].status = "SUCCESS" => records[i].node = i /\ records[i].checkpoint = i
        /\ records[i].status = "FAILED" => i = Len(records) /\ status = "FAILED"

\* A run of the pipeline is sound: its checkpoints are exactly the stages it
\* finished, in their order, and nothing is executed or stored after a failure.
PipelineSound == PipelineTypeOK /\ CheckpointsAreThePrefix /\ NothingAfterFailure

\* A successful rollback leaves what the uninterrupted run held after a node that
\* ran, never a partial or a rejected output, in the form that the file of that
\* node's checkpoint gives it back (manager.py:252).
RollbackIsToAPrefix ==
    decision.action = "ROLLBACK" /\ result.success
        => \E n \in 1 .. position : recovered = Refiled(n, Uninterrupted[n])

\* "Re-execute from a specific node (requires a valid checkpoint at the preceding
\* node)", decision.py:41.  A successful rerun that had such a checkpoint, or was of
\* the whole run, has every node's work exactly once, in order: it agrees with the
\* uninterrupted run up to rejected outputs.  The code also reports success of three
\* reruns that are exempt here: one whose root lies before the checkpoint's node,
\* which repeats nodes; one without a checkpoint (after a restart of the process),
\* which has neither the nodes before the root nor the caller's input; and one that
\* handed a converted result to the next node.
RerunIsWhole ==
    /\ decision.action = "RERUN_FROM_NODE" /\ result.success
    /\ IF result.from = NoCheckpoint THEN result.resumed = 1 /\ input = NoData
       ELSE checkpoints[result.from].node = result.resumed - 1 /\ result.resumed - 1 \notin typed
    => Magnitudes(recovered) = Uninterrupted[Length]

\* A rerun from a checkpoint leaves out no node behind it: what its root and the
\* latest checkpoint can disagree on is which nodes are run again.
RerunLeavesNothingOut ==
    decision.action = "RERUN_FROM_NODE" /\ result.success /\ result.from # NoCheckpoint
        => result.resumed <= checkpoints[result.from].node + 1

\* The nodes in front of the one a rerun starts from all succeeded in the failed
\* run: localization never skips the failure or a node after it.
RerunSkipsOnlySucceeded ==
    rerun # NoNode =>
        \A n \in 1 .. decision.target - 1 :
            \E i \in DOMAIN records : records[i].node = n /\ records[i].status = "SUCCESS"

\* A fault with integrity evidence is never acted on: "Do NOT retry
\* automatically" (decision.py:218), whatever checkpoint there is.
CorruptionIsNeverRecovered ==
    (\E i \in DOMAIN records : records[i].error \in {"integrity", "denied_integrity"})
        => ~result.success

\* Recovery is sound: it rolls back to a prefix of what was done, a rerun behind
\* the node of its checkpoint leaves the pipeline whole where the checkpoint's file
\* holds what the node returned, no rerun leaves out a stage that had not succeeded
\* or that its checkpoint does not have, and a corruption is never answered by a
\* recovery.
RecoverySound ==
    /\ RollbackIsToAPrefix
    /\ RerunIsWhole
    /\ RerunLeavesNothingOut
    /\ RerunSkipsOnlySucceeded
    /\ CorruptionIsNeverRecovered

\* Every decision ends in a result: a node that keeps raising is given up after
\* max_attempts ("There are NO infinite retries", executor.py:131).
RecoveryEnds == decision # NoDecision ~> result # NoResult
==============================================================================
