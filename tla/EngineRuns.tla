------------------------------ MODULE EngineRuns ------------------------------
(***************************************************************************)
(* Concurrent runs of the engine: the service that runs the orchestrator   *)
(* in a daemon thread per execution (services/pipeline_service.py), the    *)
(* orchestrator's pipeline (core/platform/orchestrator.py, run), and the   *)
(* two ways of healing one afterwards, the service's                       *)
(* (services/recovery_service.py) and the orchestrator's own               *)
(* (analyze_and_heal, on the rows of the database).                        *)
(*                                                                         *)
(* The orchestrator is a singleton of the process (api/dependencies.py),   *)
(* so every run shares its trainer with the fitted models, its monitor     *)
(* with the buffered alerts, and its checkpoint manager.  A step of a run  *)
(* is the code between two uses of what is shared or persisted.  A failed  *)
(* write to the database is swallowed wherever one happens.                *)
(***************************************************************************)
EXTENDS FaultAnalysis, FiniteSets

CONSTANTS
    Executions,
    Nobody,       \* no execution
    Candidates,   \* the sequence of the generated candidate models
    RunErrors,    \* the classes of the exceptions a stage raises
    MaxAnalyses   \* bound on the analyses of one row

ASSUME NobodyAssumption == Nobody \notin Executions
ASSUME RunErrorsAssumption == RunErrors \subseteq Errors

Models == {Candidates[i] : i \in DOMAIN Candidates}
NoModel == "none"
ASSUME CandidatesAssumption == Candidates \in Seq(STRING) \ {<< >>} /\ NoModel \notin Models

NoArtifact == [model |-> NoModel, fitOn |-> Nobody, strategy |-> "none"]

VARIABLES
    record,      \* ExecutionStore: the status in each execution's file
    thread,      \* the local state of its run
    healer,      \* the request healing it: idle, or the status it has read
    row,         \* pipeline_executions: the status of its row
    faults,      \* fault_events of it, oldest first
    analysed,    \* the classes analyze_and_heal found, in order
    artifact,    \* the ModelArtifact its run built
    fitted,      \* ModelTrainer._fitted_pipelines: whose data each model was fitted on
    alerts,      \* PipelineMonitor._alerts: the executions alerted about, each at most once
    checkpointed, \* the executions with a checkpoint in the manager's dictionary
    shared,      \* history: the executions whose training overlapped each one's
    early,       \* history: the executions analysed before their run was over
    alerted,     \* history: the executions alerted about since the process started
    torn         \* history: those whose alert met a drain that had copied, not cleared

alertVars == <<alerted, torn>>
serviceVars == <<record, healer>>
databaseVars == <<row, faults>>
singletonVars == <<fitted, alerts, checkpointed>>
historyVars == <<shared, early, alertVars>>
engineVars == <<thread, artifact, analysed, serviceVars, databaseVars, singletonVars, historyVars>>

Running == {"characterize", "train", "build", "drain", "clear", "complete", "fault", "answer"}
Statuses == {"absent", "queued", "running", "succeeded", "failed", "rolled_back",
             "escalated", "aborted", "recovering", "unreadable"}

NoThread == [pc |-> "absent", next |-> 1, fellBack |-> FALSE, evaluated |-> {},
             best |-> NoModel, raised |-> NoError, success |-> FALSE, drained |-> {}]

EngineInit ==
    /\ record = [e \in Executions |-> "absent"]
    /\ thread = [e \in Executions |-> NoThread]
    /\ healer = [e \in Executions |-> "idle"]
    /\ row = [e \in Executions |-> "absent"]
    /\ faults = [e \in Executions |-> << >>]
    /\ analysed = [e \in Executions |-> << >>]
    /\ artifact = [e \in Executions |-> NoArtifact]
    /\ fitted = [m \in Models |-> Nobody]
    /\ alerts = {}
    /\ checkpointed = {}
    /\ shared = [e \in Executions |-> {}] /\ early = {} /\ alerted = {} /\ torn = {}

At(e, step) == thread[e].pc = step
Goto(e, step) == thread' = [thread EXCEPT ![e].pc = step]

\* A run's thread behind its training, and at the end: the locals of the training
\* are gone.
Behind(e, step) == [thread[e] EXCEPT !.pc = step, !.next = 1, !.fellBack = FALSE,
                                     !.evaluated = {}]
Raise(e, error) == thread' = [thread EXCEPT ![e] = [Behind(e, "fault") EXCEPT !.raised = error]]

\* A database write either happens or fails, which nobody notices.
RowBecomes(e, value) == row' = [row EXCEPT ![e] = value] \/ UNCHANGED row

----------------------------------------------------------------------------
\* PipelineService.start_run, and the first write of its thread.
StartRun(e) ==
    /\ At(e, "absent")
    /\ record' = [record EXCEPT ![e] = "queued"]
    /\ Goto(e, "queued")
    /\ UNCHANGED <<healer, databaseVars, analysed, artifact, singletonVars, historyVars>>

RunBegins(e) ==
    /\ At(e, "queued")
    /\ record' = [record EXCEPT ![e] = "running"]
    /\ RowBecomes(e, "started")
    /\ Goto(e, "characterize")
    /\ UNCHANGED <<healer, faults, analysed, artifact, singletonVars, historyVars>>

\* The first write to the store is outside the try: its error ends the thread.
RunNeverBegins(e) ==
    /\ At(e, "queued")
    /\ Goto(e, "over")
    /\ UNCHANGED <<serviceVars, databaseVars, analysed, artifact, singletonVars, historyVars>>

\* complete_execution of a row that was never created does nothing.
PersistCompletion(e, success) ==
    IF row[e] = "absent" THEN UNCHANGED row ELSE RowBecomes(e, IF success THEN "completed" ELSE "failed")

\* The executions that share the trainer's dictionary once e trains too.
Overlap(e) ==
    LET others == {other \in Executions \ {e} : thread[other].pc \in {"train", "build"}}
    IN  [f \in Executions |-> IF f = e THEN shared[e] \cup others
                              ELSE IF f \in others THEN shared[f] \cup {e} ELSE shared[f]]

\* Stages 1 to 8: the characterization checkpoint, then the rules of the stages.
Characterize(e) ==
    /\ At(e, "characterize")
    /\ checkpointed' = checkpointed \cup {e}
    /\ \/ Goto(e, "train") /\ shared' = Overlap(e) /\ UNCHANGED row
       \/ /\ Goto(e, "answer")     \* _fail: no target, or no candidate
          /\ PersistCompletion(e, FALSE)
          /\ UNCHANGED shared
       \/ /\ \E error \in RunErrors : Raise(e, error)
          /\ UNCHANGED <<row, shared>>
    /\ UNCHANGED <<serviceVars, faults, analysed, artifact, fitted, alerts, early, alertVars>>

----------------------------------------------------------------------------
\* ModelTrainer.train_and_evaluate, one candidate at a time.
Training(e) == At(e, "train") /\ thread[e].next \in DOMAIN Candidates
Candidate(e) == Candidates[thread[e].next]

\* The ValueError of a split, or of an unknown model: once more, without the
\* selected strategy.
TrainingRefused(e) ==
    /\ Training(e)
    /\ IF thread[e].fellBack THEN Raise(e, "bad_value")
       ELSE thread' = [thread EXCEPT ![e].fellBack = TRUE, ![e].next = 1, ![e].evaluated = {}]
    /\ UNCHANGED <<serviceVars, databaseVars, analysed, artifact, singletonVars, historyVars>>

\* Mutant: a model fitted before is kept.
ModelFitKept(e) ==
    /\ Training(e)
    /\ fitted' = [fitted EXCEPT ![Candidate(e)] = IF @ = Nobody THEN e ELSE @]
    /\ \E scored \in {{}, {Candidate(e)}} :
         thread' = [thread EXCEPT ![e].next = @ + 1, ![e].evaluated = @ \cup scored]
    /\ UNCHANGED <<serviceVars, databaseVars, analysed, artifact, alerts, checkpointed, historyVars>>

\* A model that was fitted may still fail its prediction or its evaluation.
ModelFit(e) ==
    /\ Training(e)
    /\ fitted' = [fitted EXCEPT ![Candidate(e)] = e]
    /\ \E scored \in {{}, {Candidate(e)}} :
         thread' = [thread EXCEPT ![e].next = @ + 1, ![e].evaluated = @ \cup scored]
    /\ UNCHANGED <<serviceVars, databaseVars, analysed, artifact, alerts, checkpointed, historyVars>>

ModelSkipped(e) ==
    /\ Training(e)
    /\ thread' = [thread EXCEPT ![e].next = @ + 1]
    /\ UNCHANGED <<serviceVars, databaseVars, analysed, artifact, singletonVars, historyVars>>

\* PipelineMonitor._raise.  An alert that is raised while a drain stands between
\* its copy and its clear is cleared with the rest.
Clearing == {f \in Executions : At(f, "clear")}
Alert(e) ==
    /\ alerts' = alerts \cup {e}
    /\ alerted' = alerted \cup {e}
    /\ torn' = IF Clearing = {} THEN torn ELSE torn \cup {e}

\* The best evaluation, the training checkpoint, and the alert of a poor metric.
TrainingEnds(e) ==
    /\ At(e, "train") /\ thread[e].next \notin DOMAIN Candidates
    /\ checkpointed' = checkpointed \cup {e}
    /\ IF thread[e].evaluated = {}
       THEN thread' = [thread EXCEPT ![e] = Behind(e, "build")] /\ UNCHANGED <<alerts, alertVars>>
       ELSE /\ \E best \in thread[e].evaluated :
                 thread' = [thread EXCEPT ![e] = [Behind(e, "build") EXCEPT !.best = best]]
            /\ Alert(e) \/ UNCHANGED <<alerts, alertVars>>
    /\ UNCHANGED <<serviceVars, databaseVars, analysed, artifact, fitted, shared, early>>

\* A checkpoint that cannot be written is an exception of the run.
CheckpointFails(e) ==
    /\ \/ At(e, "characterize")
       \/ At(e, "train") /\ thread[e].next \notin DOMAIN Candidates
    /\ Raise(e, "denied")
    /\ UNCHANGED <<serviceVars, databaseVars, analysed, artifact, singletonVars, historyVars>>

----------------------------------------------------------------------------
\* _build_artifact takes the fitted model from the trainer by its name, and
\* records the selected strategy whatever the training fell back to.
BuildArtifact(e) ==
    /\ At(e, "build")
    /\ artifact' = [artifact EXCEPT ![e] =
                      IF thread[e].best = NoModel THEN NoArtifact
                      ELSE [model |-> thread[e].best, fitOn |-> fitted[thread[e].best],
                            strategy |-> "selected"]]
    /\ Goto(e, "drain")
    /\ UNCHANGED <<serviceVars, databaseVars, analysed, singletonVars, historyVars>>

\* PipelineMonitor.drain, two statements without a lock: everything in the buffer
\* becomes this run's alerts, and then the buffer is cleared, whatever it holds.
CopyAlerts(e) ==
    /\ At(e, "drain")
    /\ thread' = [thread EXCEPT ![e].pc = "clear", ![e].drained = alerts]
    /\ torn' = IF Clearing = {} THEN torn ELSE torn \cup alerts
    /\ UNCHANGED <<serviceVars, databaseVars, analysed, artifact, singletonVars, shared, early,
                   alerted>>

ClearAlerts(e) ==
    /\ At(e, "clear")
    /\ alerts' = {}
    /\ Goto(e, "complete")
    /\ UNCHANGED <<serviceVars, databaseVars, analysed, artifact, fitted, checkpointed, historyVars>>

\* _persist_execution_completion: the run has succeeded if it has a best model.
CompleteRow(e) ==
    /\ At(e, "complete")
    /\ thread' = [thread EXCEPT ![e].pc = "answer", ![e].success = thread[e].best # NoModel]
    /\ PersistCompletion(e, thread[e].best # NoModel)
    /\ UNCHANGED <<serviceVars, faults, analysed, artifact, singletonVars, historyVars>>

\* The exception handler of run(): the row and the fault event.
Event(node, error) == [node |-> node, error |-> error]
Orchestrator == 1
PersistedExecution == 2
PersistedFault == 3

PersistFailure(e) ==
    /\ At(e, "fault")
    /\ IF row[e] = "absent" THEN UNCHANGED row ELSE RowBecomes(e, "failed")
    /\ \/ faults' = [faults EXCEPT ![e] = Append(@, Event(Orchestrator, thread[e].raised))]
       \/ UNCHANGED faults
    /\ Goto(e, "answer")
    /\ UNCHANGED <<serviceVars, analysed, artifact, singletonVars, historyVars>>

\* The last update of the record; when it fails it is tried once more as a
\* failure, and when that fails too the thread ends with the record as it was.
RunAnswers(e) ==
    /\ At(e, "answer")
    /\ \/ record' = [record EXCEPT ![e] = IF thread[e].success THEN "succeeded" ELSE "failed"]
       \/ record' = [record EXCEPT ![e] = "failed"]
       \/ UNCHANGED record
    /\ Goto(e, "over")
    /\ UNCHANGED <<healer, databaseVars, analysed, artifact, singletonVars, historyVars>>

----------------------------------------------------------------------------
\* RecoveryService.trigger_self_healing: reads the record, heals, updates it.
\* A stored record has no nodes, because a result has no pipeline execution.
ReadRecord(e) ==
    /\ healer[e] = "idle"
    /\ record[e] \notin {"absent", "unreadable"}
    /\ healer' = [healer EXCEPT ![e] = record[e]]
    /\ UNCHANGED <<record, thread, databaseVars, analysed, artifact, singletonVars, historyVars>>

\* PipelineStatus[status.upper()], FAILED for a name it does not have.
DomainStatus(status) ==
    CASE status = "running"     -> "RUNNING"
      [] status = "rolled_back" -> "ROLLED_BACK"
      [] OTHER                  -> "FAILED"

\* The checkpoint of an execution, by any name.
CheckpointOf(e) == IF e \in checkpointed THEN 1 ELSE NoCheckpoint

\* What handle_failure concludes from a status and no node records.
Healed(status, checkpoint, auto) ==
    LET fault == Detect(DomainStatus(status), << >>)
        place == Localize(<< >>, fault, {})
        verdict == Verdict(fault, Decide(fault, place, checkpoint).action)
        plan == RepairPlan(fault, place, FALSE, checkpoint)
    IN  IF verdict # "none" THEN verdict
        ELSE IF PlanIsAutoSafe(plan, auto) THEN "resumed" ELSE "manual_review"

\* _map_sh_status
MapStatus(final) ==
    CASE final \in {"resumed", "no_fault"}          -> "succeeded"
      [] final = "rolled_back"                      -> "rolled_back"
      [] final \in {"manual_review", "quarantined"} -> "escalated"
      [] final = "aborted"                          -> "aborted"
      [] final = "failed"                           -> "failed"
      [] OTHER                                      -> "recovering"

HealRecord(e) ==
    /\ healer[e] # "idle"
    /\ record[e] # "unreadable"
    /\ \E auto \in BOOLEAN :
         record' = [record EXCEPT ![e] = MapStatus(Healed(healer[e], CheckpointOf(e), auto))]
    /\ healer' = [healer EXCEPT ![e] = "idle"]
    /\ UNCHANGED <<thread, databaseVars, analysed, artifact, singletonVars, historyVars>>

\* The manager's dictionary is iterated over without a lock: a checkpoint that
\* another thread creates meanwhile raises in the request.
HealRaises(e) ==
    /\ healer[e] # "idle"
    /\ \E other \in Executions : thread[other].pc \in {"characterize", "train"}
    /\ healer' = [healer EXCEPT ![e] = "idle"]
    /\ UNCHANGED <<record, thread, databaseVars, analysed, artifact, singletonVars, historyVars>>

----------------------------------------------------------------------------
\* _normalize_pipeline_status
RowStatus(e) == CASE row[e] = "started"   -> "RUNNING"
                  [] row[e] = "completed" -> "SUCCESS"
                  [] row[e] = "failed"    -> "FAILED"

\* The error that a failed row's result names: none when _fail made it, which
\* leaves the class of any other exception.
ResultError(e) == IF thread[e].raised = NoError THEN "other" ELSE thread[e].raised

\* _to_domain_execution: a FAILED node per fault event, else one for the row.
DomainNode(node, outcome, error) ==
    [node |-> node, status |-> outcome, error |-> error, checkpoint |-> NoCheckpoint,
     flagged |-> FALSE]
DomainNodes(e) ==
    IF faults[e] # << >>
    THEN [i \in DOMAIN faults[e] |-> DomainNode(faults[e][i].node, "FAILED", faults[e][i].error)]
    ELSE CASE row[e] = "failed"    -> <<DomainNode(PersistedExecution, "FAILED", ResultError(e))>>
           [] row[e] = "completed" -> <<DomainNode(PersistedExecution, "SUCCESS", NoError)>>
           [] OTHER                -> << >>

\* The event of a detected fault carries the error type it was detected from;
\* one without a node has neither.
DetectedError(fault) == IF fault.node = NoNode THEN "other" ELSE fault.error

\* analyze_and_heal: the recovery executor is called without nodes and without a
\* callable, so it changes nothing but the recovery event, which is left out.
AnalyzeAndHeal(e) ==
    LET fault == Detect(RowStatus(e), DomainNodes(e))
        found == Event(IF fault.node = NoNode THEN PersistedFault ELSE fault.node,
                       DetectedError(fault))
    IN  /\ row[e] # "absent" /\ Len(analysed[e]) < MaxAnalyses
        /\ analysed' = [analysed EXCEPT ![e] = Append(@, fault.error)]
        /\ \/ fault.detected /\ faults' = [faults EXCEPT ![e] = Append(@, found)]
           \/ UNCHANGED faults
        /\ early' = IF row[e] = "started" THEN early \cup {e} ELSE early
        /\ UNCHANGED <<thread, artifact, serviceVars, row, singletonVars, shared, alertVars>>

\* The process dies: every daemon thread and everything in memory is gone, and a
\* record that was being written is cut short.
EngineRestart(interrupted) ==
    /\ \E e \in Executions : thread[e].pc \in Running \cup {"queued"}
    /\ interrupted \in SUBSET {e \in Executions : thread[e].pc \in {"queued", "answer"}}
    /\ record' = [e \in Executions |-> IF e \in interrupted THEN "unreadable" ELSE record[e]]
    /\ thread' = [e \in Executions |->
                    IF At(e, "absent") THEN thread[e] ELSE Behind(e, "over")]
    /\ healer' = [e \in Executions |-> "idle"]
    /\ fitted' = [m \in Models |-> Nobody] /\ alerts' = {} /\ checkpointed' = {}
    /\ alerted' = {}
    /\ UNCHANGED <<databaseVars, analysed, artifact, shared, early, torn>>

ThreadStep(e) ==
    \/ RunBegins(e) \/ RunNeverBegins(e) \/ Characterize(e) \/ TrainingRefused(e)
    \/ ModelFit(e) \/ ModelSkipped(e) \/ TrainingEnds(e) \/ CheckpointFails(e)
    \/ BuildArtifact(e) \/ CopyAlerts(e) \/ ClearAlerts(e) \/ CompleteRow(e)
    \/ PersistFailure(e) \/ RunAnswers(e)

EngineNext ==
    \/ \E e \in Executions : \/ StartRun(e) \/ ThreadStep(e) \/ ReadRecord(e) \/ HealRecord(e)
                             \/ HealRaises(e) \/ AnalyzeAndHeal(e)
    \/ \E interrupted \in SUBSET Executions : EngineRestart(interrupted)

\* The run is a thread of its own.
EngineFairness == \A e \in Executions : WF_thread(ThreadStep(e))

EngineSpec == EngineInit /\ [][EngineNext]_engineVars /\ EngineFairness

----------------------------------------------------------------------------
\* Types of the store, the threads, the database and the shared objects.
EngineTypeOK ==
    /\ record \in [Executions -> Statuses] /\ healer \in [Executions -> Statuses \cup {"idle"}]
    /\ \A e \in Executions :
         /\ thread[e].pc \in Running \cup {"absent", "queued", "over"}
         /\ thread[e].next \in 1 .. Len(Candidates) + 1 /\ thread[e].evaluated \subseteq Models
         /\ thread[e].best \in Models \cup {NoModel}
         /\ thread[e].raised \in Errors \cup {NoError}
         /\ thread[e].drained \subseteq Executions
         /\ artifact[e].model \in Models \cup {NoModel}
         /\ shared[e] \subseteq Executions
    /\ row \in [Executions -> {"absent", "started", "completed", "failed"}]
    /\ fitted \in [Models -> Executions \cup {Nobody}]
    /\ alerts \subseteq Executions /\ checkpointed \subseteq Executions
    /\ alerted \subseteq Executions /\ torn \subseteq Executions

\* An execution is reported as succeeded only when its run built a model that its
\* own evaluation scored: healing, which sees no nodes, never makes a failed or
\* a running execution succeed, and the row in the database does not say failed.
SucceededHasModel ==
    \A e \in Executions : record[e] = "succeeded" =>
        /\ artifact[e].model # NoModel /\ artifact[e].model = thread[e].best
        /\ row[e] # "failed"

\* The model in an artifact was fitted on the run's own data or on that of a run
\* whose training overlapped its training, whichever of its candidates failed after
\* the fit and whatever the shared dictionary holds of earlier runs: a run that
\* trains alone has its own model.  A run that does not may have the other's.
ArtifactFitTogether ==
    \A e \in Executions : artifact[e].model # NoModel => artifact[e].fitOn \in {e} \cup shared[e]

\* The runs that hold the alert about an execution.
ReportedBy(e) == {f \in Executions : e \in thread[f].drained}

\* An alert that was not raised, or copied by another run, while a run stood
\* between its copy and its clear of the buffer is reported by one run at most, and
\* until the process ends it is in the buffer or with that run.
AlertsReportedOnce ==
    \A e \in Executions \ torn :
        /\ \A f, g \in ReportedBy(e) : f = g
        /\ e \in alerted => e \in alerts \/ ReportedBy(e) # {}

\* Analysing a failed row again and again, each time with the events the last
\* analysis added, finds the fault of the run each time.
AnalysesAgree ==
    \A e \in Executions \ early :
        row[e] = "failed" =>
            \A i \in DOMAIN analysed[e] : analysed[e][i] = ResultError(e)

\* The registry of runs is sound although threads, collectors of alerts and the
\* analyses share it: a run that succeeded has a model, an artifact holds the run's
\* own model or one of a run it trained together with, an alert that met no other
\* drain is reported once, and two analyses of one failure agree.
RunsSound ==
    /\ EngineTypeOK
    /\ SucceededHasModel
    /\ ArtifactFitTogether
    /\ AlertsReportedOnce
    /\ AnalysesAgree

\* Every run that is started ends, with an answer or with the process.
RunsEnd == \A e \in Executions : thread[e].pc = "queued" ~> thread[e].pc = "over"
==============================================================================
