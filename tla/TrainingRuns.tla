----------------------------- MODULE TrainingRuns -----------------------------
(***************************************************************************)
(* Training runs (routers/training.py): the request that triggers one, the  *)
(* daemon thread that carries it out and registers its challengers, the     *)
(* request that cancels it, and the restart that loses every thread.        *)
(*                                                                         *)
(* The runs are rows of gov.training_runs; the threads belong to the        *)
(* process.  Each execute and query is a transaction of its own and a step  *)
(* here.  A run may train on a version of the data hub.                     *)
(***************************************************************************)
EXTENDS DatasetVersions, FiniteSets

CONSTANTS
    TrainRequests,
    Tasks,          \* DOMAIN_TASKS: the tasks of each domain
    Modes,          \* the modes configured, of "modal" and "simulation"
    MaxRuns,        \* bound on the runs inserted
    MaxRestarts     \* bound on the restarts of the process

ASSUME ModesAssumption == Modes \subseteq {"modal", "simulation"}
ASSUME TasksAssumption == DOMAIN Tasks # {}
ASSUME TrainingBoundsAssumption == MaxRuns \in Nat /\ MaxRestarts \in Nat

VARIABLES
    trainMode,  \* settings.TRAINING_MODE, and whether Modal is configured
    runs,       \* gov.training_runs, by id, with the thread and the challengers of each
    training,   \* the request each of TrainRequests carries out
    restarts

trainVars == <<trainMode, runs, training, restarts>>

Domains == DOMAIN Tasks
Active == {"queued", "running"}

Run == [domain : Domains,
        version : Nat,          \* dataset_version_id, 0 for none
        status : {"queued", "running", "completed", "failed", "cancelled", "abandoned"},
        old : BOOLEAN,          \* started_at < NOW() - INTERVAL '2 hours'
        thread : {"none", "begin", "register", "finish", "fail", "ended"},
        models : SUBSET UNION {Tasks[d] : d \in Domains},  \* its challengers
        lost : BOOLEAN]         \* history: its thread or its trigger ended without a last word

TrainRequest == [pc : {"idle", "abandon", "insert", "start", "cancel"},
                 domain : Domains, version : Nat, run : Nat]

NoTrainRequest == [pc |-> "idle", domain |-> CHOOSE d \in Domains : TRUE, version |-> 0, run |-> 0]

\* Types of the rows and of the requests; a run has one of the statuses there are
\* (init.sql:262).
TrainTypeOK ==
    /\ trainMode \in Modes
    /\ runs \in Seq(Run)
    /\ training \in [TrainRequests -> TrainRequest]
    /\ restarts \in 0..MaxRestarts

TrainInit ==
    /\ trainMode \in Modes
    /\ runs = <<>>
    /\ training = [r \in TrainRequests |-> NoTrainRequest]
    /\ restarts = 0

TrainAnswer(r) == training' = [training EXCEPT ![r] = NoTrainRequest]

\* uix_one_active_run_per_domain: may run i, of domain d, be active?
IndexAdmits(i, d) ==
    \A j \in DOMAIN runs : runs[j].domain = d /\ runs[j].status \in Active => j = i

-----------------------------------------------------------------------------
(* trigger_training *)

\* The version named must exist and be usable.
TriggerCheck(r) ==
    /\ training[r].pc = "idle"
    /\ \E d \in Domains, v \in {0} \cup DOMAIN versions :
        /\ v # 0 => versions[v].status \in Usable
        /\ training' = [training EXCEPT ![r] =
               [pc |-> "abandon", domain |-> d, version |-> v, run |-> 0]]
    /\ UNCHANGED <<trainMode, runs, restarts>>

\* One UPDATE over the domain's runs; an error of it is only logged.
TriggerAbandon(r) ==
    /\ training[r].pc = "abandon"
    /\ \/ runs' = [i \in DOMAIN runs |->
             IF /\ runs[i].domain = training[r].domain
                /\ runs[i].status = "running" /\ runs[i].old
             THEN [runs[i] EXCEPT !.status = "abandoned"] ELSE runs[i]]
       \/ UNCHANGED runs
    /\ training' = [training EXCEPT ![r].pc = "insert"]
    /\ UNCHANGED <<trainMode, restarts>>

\* Refused by the index (409), or queued.
TriggerInsert(r) ==
    LET d == training[r].domain  i == Len(runs) + 1 IN
    /\ training[r].pc = "insert"
    /\ IF ~IndexAdmits(i, d)
       THEN TrainAnswer(r) /\ UNCHANGED runs
       ELSE /\ Len(runs) < MaxRuns
            /\ runs' = Append(runs,
                   [domain |-> d, version |-> training[r].version, status |-> "queued",
                    old |-> FALSE, thread |-> "none", models |-> {}, lost |-> FALSE])
            /\ training' = [training EXCEPT ![r].pc = "start", ![r].run = i]
    /\ UNCHANGED <<trainMode, restarts>>

\* The audit INSERT is a transaction of its own: its failure changes nothing.
TriggerStart(r) ==
    /\ training[r].pc = "start"
    /\ runs' = [runs EXCEPT ![training[r].run].thread = "begin"]
    /\ TrainAnswer(r)
    /\ UNCHANGED <<trainMode, restarts>>

-----------------------------------------------------------------------------
(* _run_modal_training and _simulate_training, in thread i *)

\* Mutant: the index does not bind the thread.
WorkerBeginUnbound(i) ==
    /\ runs[i].thread = "begin"
    /\ \/ runs' = [runs EXCEPT ![i].status = "running", ![i].old = FALSE,
                               ![i].thread = "register"]
       \/ runs' = [runs EXCEPT ![i].thread = "fail"]
    /\ UNCHANGED <<trainMode, training, restarts>>

\* SET status = 'running': whatever the status was; refused by the index when
\* the run was no longer active and another one of the domain is.
WorkerBegin(i) ==
    /\ runs[i].thread = "begin"
    /\ \/ /\ runs[i].status \in Active \/ IndexAdmits(i, runs[i].domain)
          /\ runs' = [runs EXCEPT ![i].status = "running", ![i].old = FALSE,
                                  ![i].thread = "register"]
       \/ runs' = [runs EXCEPT ![i].thread = "fail"]
    /\ UNCHANGED <<trainMode, training, restarts>>

\* One challenger per task, by an INSERT of its own.  The metrics of Modal may
\* name a task twice, which UNIQUE (task, version) refuses, or never.
WorkerRegister(i) ==
    /\ runs[i].thread = "register"
    /\ \/ \E t \in Tasks[runs[i].domain] \ runs[i].models :
            runs' = [runs EXCEPT ![i].models = @ \cup {t}]
       \/ /\ trainMode = "simulation" => runs[i].models = Tasks[runs[i].domain]
          /\ runs' = [runs EXCEPT ![i].thread = "finish"]
       \/ runs' = [runs EXCEPT ![i].thread = "fail"]
    /\ UNCHANGED <<trainMode, training, restarts>>

\* SET status = 'completed': whatever the status was.
WorkerFinish(i) ==
    /\ runs[i].thread = "finish"
    /\ \/ runs' = [runs EXCEPT ![i].status = "completed", ![i].thread = "ended"]
       \/ runs' = [runs EXCEPT ![i].thread = "fail"]
    /\ UNCHANGED <<trainMode, training, restarts>>

\* Mutant: the except clause only logs.
WorkerFailSilently(i) ==
    /\ runs[i].thread = "fail"
    /\ runs' = [runs EXCEPT ![i].thread = "ended"]
    /\ UNCHANGED <<trainMode, training, restarts>>

\* The except clause: an error of its UPDATE ends the thread.
WorkerFail(i) ==
    /\ runs[i].thread = "fail"
    /\ \/ runs' = [runs EXCEPT ![i].status = "failed", ![i].thread = "ended"]
       \/ runs' = [runs EXCEPT ![i].thread = "ended", ![i].lost = TRUE]
    /\ UNCHANGED <<trainMode, training, restarts>>

Worker(i) == WorkerBegin(i) \/ WorkerRegister(i) \/ WorkerFinish(i) \/ WorkerFail(i)

\* Two hours pass: a thread that waits for Modal may still be at work.
Ages(i) ==
    /\ runs[i].status = "running" /\ ~runs[i].old
    /\ runs' = [runs EXCEPT ![i].old = TRUE]
    /\ UNCHANGED <<trainMode, training, restarts>>

-----------------------------------------------------------------------------
(* cancel_run *)

CancelCheck(r) ==
    /\ training[r].pc = "idle"
    /\ \E i \in DOMAIN runs :
        /\ runs[i].status = "queued"
        /\ training' = [training EXCEPT ![r].pc = "cancel", ![r].run = i]
    /\ UNCHANGED <<trainMode, runs, restarts>>

\* SET status = 'cancelled': whatever the status has become.
CancelCommit(r) ==
    /\ training[r].pc = "cancel"
    /\ runs' = [runs EXCEPT ![training[r].run].status = "cancelled"]
    /\ TrainAnswer(r)
    /\ UNCHANGED <<trainMode, restarts>>

\* An error of the database ends a request; no handler leaves a queued run
\* behind this way, only a restart does.
TrainAbort(r) ==
    /\ training[r].pc \in {"abandon", "insert", "cancel"}
    /\ TrainAnswer(r)
    /\ UNCHANGED <<trainMode, runs, restarts>>

\* The process restarts: its requests and its daemon threads are gone.
Restart ==
    /\ restarts < MaxRestarts
    /\ restarts' = restarts + 1
    /\ training' = [r \in TrainRequests |-> NoTrainRequest]
    /\ runs' = [i \in DOMAIN runs |->
          IF runs[i].thread = "ended" THEN runs[i]
          ELSE [runs[i] EXCEPT !.thread = "ended", !.lost = TRUE]]
    /\ UNCHANGED trainMode

TrainStep(r) ==
    \/ TriggerCheck(r) \/ TriggerAbandon(r) \/ TriggerInsert(r) \/ TriggerStart(r)
    \/ CancelCheck(r) \/ CancelCommit(r) \/ TrainAbort(r)

TrainNext ==
    \/ \E r \in TrainRequests : TrainStep(r)
    \/ \E i \in DOMAIN runs : Worker(i) \/ Ages(i)
    \/ Restart

\* The data hub and the training service change their own tables.
TrainSpec ==
    /\ HubInit /\ TrainInit
    /\ [][(HubNext /\ UNCHANGED trainVars) \/ (TrainNext /\ UNCHANGED hubVars)]_<<hubVars, trainVars>>

\* A thread that runs is scheduled, and a trigger that has inserted its run goes
\* on to start the thread: nothing in between waits.
TrainFairness ==
    /\ \A i \in 1..MaxRuns : WF_trainVars(i \in DOMAIN runs /\ Worker(i))
    /\ \A r \in TrainRequests : WF_trainVars(TriggerStart(r))

-----------------------------------------------------------------------------
\* At most one run of a domain is queued or running, although a thread may set a
\* cancelled run running again (training.py:92, :213).
OneActiveRun ==
    \A i, j \in DOMAIN runs :
        /\ runs[i].status \in Active /\ runs[j].status \in Active
        /\ runs[i].domain = runs[j].domain
        => i = j

\* A run that is queued or running has a thread, or a trigger about to start
\* one, unless a restart or a failed last UPDATE lost it: cancellation and
\* abandonment, which race the thread, leave none behind.
ActiveHasThread ==
    \A i \in DOMAIN runs :
        runs[i].status \in Active /\ ~runs[i].lost =>
            \/ runs[i].thread \in {"begin", "register", "finish", "fail"}
            \/ \E r \in TrainRequests : training[r].pc = "start" /\ training[r].run = i

\* A simulated run is completed only when each task of its domain has its
\* challenger, also when it was cancelled or abandoned meanwhile.
CompletedHasChallengers ==
    \A i \in DOMAIN runs :
        runs[i].status = "completed" /\ trainMode = "simulation"
            => runs[i].models = Tasks[runs[i].domain]

\* The data of a run has passed validation, whatever the data hub does with the
\* version between the trigger's check and the run's insertion.
RunDataPassed ==
    \A i \in DOMAIN runs :
        runs[i].version # 0 => versions[runs[i].version].reported /\ versions[runs[i].version].passes

\* Training is sound across cancellations, abandonments and restarts: a domain
\* has one active run, a thread carries it unless it was lost, a completed run
\* has its challengers, and what it is trained on has passed.
TrainingSound ==
    /\ TrainTypeOK
    /\ OneActiveRun
    /\ ActiveHasThread
    /\ CompletedHasChallengers
    /\ RunDataPassed

\* Every run is settled in the end, or has been lost.
RunsSettle ==
    \A i \in 1..MaxRuns :
        i \in DOMAIN runs
            ~> (i \in DOMAIN runs /\ (runs[i].status \notin Active \/ runs[i].lost))
=============================================================================
