------------------------------- MODULE MCEngine -------------------------------
(* The engine's modules, instantiated for TLC.  What happens in one part has  *)
(* no effect on the others, so a behaviour is about one of them, chosen at    *)
(* the start:                                                                 *)
(*   pipeline: a run of three nodes, its checkpoints, its recovery or healing; *)
(*   runs:     two executions at once, which share the orchestrator;          *)
(*   heals:    one execution that is healed and analysed in any state.        *)
EXTENDS SelfHealing, EngineRuns

CONSTANT Lone   \* the execution of the part "heals"

VARIABLE part

Parts == {"pipeline", "runs", "heals"}

MCCandidates == <<"ridge", "forest">>
MCRunErrors == {"missing_column", "memory", "denied"}

MCVars == <<part, healingVars, engineVars>>

MCInit ==
    /\ part \in Parts /\ HealingInit /\ EngineInit
    /\ IF part = "pipeline" THEN silent = {} \/ typed = {}
       ELSE input = NoData /\ silent = {} /\ typed = {}

PipelinePart == part = "pipeline" /\ HealingNext /\ UNCHANGED <<part, engineVars>>

\* One class of error, no torn file and a database that takes no row are enough
\* for what two runs share: their rows have nothing to do with each other.
RunsPart ==
    /\ part = "runs"
    /\ \/ \E e \in Executions : StartRun(e) \/ ThreadStep(e)
       \/ EngineRestart({})
    /\ \A e \in Executions : thread'[e].raised \in {NoError, "denied", "bad_value"}
    /\ UNCHANGED <<part, row, healingVars>>

HealsPart ==
    /\ part = "heals"
    /\ \/ StartRun(Lone) \/ ThreadStep(Lone) \/ ReadRecord(Lone) \/ HealRecord(Lone)
       \/ HealRaises(Lone) \/ AnalyzeAndHeal(Lone)
       \/ \E interrupted \in SUBSET {Lone} : EngineRestart(interrupted)
    /\ UNCHANGED <<part, healingVars>>

MCNext == PipelinePart \/ RunsPart \/ HealsPart

MCSpec == MCInit /\ [][MCNext]_MCVars /\ PipelineFairness /\ HealingFairness
                 /\ \A e \in Executions : WF_thread(part # "pipeline" /\ ThreadStep(e))

\* Nothing of the engine runs for ever: a recovery that was decided has a result,
\* a healing that began is done, and every queued run is over, whatever fails.
EngineEnds == RecoveryEnds /\ HealingEnds /\ RunsEnd
==============================================================================
