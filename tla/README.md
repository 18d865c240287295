# TLA+ models of Crucible AI

Crucible AI is a mining-operations gateway (`app/api`, FastAPI over PostgreSQL and
Redis) and an engine (`app/engine`, a separate FastAPI service that runs data
pipelines and repairs them). This directory holds TLA+ modules for the parts of
both where the order of events, or a rule with many cases, decides whether the code
is right, the TLC configurations that check them on small instances, and proofs that
TLAPS checks for every instance.

Contents: [the system](#the-system) · [modules](#modules) · [runs](#runs) ·
[bounds](#bounds) · [fairness](#fairness) · [proofs](#proofs) ·
[disagreements found](#disagreements-found) · [not modelled](#not-modelled) ·
[plan](#plan)

## The system

Every HTTP handler of the gateway is a synchronous function: the framework runs
requests on a thread pool, and any two handlers interleave. The database is
PostgreSQL at READ COMMITTED, through `core/db.py`: `query()` is a transaction of
its own, `transaction()` is one BEGIN ... COMMIT. A statement that fails aborts the
PostgreSQL transaction; if the handler swallows the exception, the COMMIT that
follows rolls everything back *without raising*. This detail decides several of
the properties below. The engine runs each execution in a daemon thread, and all of
them share one orchestrator.

| Part | Source | State | Operations | What is hard | What makes it correct |
| --- | --- | --- | --- | --- | --- |
| Circuit breaker | `core/cache.py` 288-360, used by `L2RedisClient` and `core/crucible_client.py` | state, failure count, time of last change | can_attempt, record_success, record_failure | outcomes arrive late and in any order | no call before a cooldown; no stale count in CLOSED; never wedged |
| Single flight | `core/cache.py` 370-400, 1036-1089 | table key -> (lock, references) | acquire_flight, release_flight | entry removed while others join or wait | one producer per key |
| L1 cache | `core/cache.py` 150-285 | ordered map of entries, two deadlines each | get_detailed, set, delete_pattern | eviction order; wall clock against monotonic clock | used entries stay; nothing fresh past its deadline |
| Tiered cache | `core/cache.py` 640-1153 | L1, Redis, keys being refreshed, refresh pool | get_or_set, background refresh, invalidation | a value copied through tiers; invalidation racing a fill; Redis failing half way | an age ceiling; completeness of invalidation; every request answered |
| Cache health | `core/cache.py` 425-451, 1155-1219 | metrics lock, client lock | counters, health, building the client | two locks, one held across I/O | no thread waits for ever; one pool |
| Memo | `core/memo.py` | process-local TTL cache | call, clear | slow calls overwrite newer entries; clear racing a call in flight | a bounded age |
| Model registry | `routers/model_approval.py`, `core/ml_loader.py` | registry rows, model in memory, announced version, metadata cache | approve, promote, reject, rollback, ensure_active_model | checks outside the transaction; three copies of "the current version" | one champion; only verified artifacts served; the announced version converges (the model in memory need not) |
| Response plans | `core/decision_store.py`, `routers/response_plans.py` | plan lifecycle, approvals, outcomes, audit log | create, submit, approve, reject, start, complete, outcome | two handlers on one plan; outcome and transition in two transactions | only declared edges; audit and state agree |
| Decisions | `routers/decisions.py` | decision state, outcomes, audit log | record, review, execute, outcome | swallowed audit failures | what is not audited did not happen; one outcome; authority |
| Data hub | `routers/data_hub.py` | dataset versions, mappings, reports, snapshots | upload, map, validate, approve | every endpoint reads in one transaction and writes in another | lineage does not fork; what is usable passed; snapshots are current |
| Training runs | `routers/training.py` | run rows, worker threads, challengers | trigger, worker, cancel, abandonment | cancel against worker; process restart | one active run per domain; no run without a thread; completed runs are whole |
| Clock and states | `core/clock.py`, `state_engine.py`, `attention.py` | cached resolutions, concurrent checks | resolve, platform state, mine state, attention queue | sources read one after the other; checks that raise; cached "now" | what is called normal is; the worst is shown |
| Material flow | `core/bottleneck.py` | two memos, aggregates kept for ever | analyse | stacked caches; zero and missing measurements | bounded age; the named stage runs out first |
| Scenarios and responses | `core/scenario/`, `constraints.py`, `evidence.py`, `recommendations.py`, `response_plan.py` | memoised queries, cached economics | controls, named, response plan | records change between the checks of one request; queries fail | nothing offered that was not permitted; a HIGH grade is earned; two pages agree once the records stand still |
| Route planning | `core/routing/`, `routers/routing.py` | search frontier, penalties, routes | optimize, compare | closed cells, an inadmissible heuristic, penalties | cheapest legs; alternatives no cheaper; changes have a reason |
| Engine pipeline, checkpoints | `engine/core/pipeline/`, `engine/core/checkpoints/` | node records, context, checkpoints | execute, create, restore | failure between output, validation, checkpoint and context | checkpoints are prefixes of the run |
| Recovery | `engine/core/recovery/`, `engine/core/fault/`, `engine/core/analysis/` | decision, attempts, restored context | rerun, rollback, retry, quarantine | a lost file; a restored context of another type; a retry over a mutated context | a rerun behind its checkpoint is whole; corruption is never retried |
| Self-healing | `engine/core/self_healing/`, `engine/core/repair/` | plan, sandbox | handle_failure | steps that fail or are skipped half way | a plan that asks for a review is never executed; a rollback is to a prefix |
| Engine runs | `engine/api/services/`, `engine/core/platform/orchestrator.py` | records on disk, database rows, shared trainer and monitor | start, run, heal, analyse | runs share fitted models and alerts; restart; swallowed writes | a run has its own model or that of a run it trained together with; an alert that met no other drain is reported once; every run ends |
| Training rules | `engine/core/{task_detection,feature_roles,leakage,validation,models,inference}/` | columns, holdout, artifact | the stages of a run, predict | many rules applied in a row | no leak, an unseen holdout, answers with all features |
| Artifact integrity, audit log | `engine/core/integrity/`, `engine/core/security/`, `engine/core/inference/engine.py` | file, manifest, log file | save, load, verify, quarantine, replay | a crash between file and manifest; torn lines | late changes never verify, short of a save between load and check; losses are counted |

How the parts meet: a dashboard handler calls the tiered cache, whose producer
queries the database; the cache's L2 client and the engine client each own a
breaker; governance, data hub and training handlers commit and then invalidate the
cache; promotion also replaces the model in the process that prediction handlers
read; a training run takes a version of the data hub and registers challengers; the
state of a mine feeds the attention queue, whose first item the response plan is about;
the engine is called over HTTP with a signed request, trains, stores an artifact with
its manifest, and repairs what failed.

## Modules

Each module is one component. A definition that models code has the name of the
code where possible, `PROJECT.json` maps it to its lines, and a comment
introduces it. A definition whose comment begins "Mutant" is a plausible bug in a
definition near it, used to show that a property can fail; no specification
refers to it.

### The cache

**CircuitBreaker.** One action per branch of `can_attempt`, one for each way a call
ends: `RecordSuccess`, `RecordFailure`, `Abandon` (no outcome recorded: no client
could be built, the body did not serialise, or a SCAN generator was dropped).
Every method runs under the breaker's lock and is one step; a *call* is two
steps, with anything in between. `Ping` is the health check, which does not ask
`can_attempt`. Time is the single difference the code compares, saturated at the
cooldown.

**KeyedMutex / SingleFlight.** KeyedMutex is the promise: one lock per cache key.
SingleFlight is the code: a table of `(lock object, references)` under the manager's
lock, per-key lock objects, and the joining, locking, unlocking, leaving of
`get_or_set`. Lock objects are data here because an entry that is deleted and made
again has a *different* lock. SingleFlight implements KeyedMutex under the mapping
`Owner`: the producer of each key.

**L1Store / L1Cache.** L1Store has the store's operations as pure operators: an
`OrderedDict` is a sequence of entries, oldest first; what a deletion leaves of it is an operator of
**Subsequences**. L1Cache drives them with two
clocks, the monotonic one and a wall clock that may be stepped.

**TieredCache.** Built on L1Store and KeyedMutex. One action per access to shared
state: an L1 method, a Redis command, the producer's read, entering or leaving a
flight, submitting or starting a refresh. `Commit` and the actions after it are a
writer: the database changes, then `delete_pattern` removes the keys from L1, scans
Redis, and deletes what the scan returned, one command per key. With `L2MayFail`, any Redis
command may time out, be refused by the breaker, or return something undecodable.

**CacheHealth.** The two locks a request and the health report share. A request
counts (metrics lock), gets the client (client lock, built on first use), issues its command and
counts again; `health()` holds the metrics lock while it pings.

**Memo.** A call is its look-up under the lock, the read of the database outside it, and
the store under the lock again, with eviction by age and at the size limit. `clear_all` drops the entries and
not the calls in flight.

### Governance and learning

**ModelRegistry.** One task of the registry and one gateway process. Each
governance endpoint is its read (`Read`), the verification of the artifact with
the reload (`VerifyAndReload`, `VerifyFails`), and its transaction:
`SelectChampion` and `LockChampion` are SELECT ... FOR UPDATE with READ COMMITTED's
re-evaluation after a wait, `CommitChampion` is the writes and the COMMIT, `IndexRefuses`
the partial unique index, `ConnectionFails` a lost connection. After it come the
invalidation and the announcement. A prediction is `MetadataHit` or
`MetadataQuery`/`MetadataStore` (or `MetadataOutage`), the two unlocked reads (`PeekModel`), the
comparison, the swap of model and of version, and the reply. `Restart` loses memory.

**PlanLifecycle / ResponsePlans.** PlanLifecycle is the promise: a plan moves along
`TRANSITIONS` and nowhere else. ResponsePlans is the code: a request looks the plan up
(`Require`), for an outcome inserts it in a transaction of its own (`RecordOutcome`), then
locks the row and checks the edge (`LockPlan`), and writes state, approval and audit
entry with the COMMIT (`MovePlan`). A creation computes its reference (`Create`), inserts the row under the
unique index (`Insert`) and commits (`FilePlan`). `Fail` is any statement, COMMIT or connection failing:
locks are released and nothing is written. `schema` is how the database was made, because the two
definitions of `gov.decision_outcomes` differ.

**Decisions.** Each request is one transaction: look up and lock the row, check state and role, write,
audit. A failed audit INSERT aborts the transaction, the handler swallows it, and nothing was written.

**DatasetVersions.** One step per transaction of the data hub. An upload finds the dataset, then its latest version,
then commits under `UNIQUE (dataset_id, version_tag)`; a validation reads the version, stores the report, reads the mapping,
commits snapshot and status, or falls back without a snapshot. Both schemas are modelled, because they refuse different statuses.
`tainted` and `clean` are history: they remember that a mapping was committed in the middle of a request.

**TrainingRuns** extends DatasetVersions: the trigger checks a version, abandons old runs, inserts under the partial
unique index, and starts the thread; the thread begins, registers one challenger per task, and finishes or fails;
`Ages` is the two hours, `Restart` loses every request and thread. `TrainSpec` composes both modules.

### Operations

**OperationalState** has the severities and how signals become a state. **MineClock** resolves "now" for a mine from two sources,
one query after the other, caches it, and derives the platform's state from it later. **MineState** runs five checks
concurrently, each on the records as they are then, any of which may raise, and builds the told state and the attention queue. **MaterialFlow** is
`analyse` with its memos and its aggregates that are kept for ever, over shifts with missing measurements.

**Evidence** grades an estimate: factors, weights and caps. **Interventions** has the catalogue, the permission of each action and its effects.
**Scenarios** asks for them in the three ways the gateway does (controls, named interventions, a response plan); each check is a query of its own, answered
from memory for a while, while the records change.

**HaulageCost** is what a cell costs a vehicle under conditions. **RoutePlanning** is a request: leg after leg, each an A\* search with
one expansion per step, the penalties that keep alternatives away from what was found, the shortest route, and the comparison of two conditions.
The code computes lengths in floating point, with the square root of 2 for a diagonal; the model takes twelfths of a cell, 17 for a diagonal. A step then takes
no more from the floored straight line than its length on a grid of any size, as in the code; with coarser fractions (fifths, and 7 for a diagonal) that fails on grids of sixteen cells a side and more.

### The engine

**FaultAnalysis** has the deterministic rules (detector, localizer, root cause, decision, repair plan) as operators over the record of a run.
**PipelineRecovery** runs a pipeline node by node (run, validate, checkpoint, update the context), lets nodes fail, reject silently
or carry integrity evidence, loses checkpoint files, and recovers by the decision. A checkpoint's file holds JSON: for the nodes in `typed`, whose result is a frame, a dataclass or a tuple, restoring gives back something else (`Refiled`, manager.py:252). **SelfHealing** is `handle_failure` over the same run: plan, safety check, sandbox,
validation, resume or roll back. `Uninterrupted` is the abstract run that both are compared with.

**EngineRuns** is the service around them: executions in threads that share the trainer's fitted models and the monitor's buffered alerts (copied in one step and cleared in the next), the JSON record and the database row of each
(any write of which may fail), healing through the service and `analyze_and_heal`, and restarts that interrupt threads or tear records.

**FeatureSelection** holds the rules that read the columns (target, task, roles, leakage, strategy, candidates) and **ModelTraining** a run through them:
holdout, fallback to a random one, fit, artifact, prediction. Columns are records of what the rules ask of a name and of the values.

**ArtifactIntegrity** saves (dump, checksum, temporary manifest, rename), dies between any two of these, lets others change the file, and loads before
it verifies: a loader keeps the content of the object beside the status of the file that is attached to it later. **SecurityAudit** is the response to an artifact that failed and its log: memory, a file of lines, lines cut off between or within characters, replay, and a file that does not decode, with which no log opens.

### Instances and proofs

**MC\*** instantiate these for TLC. Four of them put several parts side by side that share nothing:
a behaviour is about one part, chosen at the start (`part`), and each part's step leaves the others unchanged. So one run
asks the questions of all of them, and their state spaces add up and do not multiply. Where parts interact they are one module or one extends the
other: TrainingRuns over DatasetVersions, SelfHealing over PipelineRecovery, EngineRuns over FaultAnalysis, Scenarios over Interventions over Evidence,
ModelTraining over FeatureSelection, TieredCache over L1Store and KeyedMutex, L1Store, SecurityAudit, FeatureSelection, MaterialFlow, MineState, Scenarios and RoutePlanning over Subsequences (what a filter keeps, a sort puts first and a sum comes to, without recursive operators). **\*Proofs** hold the theorems.

## Runs

| Run | Module | Question | Result |
| --- | --- | --- | --- |
| `cacheparts` | MCCacheParts | Can late outcomes confuse or wedge the breaker? Does reference counting give one lock per key? Can requests and health checks block each other? | No; yes, and it implements KeyedMutex; not with a REDIS_URL that parses, nor requests alone with one that does not |
| `cache` | MCTieredCache | How old can a cached value be; what does an invalidation leave behind? | ttl plus the stale window at most; nothing older, if nothing was in flight; L2 never goes back; one refresh per key |
| `cache_live` | MCTieredCache | Is every request answered with Redis failing anywhere? | Yes, and every refresh ends |
| `health_misconfigured` | MCCacheParts | Do health checks end with a REDIS_URL that does not parse? | No, they block for ever (a counterexample) |
| `registry_safety` | MCModelRegistry | One champion, no gap in the succession, only verified artifacts in memory? | Yes |
| `registry_live` | MCModelRegistry | Do requests end, and do versions converge? | Yes |
| `registry_approved` | MCModelRegistry | Are only approved models promoted? | No (a counterexample) |
| `registry_audit` | MCModelRegistry | Is what is announced after a promotion committed? | No (a counterexample) |
| `plans` | ResponsePlans | Do racing and failing requests keep plan, approvals, audit and outcomes in step? | Yes; each plan follows PlanLifecycle, and every request ends |
| `gateway` | MCGateway | Does the lineage of a dataset fork, is training data always validated, is a domain's run alone and carried, does every run settle? Are routes the cheapest, and are alternatives and changes justified? | It does not; yes to the rest, with the exceptions the properties name |
| `engine` | MCEngine | Are checkpoints prefixes, recoveries whole, reviews of plans respected; what do concurrent runs do to each other; does everything end? | Yes, but for the three kinds of rerun that `RerunIsWhole` names and the rollbacks of `OnlyRestoresUnapproved`; only runs that overlap in training can take each other's model; yes |
| `sequential` | MCSequential | Ten parts without fairness, below | All hold |

The parts of `sequential`:

| Part | Shows |
| --- | --- |
| l1 | the entry in use survives eviction, nothing is fresh past its deadline although the wall clock steps |
| decisions | audit log and state agree, one outcome exactly when measured, work only under an authority |
| memo | an answer is less than a ttl older than its call, whatever overtakes what |
| clock | a platform that says NORMAL saw a recent observation, unless the mine has none |
| flow | an analysis is at most two ttls old, and the stage it names runs out first |
| mine | the told state is the one the records warrant, and the queue shows its worst item, WATCH below CRITICAL |
| scenario | every offered action was permitted by recent records, HIGH is earned, two pages on records that stood still order alike |
| artifact | a file changed behind its manifest never verifies; a file saved once is never a false alarm |
| audit | at most two events are lost per torn or missing line; without one, the log opens and tells each response whole and in order; rollbacks are to trusted checkpoints |
| training | features do not leak, the holdout of the strategy that was trained with is unseen, answers have all features |

What each passing run checks. A property is stated in parts, each with its own comment in
the component's module, and the configuration names their conjunction; a property in the
list without parts stands alone.

| Run | Properties |
| --- | --- |
| `cacheparts` | `BreakerSound` (BreakerTypeOK, ClosedBelowThreshold); `BreakerPatient` (CooldownHonoured, DisabledForGood); `BreakerRecovers` (OpenIsLeft, CallsResume); `FlightSound` (FlightTypeOK, OneProducerPerKey, RefsCountParticipants, LocksNotShared); `HealthSound` (HealthTypeOK, OnePool); `ImplementsMutex`; `WaitersProgress`; `EveryoneAnswered` |
| `cache` | `CacheSound` (TypeOK, OneRefreshPerKey); `AgeCeiling`; `QuietInvalidationComplete`; `L2NeverRegresses` |
| `cache_live` | `CacheAnswers` (RequestsAnswered, RefreshesEnd) |
| `registry_safety` | `RegistrySound` (TypeOK, OneChampion, OnlySoundInMemory); `ChampionSucceeded` |
| `registry_live` | `RegistryLive` (VersionConverges, AdminsAnswered) |
| `plans` | `PlansWellFormed` (TypeOK, ReferencesUnique); `PlansDocumented` (AuditTellsState, WorkIsAuthorised, MeasuredHasOutcome); `ImplementsLifecycle`; `RequestsAnswered` |
| `gateway` | `VersionsSound` (HubTypeOK, LineageNeverForks, UsableHasPassed, SnapshotIsOfMapping); `TrainingSound` (TrainTypeOK, OneActiveRun, ActiveHasThread, CompletedHasChallengers, RunDataPassed); `RoutesJustified` (RecommendedIsSafer, AlternativesDiffer, ChangedForAReason); `LegsAreCheapest`; `RunsSettle` |
| `engine` | `PipelineSound` (PipelineTypeOK, CheckpointsAreThePrefix, NothingAfterFailure); `RecoverySound` (RollbackIsToAPrefix, RerunIsWhole, RerunLeavesNothingOut, RerunSkipsOnlySucceeded, CorruptionIsNeverRecovered); `HealingSound` (HealingTypeOK, ReviewIsNotExecuted, OnlyRestoresUnapproved, HealedIsSafe, HealedFromAPrefix); `RunsSound` (EngineTypeOK, SucceededHasModel, ArtifactFitTogether, AlertsReportedOnce, AnalysesAgree); `EngineEnds` (RecoveryEnds, HealingEnds, RunsEnd) |
| `sequential` | `L1Sound` (L1TypeOK, RecentlyUsedKept, FreshDespiteClockSteps); `DecisionsSound` (DecisionTypeOK, DecisionsAudited, OneOutcomeWhenMeasured, AuthorityOfApproved); `MemoSound` (MemoTypeOK, MemoAgeBounded); `FlowSound` (AnalysisAgeBounded, NamedRunsOutFirst); `MineSound` (ToldStateIsWarranted, AttentionShowsTheWorst, WatchBelowCritical); `OffersSound` (SelectedWasPermitted, HighIsEarned, PagesAgree); `ArtifactSound` (LateChangeNeverPasses, NoFalseAlarm); `AuditSound` (EventsLostAreCounted, LogTellsTheWhole, RollbackIsTrusted); `ModelSound` (FeaturesDoNotLeak, HoldoutIsUnseen, AnswersHaveTheFeatures); `NormalPlatformIsRecent` |

For each of these properties `PROJECT.json` lists a mutant, a plausible bug in one
definition, under which the run reports the property violated.

## Bounds

- *cacheparts*: the breaker has three callers (one probe, one late outcome, one ping), threshold 3, cooldown 3, failure count up to 7:
  failures beyond twice the threshold change nothing. The flight has three threads (a producer, one that waits, one that arrives or leaves), two keys,
  and as many lock objects as threads. The health part has three threads: one in health, one building the client, one racing.
- *cache*: two requests, one refresh worker, one key, ttl 1, window 1, time to 3, one commit.
  A value's life ends at 2, so time 3 sees every copy expire. Two requests are a reader and a
  racing producer; the refresh worker is the third party. Failure of any Redis command
  is included.
- *cache_live*: as *cache*, without commits and with time to 1, because liveness
  concerns the threads and not the age of what they carry.
- *registry*: rows are a seeded champion and one or two challengers, of which one cannot be
  loaded, with one restart of the process. `registry_live` exercises promote and rollback only: approve and reject touch
  neither the champion nor memory. Its two administrators compete for the champion's
  row while one client reads.
- *plans*: two requests, two plans (two references to compete for), two outcomes of a plan, every endpoint, both
  schemas. A third request on a plan waits for its row like the second.
- *gateway*, data hub and training: two requests each. The four parts restrict the product, not the code: `lineage` has three versions
  whose contents do not matter; `hub` one version, which two requests remap, validate and approve; `learning` one curator and one trainer with a run on that version;
  `training` two runs of one domain with one task, both training modes, one restart. Two versions of the same parent need two uploads, and a mapping in the middle of a validation
  needs two requests; more of either repeats them. Proofs cover the rest.
- *gateway*, routing: a 3 x 3 grid, five cells varying over four grounds (road, slope, flood-prone, closed), seven requests over four vehicles and two conditions. Lengths are in twelfths
  of a cell, the diagonal 17, the straight line rounded down; rates are thousandths. The corridor that penalises a route is 0 cells wide
  instead of 2, as the whole grid would be within 2 of any route.
- *engine*: three nodes (one before and one after the failure), two attempts, two executions, two candidate models, three classes of error, two analyses in a row.
- *sequential*: callers are interchangeable (`CallerSymmetry`; the run has no liveness property). l1 three keys for two places, every lifetime one unit, time to 2, one step of the wall clock. decisions: two requests, two decisions, four roles.
  memo: two callers, two keys, one place. clock: two requests, a day of three units. flow: two analyses, two recorded
  shifts of three kinds, machines that change only before the first shift. mine: five signals at and around their thresholds (the middle values of three of them only where overdue work is unknown), one change of the records during the checks, a list of one item or of four (`Limits`; the endpoint takes 1 to 20, command_center.py:78), because four is the least that shows the worst. scenario: two of six requests, the second for the objective of the first because only such answers are compared, a ttl and a horizon of one unit, one change of the records; what a search
  for a route finds enters as a verdict, which the search may fail to give (`Routes`). artifact: two saves, two changes by others, two readers. audit: two failures, one torn
  line, two of three kinds of checkpoints while they are handled. training: six rows; a target and at most three of thirteen columns in an order, at most two in its
  reverse too; the candidate limit absent or 0; which candidate is best is any of them.

No run uses a bound as a guard where the code has a branch, except the counters each module names (`MaxTime`, `MaxVersion`, `MaxVersions`, `MaxRuns`,
`MaxRestarts`, `MaxPlans`, `MaxOutcomes`, `MaxDecisions`, `MaxSteps`, `MaxSaves`, `MaxChanges`, `MaxFailures`, `MaxTorn`, `MaxCheckpoints`, `MaxRequests`, `MaxShifts`, `MaxAnalyses`, the horizons `Max...Time`, and
`MAX_FAILURES`). `CHECK_DEADLOCK FALSE` stands in four configurations: `gateway`, `engine` and `sequential`, where a behaviour stops because its part
is done (a recovery, a route, a training is over, or a bound is reached), and `health_misconfigured`, whose subject is a deadlock. The others are checked for deadlock.

## Fairness

- Threads are scheduled: weak fairness of each thread's own steps.
- I/O ends: Redis and engine calls have connect and read timeouts, so a call that started
  returns, as a success or not. Nothing says it succeeds.
- Locks are not starved: a free `threading.Lock` is granted to one of its waiters, and to
  a given one if it is free again and again (strong fairness). PostgreSQL queues waiters for a row.
- Time passes in the breaker (`WF(BreakerTick)`), and metadata expire.
- In the breaker, requests keep arriving (strong fairness of `CanAttempt`): a circuit nobody uses stays open.
- `TrainFairness`: a worker thread runs, and a trigger that inserted its run starts the thread, with nothing in between that waits. A restart may still take either.
- `PipelineFairness`, `HealingFairness`: recovery and healing are synchronous calls that no other thread can stop. `EngineFairness`: an execution's daemon thread runs.
- No fairness for arrivals elsewhere, commits, failures, outages, lost connections or
  restarts. `VersionConverges` assumes in its own statement that governance requests end and that the registry
  stays reachable from some point on.

## Proofs

`tlapm` checks every theorem below for any values of the constants that satisfy the
named assumptions.

**CachePartsProofs** holds the three small parts of the cache.

*The breaker* (`ThresholdAssumption`, `CooldownAssumption`,
`MaxFailuresAssumption`). The properties are not inductive: that a circuit below the
threshold honours a cooldown depends on the past. The invariant `BreakerInv` adds that nobody is in
flight over a DISABLED circuit (so nobody can enable it), that CLOSED and HALF_OPEN mean
a whole cooldown or a success since the last trip, and that the age of an OPEN circuit is
no more than the time since the trip. `BreakerTypeCorrect`, `ClosedIsHealthy`, `FastFail` and `DisabledStays` follow.

*Single flight* (`ProcsAssumption`: finitely many threads; `NoLockAssumption`, `NoKeyAssumption`). The
count of an entry is the number of participants; so an entry is never removed
under one; so all participants of a key hold the very lock object in the table; so the producer,
who holds that lock, is alone. `MutualExclusion`, `CountsParticipants`, `SeparateLocks`,
and `Implementation`: every step of SingleFlight is a step of KeyedMutex or a stutter.

*Cache health* (`NoThreadAssumption`, `DeploymentAssumption`). The number of pools built is 1 if
the client is there and 0 otherwise, because `_init_lock`'s holder looks again; `HealthTypeCorrect` and `PoolBuiltOnce` follow.

**L1StoreProofs** (`MaxEntriesAssumption`) has the lemmas about the store that a proof about L1 needs, with no reference to time. A store holds one entry per key
(`KeysDistinct`). `DeleteFacts`: a deletion leaves exactly the entries of the other keys, each once, none moved past another (`Remains`). `GetKeeps` and `SetKeeps`: a look-up or a
`set` keeps keys distinct and the size within the bound, and leaves no entry that was not there besides the one just stored. The deletion is defined by the places the
staying entries come to (`Place`, `Picked` in Subsequences), because what a recursive filter computes is out of the prover's reach; `PickedFacts` and `Extremes` stand for the induction.

**TieredCacheProofs** (`StaleKeysAssumption`, `ProcsAssumption`, `TimesAssumption`, `FailAssumption`, `MaxEntriesAssumption`). None of the properties is inductive; `Inv` is, and its
parts are named for what they say. `Tiers`: whatever sits in a tier, or in a thread's hand on its way there, carries the deadlines of the moment its value was *produced*, so that no copy from L2 to L1 or between
threads lengthens its life; with it `AgeCeiling` is inductive (`NothingTooOld`). `Held`: who holds a flight is in it, with the key it locked. `Refreshes`: a key is marked exactly while it is once in the queue or with
one worker (`OneRefresh`). `NotOvertaken`: nothing is newer than the database, and what a producer is about to write to L2 is no older than what is there, which rests on `Held`, since only the holder writes a key
(`NoRegress`). `Undisturbed`: while a commit has met no other thread and no failure, either everything cached is of the committed version, or the invalidation is still at the step that will remove the rest (`QuietIsComplete`).
`CacheTypeCorrect` and `CacheIsSound` follow.

**ModelRegistryProofs** (`RegistryAssumption`). `IInv` strengthens the types with what an open request or query
knows: a target row, a known verdict, a *verified* row for a swap. `AtMostOneChampion`
rests on the partial unique index and on the order of the UPDATEs; `VerifiedMemory` on the verification
before each assignment to memory; `Succeeded` on the fact that the transaction that
archives a champion installs one.

**ResponsePlansProofs** (`RequestsAssumption`, `BoundsAssumption`, `OperationsAssumption`). `IInv` adds what a request knows while
it works: a creation's id and reference are nobody else's (the sequence, and the index entry other INSERTs wait
for), a request that is writing holds the row and the edge it checked still exists, an outcome was committed
before its transition. `AuditTrail`, `Authorised`, `UniqueReferences`, `Evidence` follow, and `Implementation`: every step is a step
of PlanLifecycle for each plan, or a stutter. `FreeReference` needs that a plan's reference is never larger than its id.

**GatewayProofs** holds the parts of the run `gateway`.

*Routing* (`RouteAssumption`: there is a cell, and terrains and requests are of their types, everything but slopes clipped to percentages; `RouteSpec`). The estimate never falls by more than an edge costs, under any penalties (`StraightStep`, `EstimateFacts`), so a search (`SearchIs`) settles the
least entry of its heap: nothing that is open comes before what is closed, and a closed cell is never improved (`SearchExpands`). The reference `CheapestFrom` is a recursive function, of which a prover knows nothing until one is known to satisfy its equation; that one exists follows from the least number of rounds
without one (`Recursion`, `CheapestFromIs`). Its rounds and the search meet in two directions: every way that a round finds is behind the search, or something open is tried before it (`Considered`), and what the search has found, as many rounds as it has closed cells have found
(`FoundSoFar`). Hence a leg costs what the reference says (`LegsFoundCheapest`), and no more than any walk over open cells (`FoundIsCheapest`). What is returned is such a walk, at the cost of its end (`PathFoundIs`); a journey by all stops splits into its legs and is as light as they are (`JourneySplits`,
`LightestJoins`). `RouteInv` has for each route that is kept that it is a journey over the open cells of its phase, and the lightest one unless it is an alternative; what `RoutesJustified` says compares two of them: `RoutesAreJustified`, where alternatives are others if they take no cell twice.

*The data hub and the training runs* (`NoMappingAssumption`, `HubSchemasAssumption`, `MaxVersionsAssumption`, `TasksAssumption`, `TrainingBoundsAssumption`). For the data hub, `HubInv` adds what a request relies on
between its transactions: the parent it read is a version of its dataset for ever, and the unique tag is the parent's and one, so a second child is refused; past the report, its version passed, which
nothing takes back (`VersionsStay`); a request whose version got a new mapping is no longer `clean`. `HubTypeCorrect`, `LineageIsAChain`, `UsableAlwaysPassed`,
`SnapshotsAreCurrent` hold of `HubSpec`. For the runs, `TrainInv` adds that a run without a thread has at most one trigger about to start it, that a completed run's thread has ended, and that a trigger knows
its version passed; it is kept by every step of the training service, and, through `VersionsStay`, by every step of the data hub. `TrainTypeCorrect`, `ActiveRunsAreAlone`,
`ActiveRunsAreCarried`, `CompletedRunsAreWhole`, `RunsTrainOnPassedData` hold of the composition `TrainSpec`.

**SequentialProofs** holds the parts of the run `sequential` that are proved.

*Decisions* (`RolesAssumption` and the assumptions of Decisions). The invariant follows each transaction: a row is held by at most one request, and a request that holds it knows
the state it checked. `DecisionTypeCorrect`, `DecisionsAreAudited`, `OutcomesMeasuredOnce`, `ApprovalsAuthorised`.

*Artifacts* (`ArtifactAssumption`). A manifest names a content that was on disk when it was computed, and no content made behind it is ever that content, so the file a reader verified
was not a late change (`ChangedNeverVerifies`). Nor was the object it had loaded before, unless a save was begun in between: without one, a late change that was loaded is still there, or another one is (`LoadedLate`); with one save and no change there is no manifest or one for the only content (`SavedOnceNeverFails`).

*The memo* (`MemoSizeAssumption`, `UnmemoisedAssumption`; `MemoSpec`). An entry is dated by the beginning of the call that read it, and nothing in the store or in a call's hand is older than its date, whoever stored it last: `MemoIsSound`.

*The clock of a mine* (`ClockAssumption`; `ClockSpec`). A cached resolution may be old, but the age is taken when the state is told, and a state is as bad as its worst signal: `NormalIsRecent`.

*The micro-cache* (`L1Spec`, with the lemmas of L1StoreProofs). The store is in the order of use: an entry has behind it every key used since its own, so the first of more than `max_entries` entries is evicted only when that many
other keys were used after it; and an entry keeps the monotonic deadline it was written with, whatever the wall clock does: `L1IsSound`.

*The audit log* (no assumption on its constants). The property counts what is lost, and a count is only inductive together with what can still be lost: a torn line costs its own event and, while it is open, the one written behind it (`LostSoFar`), whether the log opens with the file or not; until the
first torn line the file decodes and says exactly what is in memory (`FileIsMemory`), so that a replay changes nothing and each step of a response finds its earlier events (`Recorded`); a rollback's choice is a greatest
element, which a non-empty set of positions has (`Extremes`): `AuditIsSound`.

*Training* (`DatasetsAssumption`: the columns of a dataset have names of their own, as pandas gives them; `ModelTrainingSpec`). Names stand for columns all through the rules, so `NamedFacts` comes first. `ModelInv` has what the plan refers to (`PlanFits`) and what the training left of it (`TrainedFits`).
The rest is about single steps: what the filter leaves (`SafeColumns`), and that both sides of each of the five holdouts keep a row, because four labelled rows give a fifth of at least one, and whole groups stay on one side: `ModelIsSound`.

*Material flow* (`FlowAssumption`: the ttl is positive, and what a shift or the telemetry recorded is no negative number; the schema checks that of the production and the hours, init.sql:132, and nothing does of the rest; `FlowSpec`). `FlowInv` dates what is remembered: a shift read for a
report is less than a ttl older than the call, and so is a memoised report than its date (`FlowRemembered`); what fills a lru cache is an amount (`ComputedFacts`, which needs that a sort returns what it is given, `InOrderFacts`, and that a sum stays among the numbers, `TotalFacts`). The stages
that can constrain the flow all have the production of the shift for their throughput (`StageFacts`), so the most utilised is the one with the least capacity (`ReportedFacts`): `FlowIsSound`.

*The state of a mine* (`MineAssumption`: quantities are no negative numbers, which the schema checks of production, init.sql:138, and machines and tonnages are counted; and a list asks for at least one item; `MineSpec`). An evaluation has read, for each check, some version
of the records that there was (`ReadFrom`). What a check can find is known from its kind whatever the records say (`Founded`), and a state is the worst severity that was found; with one version only, that is what the records warrant. The order of the queue compares products of four weights: a critical item stands
before every watch, but watches with tonnages may stand before a disruption without one. The backlog of maintenance and the open incidents have no tonnage, so one of the two stands behind what is worse than it (`OneBehind`), and four items show the worst: `MineIsSound`.

*What a manager is offered* (`ScenarioAssumption`: a record and a request are of their types, the ttl is positive, and a change of the records leaves the route as it was; `ScenarioSpec`). `ScenarioInv` dates the answers: what is remembered of a query is what the records said at a
moment (`AskedTells`, `SaidAt`), one that is used was read less than a ttl before (`YoungAnswer`), and what the records said then stays said when they change; so a check that passed is true of recent records, and an outcome that was not rejected passed all its hard checks (`PermittedInTime`).
A grade is the least of its caps, so HIGH has none (`FactorsFacts`, `GradeIsHigh`). Scores are fractions, compared crosswise; that order is total and transitive because no denominator is zero (`ScoreIsFraction`, `NoWorseTransitive`), so a sorted list shows nothing before a better outcome (`SortedFacts`), and as
a score depends on gain, grade, cost and risk alone (`SameScore`), and where one record was all that was read these are a function of that record and of the economics, which are never reset (`OutcomeOf`, `Settled`), two pages
order the same proposals alike: `OffersAreSound`.

**EngineProofs** (`PipelineAssumption`, `NobodyAssumption`, `RunErrorsAssumption`, `CandidatesAssumption`: at least one candidate, and none called "none").

*The pipeline and its recovery* (`PipelineSpec`). The reference `Uninterrupted` is a recursive function, of which a prover knows nothing until some function is known to satisfy its equation; that one exists for every number of nodes follows from the least
number without one (`Develop`, `UninterruptedIs`). `PipelineInv` then has three parts. `RunTells`: what the run holds at a node is what the uninterrupted run holds there, and its records are the successes of the nodes before and one failure at most, of the node it is at.
`StoreTells`: the checkpoint of each node is what the uninterrupted run held behind it, and there is at most one more than there are nodes behind the run. `RecoveryTells`: an automatic decision means that no record has evidence of a corruption; a rerun that takes up where its
checkpoint ends and whose file gives back what was stored (`Joins`) holds, but for the signs that a rejected output changes, what the uninterrupted run held one node before. `PipelineIsSound` and `RecoveryIsSound` follow.

*Self-healing* (`HealingSpec`). A call is decided by its diagnosis and only narrowed later: `HealTells` says that a call which executes its plan, or did, is `Executable` (no manual step, no rejected decision, a failed run without evidence of a corruption, and of an unapproved decision only a rollback that first restores: `FirstStep` goes through the plans of the faults that a rollback answers),
that it validates only at the end of its plan, that its steps restore only when it has a checkpoint, and that a rolled-back call holds the file form of that checkpoint's data. With `PipelineInv`: `HealingIsSound`.

*Concurrent runs* (`EngineSpec`). `EngineInv` has what each run knows of its own record, row and artifact (`Local`), what the analyses of a failed row go by (`Agreeing`: the first fault event, which nothing moves, is the run's own), what the shared dictionary holds of a run's models
(`Together`: they were fitted by the run or by one of `shared`, which has every run that trains at the same time), and where an alert can be (`AlertsInv`: outside the history `torn`, one that is in the buffer is with the run that stands between its copy and its clear and with nobody else; none is raised before the end of its training). Healing through the service, which passes no nodes, always ends in ABORT or a review (`HealedTells`),
so it never makes a record succeed. `RunsAreSound` follows.

Each part ends with the conjunctions that the runs check: `BreakerIsSound`, `FlightIsSound`, `HealthIsSound`, `CacheIsSound`, `RegistryIsSound`, `WellFormed`, `VersionsAreSound`, `TrainingIsSound`,
`DecisionsAreSound`, `ArtifactIsSound`, `MemoIsSound`, `L1IsSound`, `AuditIsSound`, `ModelIsSound`, `FlowIsSound`, `MineIsSound`, `OffersAreSound`, `PipelineIsSound`, `RecoveryIsSound`, `HealingIsSound`, `RunsAreSound` and, for the action properties of the breaker and the documentation of plans, `Patient` and `Documented`.

`LegsAreCheapest` and `RoutesJustified` are proved as the runs check them.

Only model-checked: the liveness properties (`CacheAnswers`, `RegistryLive`, `RequestsAnswered`, `EngineEnds`, `BreakerRecovers`, `WaitersProgress`, `EveryoneAnswered`, `RunsSettle`), as the prover has no reasoning
for fairness. Induction over data is out of its reach except where, as in GatewayProofs, EngineProofs and SequentialProofs, the least counterexample among the natural numbers stands for it.

## Disagreements found

- **Health check deadlock** (`health_misconfigured`). `health()` pings inside
  `_metrics_lock` (cache.py:1190). If the pool cannot be built, `_get_client` reports
  through `_inc_metric`, which takes the same non-reentrant lock. The thread waits for itself, and every
  request behind it. `docs/ARCHITECTURE.md:44` promises that a misconfigured Redis is harmless.
- **Promotion of a rejected row** (`registry_approved`). The status is checked in one transaction
  and used in another.
- **Announced and rolled back** (`registry_audit`). A failed audit INSERT aborts the transaction, the exception
  is swallowed, COMMIT rolls back silently, and the promotion is announced.

Also met, and stated in the modules as properties the code does not keep, without a run:
`FreshAfterInvalidation` (a producer that read before the commit stores after the
invalidation, and its value stays up to its age ceiling, where `docs/DATA_HUB.md:63` says queries reflect the new data
immediately), `OneOutcomePerPlan` (an outcome is committed before the transition that may be refused, so a second request adds a
second one, where `docs/LEARNING_LIFECYCLE.md:120` says "one per plan"),
`SingleProbe` (HALF_OPEN admits every caller, though commented as a single probe),
`ReportedIsServed` (a prediction can carry one model and another version), `MemoryConverges` (the announced version settles on the champion, which is all that
`RegistryLive` says, but the model in memory may stay another one for ever: after a promotion that failed behind its reload, or a swap for an older champion between a promotion's reload and
its announcement, every prediction finds the right version announced and looks no further, where ml_loader.py:59 calls it the version "ACTUALLY loaded and serving") and
`ChampionNotRejected` (rejection has the same unlocked check as promotion). Three remarks
without a property: `gov.decision_outcomes.decision_id` is NOT NULL in `init.sql:381` and no migration
relaxes it, but a plan's outcome has none (response_plans.py:318), so on such a database every outcome
request fails and no plan is ever MEASURED; a rollback accepts a target of any status, and the metadata TTL is 120 s where
the docstring says 10 s (ml_loader.py:144, :116).

Met while modelling the rest. The models follow the code in each case.

*Training rules.* Entities are never held out, whatever is planned: the leakage detector flags every `*_id` column (leakage/detector.py:151), the filter
drops it before the trainer (orchestrator.py:909), and group_holdout, whose column is gone, falls back to a random holdout, although trainer.py:108 says the column "is still required for group_holdout"
and strategy.py:136 promises an entity never on both sides (`HoldoutIsUnseen` is about the strategy of the training, and so holds); the artifact still records group_holdout (orchestrator.py:2003). The task is that of the detected target even when the caller names another (orchestrator.py:697). A plain `code` column
stays a feature although it has the identifier role (trainer.py:771).

*Engine runs.* The trainer's fitted models and the monitor's alerts are shared: overlapping runs can take each other's model (trainer.py:223; `ArtifactFitTogether` admits it, and its history `shared` names them) and alerts (monitor.py:119).
`drain` is a copy and a clear without a lock (monitor.py:181), where its docstring says "return all alerts and clear the internal buffer": two runs can copy the same alert, and one raised in between is lost. `AlertsReportedOnce` exempts exactly these (`torn`). `analyze_and_heal` on a run that is only started invents "persisted_fault_0". Records queued or running at a restart stay so.
A service healing sees no nodes and no status. A rerun never calls validate_output (recovery/executor.py:361).

*Recovery.* "Requires a valid checkpoint at the preceding node" (decision.py:41) is not kept: the root comes from the localization and the checkpoint is the latest one, so a rerun can repeat nodes whose work its context already has; without a checkpoint (after a restart
of the process) it begins at its root with no context at all, and both are reported as successful. A restored context is parsed JSON (manager.py:192, :252), so a node that returned a frame or a dataclass hands a dictionary or a string to the next one. `RerunIsWhole` names these three. A retry is a success whenever its callable does not raise, whatever
the execution it returns says (recovery/executor.py:259).

*Self-healing.* Only the plan's own review is looked at, never the decision's `requires_approval`: a rollback after a missing artifact or a failed dependency requires one and has MEDIUM steps only, so it is executed without (self_healing/orchestrator.py:441), where :26 says that what requires human approval is not executed automatically; `OnlyRestoresUnapproved` says how far this goes. `auto_approve_low_risk`
changes nothing, as no plan of LOW and MEDIUM steps without a manual one asks for approval. A step without a handler is skipped and counts as passed, so a run can be `RESUMED` although nothing was done, where sandbox.py:153 says "True only if all steps passed validation".

*Artifacts and audit.* A manifest that fails to be written on a second save leaves the old one, so the new artifact loads as "failed" (inference/engine.py:183); a change between dump and checksum is blessed; `integrity_verified`, "True only when the artifact passed a SHA-256 integrity check" (inference/engine.py:156), is the status of the file as it is read after the object (:217, :226), so a changed artifact that a complete save replaces in between reads "passed" on the changed object (`LateChangeNeverPasses` allows exactly this); a line cut off without its newline is skipped by the next start together with the event written behind it, where "entries are NEVER silently discarded" (audit.py:11) and `record` "never silently discards events" (:152);
`_replay` catches the errors of a line's JSON and OSError ("corrupted lines are skipped, not fatal", :101), but lines are written with `ensure_ascii=False` (:111), reasons have characters of several bytes (integrity/checker.py:223, :281, recovery.py:313), and a cut within one raises UnicodeDecodeError from the iteration, out of `__init__`: no log opens until somebody repairs the file (`EventsLostAreCounted` counts what is left in it); the decision is logged after the quarantine though recovery.py:22 says before any action.

*Routing.* `_overlap` divides distinct cells by the length of a list, so a route out to a stop and back overlaps less than 85 % with itself and is offered as its own alternative (astar.py:332), where "genuinely distinct" is promised; diagonal steps pass between two closed cells;
the "higher risk" branch of explain.py:170 is never taken (`RecommendedIsSafer`); "no alternative scores better" compares cost, not risk.

*Actions that are offered.* An unevaluated hard constraint blocks (constraints.py:6-10, and "missing safety-relevant telemetry blocks, never defaults", DECISION_OPERATING_MODEL.md:301), but a NULL `failure_next_24h`, which the column admits (init.sql:119), is taken for 0 % and the redeployment passes (constraints.py:221);
a deferral passes when no unit states its overdue days, or none is registered (:299). Both are in `Permits`, and the records of the run have them. The units are asked for without a bound on their age, so the lowest risk ever recorded counts.

*Operations.* A failed check is dropped from the mine's state where state_engine.py:577 says never; a mine without dated observations has no freshness signal and can be NORMAL; a record dated today counts as 23:59, so its age is negative and reads as EXPIRED (clock.py:131); data 24 to 36 hours old is DISRUPTION and older is only WATCH (state_engine.py:460, :489);
economics cache a failed query for ever (economics.py:96); nothing calls the clear_cache functions; a zero capacity counts as unmeasured (bottleneck.py:77). DISRUPTION items can outrank CRITICAL ones, and the response plan takes the first (attention.py:268). A caller that asks for three items or fewer (command_center.py:78) may not see the one
that gave the mine its state: three watches with tonnages stand before an overdue maintenance, though the tonnage is commented as breaking ties only.

*Data hub and training.* init.sql admits quality_score in 0..1 while reports have 0..100 (:234), no VALIDATION_FAILED (:193) and no LOCAL_DEV (:211), so on such a database a passing report cannot be stored; a failed canonicalisation keeps the old snapshot and marks the version validated (data_hub.py:463); a cancellation can overwrite a completed run
(training.py:465); a queued run lost at a restart blocks its domain for ever, because only running ones are abandoned.

## Not modelled

`PROJECT.json` lists every part with its reason. In short: numerical and column-wise
code (fitting, scoring, geospatial rasters, row checks of uploaded files, the synthetic terrain), because its correctness is about values a model
checker cannot enumerate; formatting, narration, explanations and dashboards, because they keep no
state; authentication and request signing, because each check is stateless; object storage and artifact download,
because they are external and enter ModelRegistry and DatasetVersions as a verdict; the connection pool, whose only effect beyond transactions is a
request that fails, which the modules have; the HTTP layers, which parse and forward. In TieredCache the direct `get`, `set`, `delete`
and `clear` methods are left out: the service never calls them. The front ends are not modelled.

## Plan

What is left, most useful first:

1. The composition of DatasetVersions and ModelRegistry with the cache's `Commit`: every governance commit followed by its invalidation.
2. Projection, decision memory and handover (`core/projection.py`, `core/decision_memory.py`), if they come to keep state; the terrain's own rules of passability.
3. Transactions (commit, silent rollback, lost connection) as one module that ModelRegistry, ResponsePlans, Decisions and DatasetVersions share.
