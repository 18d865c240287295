----------------------------- MODULE ModelRegistry -----------------------------
(***************************************************************************)
(* One task of the model registry: the governance endpoints of             *)
(* routers/model_approval.py that move a registry row through its life      *)
(* (approve, promote, reject, rollback), and core/ml_loader.py, which keeps *)
(* the model a gateway process serves in step with the registry's champion.*)
(*                                                                         *)
(* Every endpoint reads its row OUTSIDE the transaction that later writes  *)
(* it.  The handlers are synchronous, so the framework runs them on a      *)
(* thread pool and their steps interleave.  The database is PostgreSQL at  *)
(* READ COMMITTED: the only row lock an endpoint keeps over several         *)
(* statements is the FOR UPDATE on the champion, and a partial unique       *)
(* index admits one champion.  A transaction's writes and its COMMIT are    *)
(* one step here: what it wrote is locked and invisible until then.         *)
(***************************************************************************)
EXTENDS Naturals

CONSTANTS
    Models,         \* the registry rows of the task; also their artifacts
    Seed,           \* the champion at deployment, and the file loaded at startup
    Admins,         \* requests to the governance endpoints
    Clients,        \* requests that need a prediction
    Operations,     \* the endpoints exercised
    LeakFree,       \* the rows whose leakage audit is PASS
    Recorded,       \* the rows with an artifact_sha256
    Artifact,       \* what the artifact lookup of a row finds on disk
    Sound,          \* the artifacts that load and pass the smoke test
    AuditOutcomes,  \* may the audit INSERT succeed (TRUE), fail (FALSE)
    MaxRestarts,    \* bound on process restarts
    Missing, NoModel, NoRow, Default

ASSUME RegistryAssumption ==
    /\ Seed \in Models \cap Sound
    /\ Sound \subseteq Models
    /\ LeakFree \subseteq Models
    /\ Recorded \subseteq Models
    /\ Artifact \in [Models -> Models \cup {Missing}]
    /\ Operations \subseteq {"approve", "promote", "reject", "rollback"}
    /\ AuditOutcomes \subseteq BOOLEAN
    /\ MaxRestarts \in Nat
    /\ {Missing, NoModel, NoRow, Default} \cap Models = {}
    /\ Default \notin {NoModel, NoRow}
    /\ NoModel \notin Admins

VARIABLES
    status,     \* gov.model_registry.status, per row
    rowLock,    \* the request whose open transaction holds the row, or Free
    memory,     \* MODELS[key]: the artifact in memory
    serving,    \* ACTIVE_SERVING_VERSIONS[task]: a version, Default or NoModel
    metadata,   \* _METADATA_CACHE[task]: the version it names, or NoRow
    admin,      \* the governance request each of Admins carries out
    client,     \* the prediction request each of Clients carries out
    restarts

vars == <<status, rowLock, memory, serving, metadata, admin, client, restarts>>
registry == <<status, rowLock>>
process == <<memory, serving, metadata>>

Statuses == {"challenger", "approved", "champion", "retired", "rejected", "rolled_back"}
Free == NoModel
Versions == Models \cup {Default, NoModel}

NoRequest == [pc |-> "idle", op |-> "none", target |-> NoRow, found |-> NoRow]
Query(at, version) == [pc |-> at, target |-> version, model |-> NoModel, reported |-> NoModel]
NoQuery == Query("idle", NoModel)

Champions == {m \in Models : status[m] = "champion"}

\* The row SELECT ... WHERE status = 'champion' returns, when there is one.
ChampionRow == IF Champions = {} THEN NoRow ELSE CHOOSE m \in Champions : TRUE

\* The checks between a row and its artifact's use: the file is found, its
\* checksum is the recorded one when one is recorded, it loads and passes the
\* smoke test.
Servable(m) ==
    /\ Artifact[m] \in Sound
    /\ m \in Recorded => Artifact[m] = m

-----------------------------------------------------------------------------
\* load_all_models at process startup: the file named for the champion.
Startup == [memory |-> Seed, serving |-> NoModel, metadata |-> NoRow]

Init ==
    /\ status = [m \in Models |-> IF m = Seed THEN "champion" ELSE "challenger"]
    /\ rowLock = [m \in Models |-> Free]
    /\ memory = Startup.memory
    /\ serving = Startup.serving
    /\ metadata = Startup.metadata
    /\ admin = [a \in Admins |-> NoRequest]
    /\ client = [c \in Clients |-> NoQuery]
    /\ restarts = 0

-----------------------------------------------------------------------------
(* The governance endpoints *)

\* What each endpoint demands of the row it reads, before any transaction.
Admissible(op, m) ==
    CASE op = "approve"  -> status[m] = "challenger" /\ m \in LeakFree
      [] op = "promote"  -> status[m] = "approved"
      [] op = "reject"   -> status[m] # "champion"
      [] op = "rollback" -> TRUE

Read(a) ==
    /\ admin[a].pc = "idle"
    /\ \E op \in Operations, m \in Models :
        /\ Admissible(op, m)
        /\ admin' = [admin EXCEPT ![a] =
               [pc |-> IF op \in {"promote", "rollback"} THEN "verify" ELSE "decide",
                op |-> op, target |-> m, found |-> NoRow]]
    /\ UNCHANGED <<registry, process, client, restarts>>

Answer(a) == admin' = [admin EXCEPT ![a] = NoRequest]

\* approve, reject: one UPDATE that does not look at the status again.  A failed
\* audit INSERT aborts the transaction; the handler swallows the error and the
\* COMMIT rolls the UPDATE back.
Verdict == [approve |-> "approved", reject |-> "rejected"]

Decide(a) ==
    LET m == admin[a].target IN
    /\ admin[a].pc = "decide"
    /\ rowLock[m] = Free
    /\ \E audited \in AuditOutcomes :
        status' = IF audited THEN [status EXCEPT ![m] = Verdict[admin[a].op]] ELSE status
    /\ Answer(a)
    /\ UNCHANGED <<rowLock, process, client, restarts>>

\* promote, rollback: the artifact is verified, then reload_model puts it in
\* memory, before the database is touched.
VerifyAndReload(a) ==
    /\ admin[a].pc = "verify"
    /\ Servable(admin[a].target)
    /\ memory' = Artifact[admin[a].target]
    /\ admin' = [admin EXCEPT ![a].pc = "begin"]
    /\ UNCHANGED <<registry, serving, metadata, client, restarts>>

VerifyFails(a) ==
    /\ admin[a].pc = "verify"
    /\ ~Servable(admin[a].target)
    /\ Answer(a)
    /\ UNCHANGED <<registry, process, client, restarts>>

\* The snapshot of SELECT ... FOR UPDATE: the champion it will wait for.
SelectChampion(a) ==
    /\ admin[a].pc = "begin"
    /\ admin' = [admin EXCEPT ![a].pc = "lock", ![a].found = ChampionRow]
    /\ UNCHANGED <<registry, process, client, restarts>>

\* The row lock.  When it is granted the row is looked at again: one that is no
\* longer champion drops out of the result, and the new champion is not in it.
LockChampion(a) ==
    LET c == admin[a].found IN
    /\ admin[a].pc = "lock"
    /\ c \in Models => rowLock[c] = Free
    /\ LET hit == c \in Champions IN
        /\ rowLock' = IF hit THEN [rowLock EXCEPT ![c] = a] ELSE rowLock
        /\ admin' = [admin EXCEPT ![a].pc = "commit",
                                  ![a].found = IF hit THEN c ELSE NoRow]
    /\ UNCHANGED <<status, process, client, restarts>>

Unlocked(a) == [m \in Models |-> IF rowLock[m] = a THEN Free ELSE rowLock[m]]

\* Mutant: the target is restored first, the champion demoted second.
SuccessionReordered(op, found, target) ==
    [m \in Models |->
        IF m = found THEN IF op = "promote" THEN "retired" ELSE "rolled_back"
        ELSE IF m = target THEN "champion"
        ELSE status[m]]

\* The rows after both UPDATEs, demotion first: rolling back to the champion
\* itself demotes and restores the same row.
Succession(op, found, target) ==
    [m \in Models |->
        IF m = target THEN "champion"
        ELSE IF m = found THEN IF op = "promote" THEN "retired" ELSE "rolled_back"
        ELSE status[m]]

\* Mutant: the schema without the index.
IndexAbsent(found, target) == TRUE

\* uix_one_champion_per_task lets the UPDATE of target through.
IndexAdmits(found, target) == Champions \subseteq {found, target}

\* Both UPDATEs, the audit INSERT and COMMIT.
CommitChampion(a) ==
    LET r == admin[a] IN
    /\ r.pc = "commit"
    /\ rowLock[r.target] \in {Free, a}
    /\ IndexAdmits(r.found, r.target)
    /\ \E audited \in AuditOutcomes :
        status' = IF audited THEN Succession(r.op, r.found, r.target) ELSE status
    /\ rowLock' = Unlocked(a)
    /\ admin' = [admin EXCEPT ![a].pc = "invalidate"]
    /\ UNCHANGED <<process, client, restarts>>

\* The unique index refuses the new champion: the transaction is rolled back and
\* an error is answered, but the artifact already in memory stays there.
RolledBack(a) ==
    /\ rowLock' = Unlocked(a)
    /\ Answer(a)
    /\ UNCHANGED <<status, process, client, restarts>>

IndexRefuses(a) ==
    LET r == admin[a] IN
    /\ r.pc = "commit"
    /\ rowLock[r.target] \in {Free, a}
    /\ ~IndexAdmits(r.found, r.target)
    /\ RolledBack(a)

\* The connection is lost in the middle of a transaction.
ConnectionFails(a) ==
    /\ admin[a].pc \in {"decide", "lock", "commit"}
    /\ RolledBack(a)

\* After the commit: invalidate_model_metadata, then ACTIVE_SERVING_VERSIONS.
InvalidateMetadata(a) ==
    /\ admin[a].pc = "invalidate"
    /\ metadata' = NoRow
    /\ admin' = [admin EXCEPT ![a].pc = "announce"]
    /\ UNCHANGED <<registry, memory, serving, client, restarts>>

AnnounceVersion(a) ==
    /\ admin[a].pc = "announce"
    /\ serving' = admin[a].target
    /\ Answer(a)
    /\ UNCHANGED <<registry, memory, metadata, client, restarts>>

-----------------------------------------------------------------------------
(* ensure_active_model, run by every prediction *)

\* get_active_model_metadata's fallback, when the registry has no champion or
\* cannot be reached.
FallbackVersion == IF serving = NoModel THEN Default ELSE serving

\* _METADATA_CACHE within its TTL.
MetadataHit(c) ==
    /\ client[c].pc = "idle"
    /\ metadata # NoRow
    /\ client' = [client EXCEPT ![c] = Query("peek", metadata)]
    /\ UNCHANGED <<registry, process, admin, restarts>>

MetadataQuery(c) ==
    /\ client[c].pc = "idle"
    /\ metadata = NoRow
    /\ client' = [client EXCEPT ![c] =
           Query("store", IF Champions = {} THEN FallbackVersion ELSE ChampionRow)]
    /\ UNCHANGED <<registry, process, admin, restarts>>

MetadataOutage(c) ==
    /\ client[c].pc = "idle"
    /\ metadata = NoRow
    /\ client' = [client EXCEPT ![c] = Query("store", FallbackVersion)]
    /\ UNCHANGED <<registry, process, admin, restarts>>

\* The answer is cached even when an invalidation came between.
MetadataStore(c) ==
    /\ client[c].pc = "store"
    /\ metadata' = client[c].target
    /\ client' = [client EXCEPT ![c].pc = "peek"]
    /\ UNCHANGED <<registry, memory, serving, admin, restarts>>

PeekModel(c) ==
    /\ client[c].pc = "peek"
    /\ client' = [client EXCEPT ![c].pc = "compare", ![c].model = memory]
    /\ UNCHANGED <<registry, process, admin, restarts>>

Reply(c, model, version) ==
    client' = [client EXCEPT ![c] =
        [pc |-> "done", target |-> @.target, model |-> model, reported |-> version]]

\* CASE 1: the version is the champion's; CASE 2: none was announced yet, and
\* the champion's is assumed.
CompareSynced(c) ==
    LET target == client[c].target IN
    /\ client[c].pc = "compare"
    /\ serving \in {target, NoModel}
    /\ serving' = target
    /\ Reply(c, client[c].model, target)
    /\ UNCHANGED <<registry, memory, metadata, admin, restarts>>

\* CASE 3: another version is announced; the champion's artifact is verified.
CompareStale(c) ==
    LET target == client[c].target IN
    /\ client[c].pc = "compare"
    /\ serving \notin {target, NoModel}
    /\ IF target \in Models /\ Servable(target)
       THEN client' = [client EXCEPT ![c].pc = "swap"]
       ELSE Reply(c, client[c].model, serving)
    /\ UNCHANGED <<registry, process, admin, restarts>>

SwapModel(c) ==
    /\ client[c].pc = "swap"
    /\ memory' = Artifact[client[c].target]
    /\ client' = [client EXCEPT ![c].pc = "report"]
    /\ UNCHANGED <<registry, serving, metadata, admin, restarts>>

\* Mutant: the swap, like reload_model, leaves the announced version alone.
SwapVersionForgotten(c) ==
    /\ client[c].pc = "report"
    /\ Reply(c, Artifact[client[c].target], client[c].target)
    /\ UNCHANGED <<registry, process, admin, restarts>>

SwapVersion(c) ==
    /\ client[c].pc = "report"
    /\ serving' = client[c].target
    /\ Reply(c, Artifact[client[c].target], client[c].target)
    /\ UNCHANGED <<registry, memory, metadata, admin, restarts>>

Finish(c) ==
    /\ client[c].pc = "done"
    /\ client' = [client EXCEPT ![c] = NoQuery]
    /\ UNCHANGED <<registry, process, admin, restarts>>

\* The metadata entry passes its TTL.
MetadataExpires ==
    /\ metadata # NoRow
    /\ metadata' = NoRow
    /\ UNCHANGED <<registry, memory, serving, admin, client, restarts>>

\* A restart loses the requests and the process's memory; the database ends the
\* open transactions.
Restart ==
    /\ restarts < MaxRestarts
    /\ restarts' = restarts + 1
    /\ rowLock' = [m \in Models |-> Free]
    /\ memory' = Startup.memory
    /\ serving' = Startup.serving
    /\ metadata' = Startup.metadata
    /\ admin' = [a \in Admins |-> NoRequest]
    /\ client' = [c \in Clients |-> NoQuery]
    /\ UNCHANGED status

-----------------------------------------------------------------------------
AdminStep(a) ==
    \/ Decide(a) \/ VerifyAndReload(a) \/ VerifyFails(a)
    \/ SelectChampion(a) \/ LockChampion(a) \/ CommitChampion(a) \/ IndexRefuses(a)
    \/ InvalidateMetadata(a) \/ AnnounceVersion(a)

ClientStep(c) ==
    \/ MetadataHit(c) \/ MetadataStore(c) \/ PeekModel(c)
    \/ CompareSynced(c) \/ CompareStale(c) \/ SwapModel(c) \/ SwapVersion(c) \/ Finish(c)

Next ==
    \/ \E a \in Admins : Read(a) \/ AdminStep(a) \/ ConnectionFails(a)
    \/ \E c \in Clients : ClientStep(c) \/ MetadataQuery(c) \/ MetadataOutage(c)
    \/ MetadataExpires
    \/ Restart

Spec == Init /\ [][Next]_vars

\* Threads are scheduled and PostgreSQL's lock queues are fair, hence strong
\* fairness of the steps that may wait for a row.  Predictions keep being asked
\* for, the TTL passes, and the registry can be read again and again.
\* Governance requests (Read), lost connections, outages and restarts carry no
\* fairness.
FairSpec ==
    /\ Spec
    /\ \A a \in Admins : SF_vars(AdminStep(a))
    /\ \A c \in Clients : WF_vars(ClientStep(c)) /\ SF_vars(MetadataQuery(c))
    /\ WF_vars(MetadataExpires)

-----------------------------------------------------------------------------
(* Properties *)

\* Every variable keeps its type.
TypeOK ==
    /\ status \in [Models -> Statuses]
    /\ rowLock \in [Models -> Admins \cup {Free}]
    /\ memory \in Models
    /\ serving \in Versions
    /\ metadata \in Models \cup {Default, NoRow}
    /\ admin \in [Admins ->
           [pc : {"idle", "verify", "decide", "begin", "lock", "commit", "invalidate", "announce"},
            op : Operations \cup {"none"},
            target : Models \cup {NoRow}, found : Models \cup {NoRow}]]
    /\ client \in [Clients ->
           [pc : {"idle", "store", "peek", "compare", "swap", "report", "done"},
            target : Versions, model : Models \cup {NoModel}, reported : Versions]]
    /\ restarts \in 0..MaxRestarts

\* However promotions, rollbacks, approvals and rejections interleave, the
\* registry never shows two champions of the task.
OneChampion == \A m, n \in Champions : m = n

\* The transaction that installs a champion never leaves the task without one:
\* neither a lost race for the row lock, nor a rollback to the serving champion.
ChampionSucceeded ==
    [][\A a \in Admins :
          (admin[a].pc = "commit" /\ Champions # {} /\ restarts' = restarts /\ admin'[a] # admin[a])
             => Champions' # {}]_vars

\* Whatever fails between the artifact check and the commit, an artifact that
\* does not load or does not pass the smoke test is never in memory.
OnlySoundInMemory == memory \in Sound

\* The registry is sound: at most one champion a task at every instant, whatever
\* two administrators interleave, and the process only ever serves a model that
\* passed its integrity and smoke checks.
RegistrySound == TypeOK /\ OneChampion /\ OnlySoundInMemory

\* Every governance request is answered: the row locks of transactions that
\* failed are released and nobody waits for ever.
AdminsAnswered == \A a \in Admins : admin[a].pc # "idle" ~> admin[a].pc = "idle"

Calm == \A a \in Admins : admin[a].pc = "idle"
ServableChampion == \E m \in Champions : Servable(m)
\* No outage changes what a prediction takes for the champion's version.
Reachable == [][\A c \in Clients : MetadataOutage(c) => MetadataQuery(c)]_vars

\* Once the governance requests have ended and the registry stays reachable, the
\* version announced becomes and stays the champion's, even when a metadata answer
\* read before a promotion was cached after the promotion's invalidation: the TTL
\* is the backstop.  (While outages recur it need not settle: an outage makes the
\* version announced so far the target of a later swap.)  This is about the version
\* alone; the model in memory need not follow (MemoryConverges).
VersionConverges ==
    <>[](Calm /\ ServableChampion) /\ <>Reachable => <>[](serving = ChampionRow)

\* Every administrator's request ends, and a process that is not restarted ends up
\* announcing the version of the champion the registry names.
RegistryLive == VersionConverges /\ AdminsAnswered

\* The model in memory becomes and stays the champion's as well.  The code does not keep
\* this: version and model are changed and read without a lock, a promotion that fails
\* after its reload leaves its model behind, a swap for an older champion may fall between
\* a promotion's reload and its announcement, and once the announced version is the
\* champion's no prediction looks at the model again (ml_loader.py).
MemoryConverges ==
    <>[](Calm /\ ServableChampion) /\ <>Reachable
        => <>[](ServableChampion => memory = Artifact[ChampionRow])

\* "The serving model version reported in API responses ... must ALWAYS equal the
\* model actually used for inference" (ml_loader.py).
ReportedIsServed ==
    \A c \in Clients :
        client[c].pc = "done" /\ client[c].reported \in Models
            => client[c].model = Artifact[client[c].reported]

\* "Only approved models can be promoted" (docs/LEARNING_LIFECYCLE.md).
PromotedWhileApproved ==
    [][\A a \in Admins :
          (admin[a].pc = "commit" /\ admin[a].op = "promote" /\ status' # status
             /\ admin'[a] # admin[a])
             => status[admin[a].target] = "approved"]_vars

\* "Cannot reject an active champion directly" (model_approval.py).
ChampionNotRejected ==
    [][\A m \in Models : status[m] = "champion" => status'[m] # "rejected"]_vars

\* The steps after a promotion's transaction run "after successful state commit"
\* (model_approval.py): the target is then the champion.
AnnouncedWasCommitted ==
    [][\A a \in Admins :
          (admin[a].pc = "commit" /\ admin'[a].pc = "invalidate")
             => status'[admin[a].target] = "champion"]_vars
=============================================================================
