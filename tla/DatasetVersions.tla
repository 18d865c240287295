--------------------------- MODULE DatasetVersions ---------------------------
(***************************************************************************)
(* The data hub (routers/data_hub.py): the versions of one named dataset,   *)
(* uploaded, mapped to the canonical schema, validated and approved for     *)
(* training.                                                               *)
(*                                                                         *)
(* Every endpoint reads what it decides on in one transaction and writes in*)
(* another, without looking again.  A step of this module is one            *)
(* transaction; a request may end between two of them (an error, a process  *)
(* that dies).  A mapping is a value that stands for all the column mappings *)
(* of a version, and a canonical snapshot is the mapping it was made with.   *)
(***************************************************************************)
EXTENDS Naturals, Sequences

CONSTANTS
    HubRequests,
    Mappings,       \* the column mappings a version can be given
    NoMapping,      \* no canonical snapshot yet
    HubSchemas,     \* the database may have been built by "init.sql", "migrate_all.py"
    MaxVersions     \* bound on the versions uploaded

ASSUME NoMappingAssumption == NoMapping \notin Mappings
ASSUME HubSchemasAssumption == HubSchemas \subseteq {"init.sql", "migrate_all.py"}
ASSUME MaxVersionsAssumption == MaxVersions \in Nat

VARIABLES
    hubSchema,  \* which schema the database has
    datasets,   \* the rows of hub.datasets with this domain and name
    versions,   \* hub.dataset_versions, by id, with its mappings and its report
    hub         \* the request each of HubRequests carries out

hubVars == <<hubSchema, datasets, versions, hub>>

HubStatuses == {"UPLOADED", "MAPPED", "VALIDATED", "VALIDATION_FAILED", "APPROVED_FOR_TRAINING"}

\* What training.py accepts.
Usable == {"VALIDATED", "APPROVED_FOR_TRAINING"}

Version == [dataset : Nat, tag : Nat \ {0}, parent : Nat, status : HubStatuses,
            mapping : Mappings, canonical : Mappings \cup {NoMapping},
            passes : BOOLEAN,       \* the verdict of the checks on this content
            reported : BOOLEAN,     \* a report is stored; its verdict is that of the content
            tainted : BOOLEAN]      \* history: its last validation or approval was not clean

HubRequest == [pc : {"idle", "latest", "insert", "report", "mappings", "canonical",
                     "failed", "approve"},
               dataset : Nat, parent : Nat, version : Nat,
               seen : Mappings \cup {NoMapping},
               clean : BOOLEAN]     \* history: no mapping of its version was committed since it began

NoHubRequest == [pc |-> "idle", dataset |-> 0, parent |-> 0, version |-> 0,
                 seen |-> NoMapping, clean |-> TRUE]

\* Types of the rows and of the requests.
HubTypeOK ==
    /\ hubSchema \in {"init.sql", "migrate_all.py"}
    /\ datasets \in Nat
    /\ versions \in Seq(Version)
    /\ hub \in [HubRequests -> HubRequest]

HubInit ==
    /\ hubSchema \in HubSchemas
    /\ datasets = 0
    /\ versions = <<>>
    /\ hub = [r \in HubRequests |-> NoHubRequest]

HubAnswer(r) == hub' = [hub EXCEPT ![r] = NoHubRequest]
HubGoto(r, to) == hub' = [hub EXCEPT ![r].pc = to]

-----------------------------------------------------------------------------
(* upload_dataset *)

\* The rows of one dataset, and the one ORDER BY id DESC LIMIT 1 returns.
VersionsOf(d) == {v \in DOMAIN versions : versions[v].dataset = d}
IsLatest(v, d) == v \in VersionsOf(d) /\ \A w \in VersionsOf(d) : w <= v

\* SELECT id FROM hub.datasets WHERE domain AND name: nothing makes the name
\* unique, and existing_ds[0] of several rows is any of them.
UploadFindDataset(r) ==
    /\ hub[r].pc = "idle"
    /\ \/ /\ datasets = 0
          /\ HubGoto(r, "insert")
       \/ \E d \in 1..datasets :
            hub' = [hub EXCEPT ![r].pc = "latest", ![r].dataset = d]
    /\ UNCHANGED <<hubSchema, datasets, versions>>

UploadFindLatest(r) ==
    /\ hub[r].pc = "latest"
    /\ \E v \in DOMAIN versions :
        /\ IsLatest(v, hub[r].dataset)
        /\ hub' = [hub EXCEPT ![r].pc = "insert", ![r].parent = v]
    /\ UNCHANGED <<hubSchema, datasets, versions>>

\* What upload_file of core/storage.py reports of the stored file.
StorageStatuses == {"AVAILABLE", "UPLOAD_FAILED", "LOCAL_DEV"}
StorageAllowed == IF hubSchema = "init.sql" THEN StorageStatuses \ {"LOCAL_DEV"} ELSE StorageStatuses

\* v1, or the number of the parent's tag and one.
NextTag(parent) == IF parent = 0 THEN 1 ELSE versions[parent].tag + 1

\* UNIQUE (dataset_id, version_tag)
TagTaken(d, tag) == \E v \in VersionsOf(d) : versions[v].tag = tag

\* The transaction: the dataset's row when none was found, the version and its
\* automatic mapping.  A violated constraint rolls everything back.
UploadCommit(r) ==
    LET new == hub[r].dataset = 0
        d   == IF new THEN datasets + 1 ELSE hub[r].dataset
        tag == NextTag(hub[r].parent) IN
    /\ hub[r].pc = "insert"
    /\ Len(versions) < MaxVersions
    /\ \E stored \in StorageStatuses, auto \in Mappings, passes \in BOOLEAN :
        IF stored \notin StorageAllowed \/ TagTaken(d, tag)
        THEN UNCHANGED <<datasets, versions>>
        ELSE /\ datasets' = IF new THEN datasets + 1 ELSE datasets
             /\ versions' = Append(versions,
                    [dataset |-> d, tag |-> tag, parent |-> hub[r].parent,
                     status |-> "UPLOADED", mapping |-> auto, canonical |-> NoMapping,
                     passes |-> passes, reported |-> FALSE, tainted |-> FALSE])
    /\ HubAnswer(r)
    /\ UNCHANGED hubSchema

-----------------------------------------------------------------------------
(* apply_mappings *)

\* Mutant: an approved version keeps its status.
RemappedKeepsApproved(status) ==
    IF status \in {"UPLOADED", "VALIDATED"} THEN "MAPPED" ELSE status

Remapped(status) ==
    IF status \in {"UPLOADED", "VALIDATED", "APPROVED_FOR_TRAINING"} THEN "MAPPED" ELSE status

\* A failed audit INSERT aborts the transaction, the handler swallows the error
\* and the COMMIT rolls the mapping back.
ApplyMappings(r) ==
    /\ hub[r].pc = "idle"
    /\ \E v \in DOMAIN versions, m \in Mappings, audited \in BOOLEAN :
        IF audited
        THEN /\ versions' = [versions EXCEPT ![v].mapping = m,
                                             ![v].status = Remapped(versions[v].status)]
             /\ hub' = [q \in HubRequests |->
                          IF hub[q].version = v THEN [hub[q] EXCEPT !.clean = FALSE] ELSE hub[q]]
        ELSE UNCHANGED <<versions, hub>>
    /\ UNCHANGED <<hubSchema, datasets>>

-----------------------------------------------------------------------------
(* run_validation *)

\* The row, then the file's content.  A file that cannot be had ends it.
ValidateRead(r) ==
    /\ hub[r].pc = "idle"
    /\ \E v \in DOMAIN versions :
        hub' = [hub EXCEPT ![r].pc = "report", ![r].version = v]
    /\ UNCHANGED <<hubSchema, datasets, versions>>

\* init.sql admits a quality_score between 0 and 1; the report's is out of 100
\* and 0 only when errors use up the score.
ScoreAdmitted(passes) == hubSchema = "init.sql" => ~passes

ValidateReport(r) ==
    LET v == hub[r].version IN
    /\ hub[r].pc = "report"
    /\ ScoreAdmitted(versions[v].passes)
    /\ versions' = [versions EXCEPT ![v].reported = TRUE]
    /\ HubGoto(r, IF versions[v].passes THEN "mappings" ELSE "failed")
    /\ UNCHANGED <<hubSchema, datasets>>

ValidateReadMappings(r) ==
    /\ hub[r].pc = "mappings"
    /\ hub' = [hub EXCEPT ![r].pc = "canonical", ![r].seen = versions[hub[r].version].mapping]
    /\ UNCHANGED <<hubSchema, datasets, versions>>

\* The canonical snapshot is stored and the version marked, whatever its status
\* has become.
ValidateCommit(r) ==
    /\ hub[r].pc = "canonical"
    /\ versions' = [versions EXCEPT ![hub[r].version].status = "VALIDATED",
                                    ![hub[r].version].canonical = hub[r].seen,
                                    ![hub[r].version].tainted = ~hub[r].clean]
    /\ HubAnswer(r)
    /\ UNCHANGED <<hubSchema, datasets>>

\* Any exception from the reading of the mappings to that UPDATE: marked without
\* a new snapshot.
ValidateFallback(r) ==
    /\ hub[r].pc \in {"mappings", "canonical"}
    /\ versions' = [versions EXCEPT ![hub[r].version].status = "VALIDATED",
                                    ![hub[r].version].tainted = TRUE]
    /\ HubAnswer(r)
    /\ UNCHANGED <<hubSchema, datasets>>

\* init.sql has no status VALIDATION_FAILED: the UPDATE is refused.
ValidateFailed(r) ==
    /\ hub[r].pc = "failed"
    /\ versions' = IF hubSchema = "init.sql" THEN versions
                   ELSE [versions EXCEPT ![hub[r].version].status = "VALIDATION_FAILED"]
    /\ HubAnswer(r)
    /\ UNCHANGED <<hubSchema, datasets>>

-----------------------------------------------------------------------------
(* approve_version *)

ApproveRead(r) ==
    /\ hub[r].pc = "idle"
    /\ \E v \in DOMAIN versions :
        /\ versions[v].status = "VALIDATED"
        /\ hub' = [hub EXCEPT ![r].pc = "approve", ![r].version = v]
    /\ UNCHANGED <<hubSchema, datasets, versions>>

ApproveCommit(r) ==
    /\ hub[r].pc = "approve"
    /\ \E audited \in BOOLEAN :
        versions' = IF ~audited THEN versions
                    ELSE [versions EXCEPT
                            ![hub[r].version].status = "APPROVED_FOR_TRAINING",
                            ![hub[r].version].tainted = @ \/ ~hub[r].clean]
    /\ HubAnswer(r)
    /\ UNCHANGED <<hubSchema, datasets>>

\* An error of the database, or the process restarts.
HubAbort(r) ==
    /\ hub[r].pc # "idle"
    /\ HubAnswer(r)
    /\ UNCHANGED <<hubSchema, datasets, versions>>

HubStep(r) ==
    \/ UploadFindDataset(r) \/ UploadFindLatest(r) \/ UploadCommit(r)
    \/ ApplyMappings(r)
    \/ ValidateRead(r) \/ ValidateReport(r) \/ ValidateReadMappings(r)
    \/ ValidateCommit(r) \/ ValidateFallback(r) \/ ValidateFailed(r)
    \/ ApproveRead(r) \/ ApproveCommit(r)
    \/ HubAbort(r)

HubNext == \E r \in HubRequests : HubStep(r)

HubSpec == HubInit /\ [][HubNext]_hubVars

-----------------------------------------------------------------------------
\* A version's parent is the version of the same dataset with the tag before its
\* own, and no two versions have the same parent: concurrent uploads that
\* compute the same tag (data_hub.py:130) do not fork the lineage.
LineageNeverForks ==
    /\ \A v \in DOMAIN versions :
        IF versions[v].parent = 0 THEN versions[v].tag = 1
        ELSE /\ versions[v].parent \in 1..(v - 1)
             /\ versions[versions[v].parent].dataset = versions[v].dataset
             /\ versions[v].tag = versions[versions[v].parent].tag + 1
    /\ \A v, w \in DOMAIN versions :
        versions[v].parent = versions[w].parent /\ versions[v].dataset = versions[w].dataset => v = w

\* A version that training accepts has a stored report, and its content passed.
UsableHasPassed ==
    \A v \in DOMAIN versions :
        versions[v].status \in Usable => versions[v].reported /\ versions[v].passes

\* The canonical snapshot of a version that training accepts was made with the
\* mapping it has now, unless a mapping was committed in the middle of its
\* validation or approval (data_hub.py:453, :539) or its canonicalisation failed
\* (:463): these are the only ways to train on a stale snapshot.
SnapshotIsOfMapping ==
    \A v \in DOMAIN versions :
        versions[v].status \in Usable /\ ~versions[v].tainted
            => versions[v].canonical = versions[v].mapping

\* The versions of a dataset are sound: their lineage is a chain, a version that
\* may be trained on passed its validation, and its snapshot is of its mapping
\* unless a mapping came in between, whatever uploads, mappings and approvals
\* interleave.
VersionsSound ==
    HubTypeOK /\ LineageNeverForks /\ UsableHasPassed /\ SnapshotIsOfMapping
=============================================================================
