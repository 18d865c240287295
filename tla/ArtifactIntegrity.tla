---------------------------- MODULE ArtifactIntegrity ----------------------------
(***************************************************************************)
(* A model artifact on disk and the manifest beside it (ModelArtifact of     *)
(* core/inference/engine.py, core/integrity/checker.py).  The artifact is    *)
(* written in place and then read back for its checksum; the manifest is     *)
(* written to a temporary file and renamed.  A process may die between any   *)
(* two steps, somebody else may change the file, and readers load the        *)
(* artifact first and verify the file afterwards: the status they attach to  *)
(* the object they loaded is the one of the file at that later time.         *)
(*                                                                         *)
(* A content is its own checksum: <<"saved", n>>, <<"changed", n>>, or       *)
(* "torn", which no model can be read from.                                 *)
(***************************************************************************)
EXTENDS Naturals

CONSTANTS Loaders, MaxSaves, MaxChanges

ASSUME ArtifactAssumption == MaxSaves \in Nat /\ MaxChanges \in Nat

VARIABLES
    artifact,   \* the content of the file, or <<"absent">>
    manifest,   \* the checksum in the manifest, <<"absent">>, or <<"torn">>
    saver,      \* where the save in progress is
    checksum,   \* the checksum it computed
    saves, changes,
    late,       \* changes made when no save was about to compute a checksum
    loader      \* for each loader [pc, loaded, since, expected, actual, status]: the content
                \* of the object, the saves begun by the time it was loaded, and the check

artifactVars == <<artifact, manifest, saver, checksum, saves, changes, late, loader>>

Absent == <<"absent">>
Torn == <<"torn">>
NotLoading == [pc |-> "idle", loaded |-> Absent, since |-> 0,
               expected |-> Absent, actual |-> Absent, status |-> "unverified"]

ArtifactInit ==
    /\ artifact = Absent /\ manifest = Absent
    /\ saver = "idle" /\ checksum = Absent
    /\ saves = 0 /\ changes = 0 /\ late = {}
    /\ loader = [l \in Loaders |-> NotLoading]

-----------------------------------------------------------------------------
\* ModelArtifact.save

DumpBegin ==
    /\ saver = "idle" /\ saves < MaxSaves
    /\ saves' = saves + 1
    /\ artifact' = Torn
    /\ saver' = "dumping"
    /\ UNCHANGED <<manifest, checksum, changes, late, loader>>

DumpEnd ==
    /\ saver = "dumping"
    /\ artifact' = <<"saved", saves>>
    /\ saver' = "dumped"
    /\ UNCHANGED <<manifest, checksum, saves, changes, late, loader>>

\* Nothing is cleaned up after a dump that raises.
DumpFails ==
    /\ saver = "dumping"
    /\ saver' = "idle"
    /\ UNCHANGED <<artifact, manifest, checksum, saves, changes, late, loader>>

ComputeChecksum ==
    /\ saver = "dumped"
    /\ checksum' = artifact
    /\ saver' = "writing"
    /\ UNCHANGED <<artifact, manifest, saves, changes, late, loader>>

\* What the manifest is while its new content is being written elsewhere.
ManifestMeanwhile == manifest

WriteTemporary ==
    /\ saver = "writing"
    /\ manifest' = ManifestMeanwhile
    /\ saver' = "renaming"
    /\ UNCHANGED <<artifact, checksum, saves, changes, late, loader>>

\* The rename, or the exception that save() passes over; an older manifest then stays.
RenameManifest ==
    /\ saver = "renaming"
    /\ manifest' \in {checksum, manifest}
    /\ saver' = "idle" /\ checksum' = Absent
    /\ UNCHANGED <<artifact, saves, changes, late, loader>>

SaverDies ==
    /\ saver # "idle"
    /\ saver' = "idle" /\ checksum' = Absent
    /\ UNCHANGED <<artifact, manifest, saves, changes, late, loader>>

SomebodyChanges ==
    /\ changes < MaxChanges /\ artifact # Absent /\ saver # "dumping"
    /\ changes' = changes + 1
    /\ artifact' = <<"changed", changes'>>
    /\ late' = IF saver = "dumped" THEN late ELSE late \cup {artifact'}
    /\ UNCHANGED <<manifest, saver, checksum, saves, loader>>

-----------------------------------------------------------------------------
\* ModelArtifact.load and ArtifactIntegrityChecker.verify

LoadArtifact(l) ==
    /\ loader[l].pc = "idle" /\ artifact \notin {Absent, Torn}
    /\ loader' = [loader EXCEPT ![l].pc = "loaded", ![l].loaded = artifact, ![l].since = saves]
    /\ UNCHANGED <<artifact, manifest, saver, checksum, saves, changes, late>>

\* Mutant: an artifact without a manifest is as good as one that matches it.
WithoutManifestPassed == "passed"

WithoutManifest == "no_manifest"

ReadManifest(l) ==
    /\ loader[l].pc = "loaded"
    /\ loader' = [loader EXCEPT
         ![l].expected = manifest,
         ![l].pc = IF manifest \in {Absent, Torn} THEN "told" ELSE "manifest",
         ![l].actual = IF manifest \in {Absent, Torn} THEN artifact ELSE @,
         ![l].status = CASE manifest = Absent -> WithoutManifest
                         [] manifest = Torn -> "failed"
                         [] OTHER -> @]
    /\ UNCHANGED <<artifact, manifest, saver, checksum, saves, changes, late>>

CompareChecksum(l) ==
    /\ loader[l].pc = "manifest"
    /\ loader' = [loader EXCEPT
         ![l].actual = artifact,
         ![l].status = IF artifact = loader[l].expected THEN "passed" ELSE "failed",
         ![l].pc = "told"]
    /\ UNCHANGED <<artifact, manifest, saver, checksum, saves, changes, late>>

\* The artifact is used, whatever its status: load is not strict (inference.py:60).
FinishLoad(l) ==
    /\ loader[l].pc = "told"
    /\ loader' = [loader EXCEPT ![l] = NotLoading]
    /\ UNCHANGED <<artifact, manifest, saver, checksum, saves, changes, late>>

ArtifactNext ==
    \/ DumpBegin \/ DumpEnd \/ DumpFails \/ ComputeChecksum \/ WriteTemporary \/ RenameManifest
    \/ SaverDies \/ SomebodyChanges
    \/ \E l \in Loaders : LoadArtifact(l) \/ ReadManifest(l) \/ CompareChecksum(l) \/ FinishLoad(l)

ArtifactSpec == ArtifactInit /\ [][ArtifactNext]_artifactVars

-----------------------------------------------------------------------------
\* A file that was changed behind the manifest's back never verifies, whatever saves
\* failed or died around it: only a change between a dump and its checksum can be
\* blessed (checker.py:121).  The status is the file's, read after the object
\* (engine.py:217, :226): a changed object reads "passed" only if a save was begun
\* between its load and the check, and then it may (engine.py:156 says otherwise).
LateChangeNeverPasses ==
    \A l \in Loaders : loader[l].status = "passed" =>
        /\ loader[l].actual \notin late
        /\ loader[l].loaded \in late => loader[l].since < saves

\* An artifact that was saved once is never told to be modified unless it was, also
\* when its save died half-way or is still running: a reader finds no manifest or a
\* whole one (checker.py:424).
NoFalseAlarm ==
    saves = 1 /\ changes = 0 => \A l \in Loaders : loader[l].status # "failed"

\* What the status of a loaded artifact is worth although another process replaces
\* the file and its manifest between the reads: the file it was taken of was not
\* changed behind its manifest, nor was the object unless a save overtook the load;
\* and a file that nobody changed raises no alarm.
ArtifactSound == LateChangeNeverPasses /\ NoFalseAlarm
===============================================================================
