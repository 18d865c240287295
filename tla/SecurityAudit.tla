------------------------------ MODULE SecurityAudit ------------------------------
(***************************************************************************)
(* The response to an artifact that failed its check (core/security/         *)
(* recovery.py) and the audit log it leaves (core/security/audit.py): events *)
(* in memory and in a file of lines, one appended at a time.  A write may    *)
(* fail or be cut off, which leaves a line without its end, or even without   *)
(* the rest of a character; the process may die and replay the file, unless   *)
(* it does not decode.  Meanwhile a running pipeline adds checkpoints.       *)
(***************************************************************************)
EXTENDS SequencesExt, Subsequences

CONSTANTS
    AuditExecutions,
    NewCheckpoints,     \* [execution, status, hashed], the checkpoints a pipeline may add
    MaxFailures, MaxTorn, MaxCheckpoints

ASSUME AuditAssumption == {MaxFailures, MaxTorn, MaxCheckpoints} \subseteq Nat

VARIABLES
    memory,         \* the events in memory
    file,           \* the lines of the file, each a sequence of events
    open,           \* the last line has no end
    decodable,      \* no line was cut off within a character
    opened,         \* the process has a log; opening one raises if the file does not decode
    torn,           \* lines cut off, or not written, so far
    returned,       \* the events whose recording returned
    checkpoints,    \* the checkpoints, oldest first
    handling,       \* the failure being handled, or <<>>
    quarantine, responses,
    failures

auditVars == <<memory, file, open, decodable, opened, torn, returned, checkpoints, handling, quarantine, responses, failures>>

AuditInit ==
    /\ memory = <<>> /\ file = <<>> /\ open = FALSE /\ torn = 0 /\ returned = {}
    /\ decodable = TRUE /\ opened = TRUE
    /\ checkpoints = <<>>
    /\ handling = <<>> /\ quarantine = <<>> /\ responses = <<>> /\ failures = 0

Event(kind, n) == [kind |-> kind, failure |-> n]
CutOff == Event("cut off", 0)

-----------------------------------------------------------------------------
\* JsonlAuditBackend

\* A line that follows one without its end becomes part of it.
WithLine(fragment) ==
    IF open THEN Append(Front(file), Append(Last(file), fragment)) ELSE Append(file, <<fragment>>)

Readable(line) == Len(line) = 1 /\ line[1] # CutOff

\* Mutant: reading stops at the first line that cannot be parsed.
ReplayedUntilBad(lines) ==
    LET bad == {i \in DOMAIN lines : ~Readable(lines[i])}
        last == IF bad = {} THEN Len(lines) ELSE (CHOOSE i \in bad : \A j \in bad : i <= j) - 1
    IN [i \in 1 .. last |-> lines[i][1]]

\* _replay of a file that decodes: lines that cannot be parsed are skipped.
Replayed(lines) ==
    LET good == Picked(lines, {i \in DOMAIN lines : Readable(lines[i])})
    IN [i \in DOMAIN good |-> good[i][1]]

\* The line is cut off, within a character if it has one of several bytes.
CutLine(wide) ==
    /\ torn < MaxTorn /\ torn' = torn + 1
    /\ file' = WithLine(CutOff) /\ open' = TRUE
    /\ decodable' \in IF wide THEN {decodable, FALSE} ELSE {decodable}

\* append: memory first; a write that fails is a warning.
Logged(event, wide) ==
    /\ memory' = Append(memory, event)
    /\ returned' = returned \cup {event}
    /\ \/ file' = WithLine(event) /\ open' = FALSE /\ UNCHANGED <<decodable, torn>>
       \/ CutLine(wide)
       \/ torn < MaxTorn /\ torn' = torn + 1 /\ UNCHANGED <<file, open, decodable>>
    /\ UNCHANGED opened

-----------------------------------------------------------------------------
\* The checkpoints a rollback may use

AddCheckpoint ==
    /\ Len(checkpoints) < MaxCheckpoints
    /\ \E c \in NewCheckpoints : checkpoints' = Append(checkpoints, c)
    /\ UNCHANGED <<memory, file, open, decodable, opened, torn, returned, handling, quarantine, responses, failures>>

\* assess_checkpoint_trust: of the checkpoint's data nothing but the presence of a
\* hash is looked at.
Trusted(c) == c.status = "passed" /\ c.hashed

\* The newest trusted one of the execution; of all only when it has none of its own.
\* 0 when there is none.
TrustedCheckpoint(execution) ==
    LET own == {i \in DOMAIN checkpoints : checkpoints[i].execution = execution}
        candidates == IF own = {} THEN DOMAIN checkpoints ELSE own
        trusted == {i \in candidates : Trusted(checkpoints[i])}
    IN IF trusted = {} THEN 0 ELSE CHOOSE i \in trusted : \A j \in trusted : j <= i

-----------------------------------------------------------------------------
\* handle_integrity_failure

Statuses == {"failed", "no_manifest", "artifact_missing"}

BeginHandling ==
    /\ opened /\ handling = <<>> /\ failures < MaxFailures
    /\ failures' = failures + 1
    /\ \E execution \in AuditExecutions, status \in Statuses :
         handling' = <<[n |-> failures', execution |-> execution, status |-> status, pc |-> "record"]>>
    /\ UNCHANGED <<memory, file, open, decodable, opened, torn, returned, checkpoints, quarantine, responses>>

ActionFor(status, trusted) ==
    CASE status = "failed" -> IF trusted # 0 THEN "quarantine_and_rollback" ELSE "quarantine_manual_review"
      [] status = "no_manifest" -> IF trusted # 0 THEN "rollback_to_trusted" ELSE "block_and_review"
      [] OTHER -> "block_and_review"

\* The line at hand has a character of several bytes: the dash or the dots in the
\* reason of a failed check, the dash in the rationale of a rollback.
Wide(h) ==
    \/ h.pc = "record" /\ h.status # "artifact_missing"
    \/ h.pc = "decide" /\ ActionFor(h.status, TrustedCheckpoint(h.execution)) = "quarantine_and_rollback"

RecordFailure ==
    /\ handling # <<>> /\ handling[1].pc = "record"
    /\ Logged(Event("failed", handling[1].n), Wide(handling[1]))
    /\ handling' = [handling EXCEPT ![1].pc = "quarantine"]
    /\ UNCHANGED <<checkpoints, quarantine, responses, failures>>

QuarantineArtifact ==
    /\ handling # <<>> /\ handling[1].pc = "quarantine"
    /\ quarantine' = Append(quarantine, handling[1].n)
    /\ Logged(Event("quarantined", handling[1].n), Wide(handling[1]))
    /\ handling' = [handling EXCEPT ![1].pc = "decide"]
    /\ UNCHANGED <<checkpoints, responses, failures>>

Decide ==
    /\ handling # <<>> /\ handling[1].pc = "decide"
    /\ LET trusted == TrustedCheckpoint(handling[1].execution)
       IN responses' = Append(responses,
            [n |-> handling[1].n, execution |-> handling[1].execution, status |-> handling[1].status,
             checkpoint |-> trusted, action |-> ActionFor(handling[1].status, trusted)])
    /\ Logged(Event("decided", handling[1].n), Wide(handling[1]))
    /\ handling' = <<>>
    /\ UNCHANGED <<checkpoints, quarantine, failures>>

\* The process dies, in the middle of a line or not, and starts again.
AuditRestart ==
    /\ failures > 0
    /\ \/ UNCHANGED <<file, open, decodable, torn>>
       \/ handling # <<>> /\ CutLine(Wide(handling[1]))
    /\ opened' = decodable'
    /\ memory' = IF decodable' THEN Replayed(file') ELSE <<>>
    /\ handling' = <<>> /\ quarantine' = <<>>
    /\ UNCHANGED <<returned, checkpoints, responses, failures>>

AuditNext ==
    AuditRestart \/ AddCheckpoint \/ BeginHandling \/ RecordFailure \/ QuarantineArtifact \/ Decide

AuditSpec == AuditInit /\ [][AuditNext]_auditVars

-----------------------------------------------------------------------------
\* What is found of the recorded events: the log, or the lines that somebody could
\* still read in a file that the log does not open with.
Found == Range(IF opened THEN memory ELSE Replayed(file))

\* Events are discarded, although audit.py:11 and :152 say never silently: a line that
\* was cut off is skipped at the next start, or keeps the log from opening at all
\* (audit.py:93).  But no more are lost than two for every such line, the event itself
\* and the one whose line it took, after any number of restarts.
EventsLostAreCounted ==
    Cardinality(returned \ Found) <= 2 * torn

\* The log tells a response whole and in order: as long as no line was cut off it opens
\* after every crash, and a decision in it has the quarantine before it and the failure
\* before that, also when the process died and the log was read back in between.
LogTellsTheWhole ==
    torn = 0 =>
        /\ opened
        /\ \A k \in DOMAIN memory : memory[k].kind = "decided" =>
             \E i, j \in 1 .. k : /\ i < j /\ j < k
                                  /\ memory[i] = Event("failed", memory[k].failure)
                                  /\ memory[j] = Event("quarantined", memory[k].failure)

\* A rollback goes to a checkpoint that passed its validation and has a hash, of the
\* execution itself if it had left any checkpoint by then (recovery.py:267).
RollbackIsTrusted ==
    \A i \in DOMAIN responses :
        responses[i].action \in {"quarantine_and_rollback", "rollback_to_trusted"} =>
            /\ responses[i].status \in {"failed", "no_manifest"}
            /\ LET c == checkpoints[responses[i].checkpoint]
               IN /\ c.status = "passed" /\ c.hashed
                  /\ c.execution # responses[i].execution =>
                       \A k \in 1 .. responses[i].checkpoint :
                            checkpoints[k].execution # responses[i].execution

\* What the security log is worth after restarts and torn writes: no more than two
\* events are lost for a line that was cut off, without one a response is in it whole
\* and in order, and a rollback is to a checkpoint that can be trusted.
AuditSound == EventsLostAreCounted /\ LogTellsTheWhole /\ RollbackIsTrusted
===============================================================================
