-------------------------------- MODULE MineState --------------------------------
(***************************************************************************)
(* The operational state of a mine (core/state_engine.py) and the ranked    *)
(* queue of what needs attention (core/attention.py).                       *)
(*                                                                         *)
(* Five checks read the database concurrently, each for itself, while the   *)
(* records change; a check may raise.  What they find is [severity,         *)
(* evaluated, impact, backed]: the tonnage at stake, or Null, and whether   *)
(* a measurement, rather than a heuristic, backs it.                        *)
(***************************************************************************)
EXTENDS OperationalState, Integers, FiniteSets, Sequences, SequencesExt, Subsequences

CONSTANTS
    Mines,      \* what the records of a mine may say
    Change(_),  \* what they say after a change
    Limits      \* how many items a caller asks for

Unknown == -1
MineRecord ==
    [shifts : Seq([planned : Nat, actual : Nat]), machines : Nat, flagged : Nat, output : Nat,
     overdue : Nat \cup {Unknown}, capacity : Nat \cup {Unknown}, throughput : Nat, incidents : SUBSET STRING]

ASSUME MineAssumption ==
    /\ Mines \subseteq MineRecord /\ \A m \in Mines : Change(m) \subseteq MineRecord
    /\ Limits \subseteq Nat \ {0}

VARIABLES
    mine,       \* what the records say
    viewed,     \* what they said since the evaluation began
    findings,   \* what each check found
    failed,     \* the checks that raised
    told,       \* the state told, or "none"
    attention   \* the queue built from it: [items, suppressed]

mineVars == <<mine, viewed, findings, failed, told, attention>>

Checks == <<"production_gap", "equipment_risk", "maintenance_overdue", "bottleneck", "open_incidents">>
CheckKeys == Range(Checks)
NoQueue == [items |-> <<>>, suppressed |-> Unknown]

Finding(severity, impact, backed) ==
    [severity |-> severity, evaluated |-> TRUE, impact |-> impact, backed |-> backed]
Insufficient(severity) ==
    [severity |-> severity, evaluated |-> FALSE, impact |-> Unknown, backed |-> FALSE]

MineInit ==
    /\ mine \in Mines
    /\ viewed = {mine}
    /\ findings = [c \in CheckKeys |-> Insufficient("NONE")]
    /\ failed = {}
    /\ told = "none"
    /\ attention = NoQueue

MineChanges ==
    /\ told = "none" /\ viewed = {mine}
    /\ mine' \in Change(mine)
    /\ viewed' = viewed \cup {mine'}
    /\ UNCHANGED <<findings, failed, told, attention>>

-----------------------------------------------------------------------------
\* The checks, on what the records say at the moment each reads them.

GapThresholds == [WATCH |-> 5, DISRUPTION |-> 12, CRITICAL |-> 25]         \* percent of the plan
ShareThresholds == [WATCH |-> 35, DISRUPTION |-> 55]                       \* percent of the machines
OverdueThresholds == [WATCH |-> 7, DISRUPTION |-> 21]                      \* days
UtilisationThresholds == [WATCH |-> 85, DISRUPTION |-> 95]                 \* percent of the capacity

\* Percentages are compared by their numerators, so that nothing is rounded.
Times(whole, thresholds) == [s \in DOMAIN thresholds |-> whole * thresholds[s]]

\* The planned or the actual production of the last five shifts.
Sum(m, field) == Total([i \in DOMAIN m.shifts |-> m.shifts[i][field]])

\* Mutant: a shift that made more than its plan does not make up for another.
ProductionCheckByShift(m) ==
    LET short(s) == IF s.actual < s.planned THEN s.planned - s.actual ELSE 0
        gap == Total([i \in DOMAIN m.shifts |-> short(m.shifts[i])])
        planned == Sum(m, "planned")
    IN IF planned <= 0 THEN Insufficient("NONE")
       ELSE Finding(Graded(100 * gap, Times(planned, GapThresholds)), gap \div Len(m.shifts), TRUE)

\* The shifts together.
ProductionCheck(m) ==
    LET planned == Sum(m, "planned")
        gap == planned - Sum(m, "actual")
    IN IF planned <= 0 THEN Insufficient("NONE")
       ELSE Finding(Graded(100 * gap, Times(planned, GapThresholds)), gap \div Len(m.shifts), TRUE)

EquipmentCheck(m) ==
    IF m.machines = 0 THEN Insufficient("NONE")
    ELSE Finding(Graded(100 * m.flagged, Times(m.machines, ShareThresholds)),
                 IF m.flagged = 0 THEN Unknown ELSE m.flagged * m.output, FALSE)

MaintenanceCheck(m) ==
    IF m.overdue = Unknown THEN Insufficient("NONE")
    ELSE Finding(Graded(m.overdue, OverdueThresholds), Unknown, FALSE)

\* What bottleneck.analyse reports; a stage beyond its capacity has a headroom
\* that is only a heuristic.
BottleneckCheck(m) ==
    IF m.capacity = Unknown THEN Insufficient("NONE")
    ELSE LET beyond == m.throughput > m.capacity
             headroom == IF beyond THEN m.throughput - m.capacity ELSE m.capacity - m.throughput
         IN Finding(Graded(100 * m.throughput, Times(m.capacity, UtilisationThresholds)), headroom, ~beyond)

IncidentCheck(m) ==
    Finding(CASE "CRITICAL" \in m.incidents -> "CRITICAL"
              [] "HIGH" \in m.incidents /\ "CRITICAL" \notin m.incidents -> "DISRUPTION"
              [] m.incidents # {} /\ m.incidents \cap {"HIGH", "CRITICAL"} = {} -> "WATCH"
              [] OTHER -> "NONE",
            Unknown, FALSE)

Check(key, m) ==
    CASE key = "production_gap" -> ProductionCheck(m)
      [] key = "equipment_risk" -> EquipmentCheck(m)
      [] key = "maintenance_overdue" -> MaintenanceCheck(m)
      [] key = "bottleneck" -> BottleneckCheck(m)
      [] key = "open_incidents" -> IncidentCheck(m)

\* _collect and _state_from: every check has read some version of the records; one
\* that raised is reported as WATCH and INSUFFICIENT_DATA, and so not counted.
Collect ==
    /\ told = "none"
    /\ failed' \in SUBSET CheckKeys
    /\ \E read \in [CheckKeys -> viewed] :
        findings' = [c \in CheckKeys |-> IF c \in failed' THEN Insufficient("WATCH") ELSE Check(c, read[c])]
    /\ told' = StateFrom({findings'[c].severity : c \in {d \in CheckKeys : findings'[d].evaluated}})
    /\ UNCHANGED <<mine, viewed, attention>>

-----------------------------------------------------------------------------
\* The attention queue.  Weights in tenths and hundredths, impacts in tonnes.

SeverityWeight == [CRITICAL |-> 40, DISRUPTION |-> 30, WATCH |-> 15, NONE |-> 0]
Urgency == [production_gap |-> 10, equipment_risk |-> 12, bottleneck |-> 9,
            maintenance_overdue |-> 6, open_incidents |-> 11]

\* _evidence_grade, for a finding that was evaluated; the impact may turn out unknown.
EvidenceWeight(finding) ==
    IF finding.impact = Unknown THEN 60 ELSE IF finding.backed THEN 100 ELSE 85

\* Up to half as much again for the tonnage.
ImpactBonus(impact) ==
    LET tonnage == IF impact = Unknown THEN 0 ELSE IF impact < 0 THEN -impact ELSE impact
    IN 1000 + (IF tonnage > 500 THEN 500 ELSE tonnage)

Score(key, finding) ==
    SeverityWeight[finding.severity] * Urgency[key] * EvidenceWeight(finding) * ImpactBonus(finding.impact)

\* What needs attention, by the places of the checks.
Needing(f) == {i \in DOMAIN Checks : f[Checks[i]].evaluated /\ f[Checks[i]].severity # "NONE"}

\* Sorted by score; equal scores stay in the order of the checks.
Queued(f) ==
    LET score(i) == Score(Checks[i], f[Checks[i]])
    IN InOrder(Needing(f), {p \in Needing(f) \X Needing(f) :
                              \/ score(p[1]) > score(p[2])
                              \/ score(p[1]) = score(p[2]) /\ p[1] < p[2]})

Listed(ranked, limit) ==
    LET shown == IF Len(ranked) < limit THEN Len(ranked) ELSE limit
    IN [items |-> [n \in 1..shown |-> Checks[ranked[n]]], suppressed |-> Len(ranked) - shown]

\* build, from the findings the state was told from; the query for what the flagged
\* machines produce may fail or find nothing.
BuildAttention ==
    /\ told # "none" /\ attention = NoQueue
    /\ \E limit \in Limits, lost \in BOOLEAN :
        attention' = Listed(Queued(IF lost THEN [findings EXCEPT !["equipment_risk"].impact = Unknown]
                                   ELSE findings), limit)
    /\ UNCHANGED <<mine, viewed, findings, failed, told>>

MineNext == MineChanges \/ Collect \/ BuildAttention

MineSpec == MineInit /\ [][MineNext]_mineVars

-----------------------------------------------------------------------------
\* The state that is told is one the mine was in: when the records did not change
\* and no check raised, it is CRITICAL exactly when a critical incident is open or
\* a quarter of the plan is missing, and a NORMAL mine is missing less than 5 % of
\* its plan, has fewer than 35 % of its machines flagged, none a week overdue and
\* no open incident (state_engine.py:62, :623).
ToldStateIsWarranted ==
    told # "none" /\ failed = {} /\ viewed = {mine} =>
        LET missing(percent) ==
                100 * (Sum(mine, "planned") - Sum(mine, "actual")) >= percent * Sum(mine, "planned")
        IN /\ told = "CRITICAL" <=>
                "CRITICAL" \in mine.incidents \/ (Sum(mine, "planned") > 0 /\ missing(25))
           /\ told = "NORMAL" =>
                /\ mine.incidents = {} /\ mine.overdue < 7
                /\ Sum(mine, "planned") > 0 => ~missing(5)
                /\ mine.machines > 0 => 100 * mine.flagged < 35 * mine.machines

\* The queue and the state are about the same findings (attention.py:240): in the queue
\* of a mine that is not NORMAL there is an item as severe as its state among the first
\* four, whatever tonnages are at stake.  Three less severe items may come first.
AttentionShowsTheWorst ==
    /\ attention # NoQueue /\ told \notin {"UNKNOWN", "NORMAL"}
    /\ attention.suppressed = 0 \/ Len(attention.items) >= 4
    => \E i \in DOMAIN attention.items : i <= 4 /\ findings[attention.items[i]].severity = told

\* A large tonnage does not promote a low-severity item above a critical one
\* (attention.py:268).
WatchBelowCritical ==
    LET severity(i) == findings[attention.items[i]].severity
    IN \A i, j \in DOMAIN attention.items : severity(i) = "CRITICAL" /\ severity(j) = "WATCH" => i < j

\* The summary of the mine is honest: the state it tells is warranted by a check,
\* its attention list keeps the worst when it is cut, and a watch never outranks
\* a critical item.
MineSound == ToldStateIsWarranted /\ AttentionShowsTheWorst /\ WatchBelowCritical
===============================================================================
