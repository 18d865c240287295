----------------------------- MODULE MCSequential -----------------------------
(* Parts of the gateway and the engine without fairness, for TLC.  A          *)
(* behaviour is about one of them, chosen at the start:                        *)
(*   l1:        three keys for two places make every eviction order happen; one *)
(*              adjustment of the wall clock separates the two clocks;          *)
(*   decisions: two requests on two decisions, by four roles that differ in     *)
(*              what they may do;                                              *)
(*   memo:      two callers and two keys for one place;                         *)
(*   clock:     two requests for the state of the platform;                     *)
(*   flow:      two analyses of a mine that records two shifts, after which its *)
(*              machines stay the same;                                         *)
(*   mine:      one evaluation of a mine whose records change once;             *)
(*   scenario:  two requests for one objective, of three kinds, on records that *)
(*              change once;                                                    *)
(*   artifact:  two saves, two changes by others, two readers;                  *)
(*   audit:     two failures handled while a pipeline adds two checkpoints, and *)
(*              one line that is cut or not written;                            *)
(*   training:  a dataset of six rows, a target and at most three other columns *)
(*              out of thirteen, in an order; at most two, in its reverse too.  *)
EXTENDS L1Cache, Decisions, Memo, MineClock, MaterialFlow, MineState, Scenarios,
        ArtifactIntegrity, SecurityAudit, ModelTraining

CONSTANTS e1, e2

VARIABLE part

MCVars == <<part, l1Vars, decisionVars, memoVars, clockVars, flowVars, mineVars, scenarioVars, artifactVars, auditVars, trainingVars>>

\* Shifts that differ in which stage constrains them and in what was not recorded.
MCShift(actual, ore, plant, loading, cycle, active, stock) ==
    [actual |-> actual, ore |-> ore, plant |-> plant, loading |-> loading, cycle |-> cycle,
     queue |-> 5, hours |-> 8, active |-> active, stock |-> stock]

MCShifts == {MCShift(400, 500, 420, 80, 25, 10, 300), MCShift(300, 310, 500, 40, 25, 10, 900),
             MCShift(0, Null, 400, Null, 55, 2, Null)}

MCFleets == {[machines |-> 10, trucks |-> 4, payload |-> 9], [machines |-> 10, trucks |-> 0, payload |-> Null]}

\* Mines at and around the thresholds.
MCPlans == {<<>>, <<[planned |-> 800, actual |-> 600]>>,
            <<[planned |-> 1000, actual |-> 400], [planned |-> 1000, actual |-> 1600]>>,
            <<[planned |-> 8000, actual |-> 7500]>>}

\* A throughput says nothing where the capacity is unknown; the middle values of
\* throughput, machines and incidents are not combined with every count of overdue work.
MCMines ==
    {m \in [shifts : MCPlans, machines : {10}, flagged : {0, 4, 6}, output : {200},
            overdue : {Unknown, 6, 30}, capacity : {Unknown, 1000}, throughput : {600, 900, 1100},
            incidents : {{}, {"HIGH"}, {"LOW", "CRITICAL"}}] :
        /\ m.capacity = Unknown => m.throughput = 600
        /\ m.throughput = 900 \/ m.flagged = 4 \/ m.incidents = {"HIGH"} => m.overdue = Unknown}

MCChange(m) == {[m EXCEPT !.incidents = {"CRITICAL"}], [m EXCEPT !.incidents = {}, !.flagged = 0]}

\* A mine in good order, and what may become of it.
MCResponse(redeploy, trim) ==
    [equipment_redeploy |-> redeploy, fleet_reroute |-> Unstated, crusher_speed_trim |-> trim,
     blast_reschedule |-> 7, maintenance_defer |-> Unstated, extend_operating_hours |-> 40]

MCCost(redeploy, defer) ==
    [equipment_redeploy |-> redeploy, fleet_reroute |-> 80, crusher_speed_trim |-> 60,
     blast_reschedule |-> Unstated, maintenance_defer |-> defer, extend_operating_hours |-> redeploy]

MCRecord(risk, overdue, hours, operators, response, status, age) ==
    [up |-> TRUE, row |-> TRUE, units |-> TRUE, risk |-> risk, overdue |-> overdue, hours |-> hours, operators |-> operators,
     telemetry |-> 5, planned |-> 120, actual |-> 90, age |-> age, found |-> 18, needed |-> 20, shifts |-> 20,
     cost |-> MCCost(90, 40), forecast |-> 100, status |-> status, response |-> response, route |-> "exists"]

MCGood == MCRecord(30, 3, 10, 95, MCResponse(12, 6), "SYNCED", 60)
MCWorn == [MCRecord(90, 20, 11, 70, MCResponse(0, -4), "SYNC_PENDING", 600) EXCEPT !.shifts = 0]

MCRecords == {MCGood, [MCGood EXCEPT !.status = "none", !.found = 12, !.age = 600]}

\* Worn units; no answers; units that state nothing; and no record and no unit at all.
MCChanged(r) ==
    {MCWorn, [r EXCEPT !.up = FALSE],
     [MCGood EXCEPT !.hours = Unstated, !.telemetry = Unstated, !.risk = Unstated, !.overdue = Unstated],
     [MCGood EXCEPT !.row = FALSE, !.units = FALSE, !.telemetry = Unstated, !.risk = Unstated, !.overdue = Unstated]}

MCControls(objective, tolerance, reallocation, maintenance, limit) ==
    [kind |-> "controls", objective |-> objective, tolerance |-> tolerance, fuel |-> 10, limit |-> limit,
     flexibility |-> [equipment_redeploy |-> reallocation, fleet_reroute |-> "NONE",
                      maintenance_defer |-> maintenance, extend_operating_hours |-> "MEDIUM"]]

MCPlan(objective, problem, stage) ==
    [kind |-> "plan", objective |-> objective, tolerance |-> "BALANCED", problem |-> problem, stage |-> stage]

MCRequests ==
    {MCControls("BALANCED", "BALANCED", "MEDIUM", "LOW", 6),
     MCControls("MINIMIZE_RISK", "CONSERVATIVE", "MEDIUM", "HIGH", 4),
     MCControls("MINIMIZE_COST", "BALANCED", "HIGH", "NONE", 3),
     MCPlan("BALANCED", "bottleneck", ""), MCPlan("MINIMIZE_RISK", "bottleneck", "face"),
     [kind |-> "named", objective |-> "MAXIMIZE_PRODUCTION", tolerance |-> "BALANCED",
      interventions |-> <<Proposed("crusher_speed_trim", 25, ""), Proposed("blast_reschedule", 10, ""),
                          Proposed("maintenance_defer", 30, "")>>]}

MCCheckpoint(execution, status, hashed) == [execution |-> execution, status |-> status, hashed |-> hashed]
MCCheckpoints ==
    {MCCheckpoint(e1, "passed", TRUE), MCCheckpoint(e1, "failed", TRUE), MCCheckpoint(e2, "passed", FALSE)}

\* Columns of six rows.
MCColumn(name, says, about, hints, kind, dates, values) ==
    [name |-> name, says |-> says, about |-> about, hints |-> hints, kind |-> kind, dates |-> dates, values |-> values]

MCTargets ==
    {MCColumn("grade", {}, {}, 5, "number", "no", <<1, 2, 3, 4, 4, Missing>>),
     MCColumn("label", {}, {}, 5, "text", "no", <<1, 1, 1, 2, 2, 2>>)}

MCColumns ==
    <<MCColumn("code", {"code"}, {}, 0, "text", "no", <<1, 1, 2, 2, 2, 3>>),
      MCColumn("mine_id", {"_id", "entity"}, {}, 0, "text", "no", <<1, 1, 2, 2, 3, 3>>),
      MCColumn("machine_id", {"_id", "entity"}, {}, 0, "text", "no", <<1, 1, 1, 1, 1, 1>>),
      MCColumn("id", {"id"}, {}, 0, "number", "no", <<1, 2, 3, 4, 5, 6>>),
      MCColumn("weekday", {"calendar"}, {}, 0, "text", "no", <<1, 2, 1, 2, 1, 2>>),
      MCColumn("date", {"time"}, {}, 0, "datetime", "no", <<3, 1, 2, 6, 5, 4>>),
      MCColumn("logged", {}, {}, 0, "text", "all", <<2, 2, 1, 1, 3, 3>>),
      MCColumn("next_date", {"time", "future"}, {}, 0, "datetime", "no", <<4, 2, 3, 7, 6, 5>>),
      MCColumn("lat", {"lat"}, {}, 0, "number", "no", <<1, 1, 1, 2, 2, 2>>),
      MCColumn("lon", {"lon"}, {}, 0, "number", "no", <<1, 2, 1, 2, 1, 2>>),
      MCColumn("latitude", {"lat"}, {}, 0, "number", "no", <<1, 1, 1, 1, 1, 1>>),
      MCColumn("grade_of_next", {"future"}, {"grade"}, 2, "number", "no", <<2, 3, 4, 4, 5, 5>>),
      MCColumn("depth", {}, {}, 0, "number", "no", <<1, 2, 3, 3, 2, 1>>)>>

MCDatasets ==
    LET chosen == {is \in SUBSET DOMAIN MCColumns : Cardinality(is) \in 1 .. 3}
        frame(is) == LET order == SetToSortSeq(is, <) IN [i \in DOMAIN order |-> MCColumns[order[i]]]
    IN {Append(frame(is), t) : is \in chosen, t \in MCTargets}
       \cup {Append(Reverse(frame(is)), t) : is \in {some \in chosen : Cardinality(some) < 3}, t \in MCTargets}

MCLimits == {NoLimit, 0}

MCInit ==
    /\ part \in {"l1", "decisions", "memo", "clock", "flow", "mine", "scenario", "artifact", "audit", "training"}
    /\ L1Init /\ DecisionInit /\ MemoInit /\ ClockInit
    /\ FlowInit /\ (part # "flow" => fleet = CHOOSE f \in MCFleets : TRUE)
    /\ MineInit /\ (part # "mine" => mine = CHOOSE m \in MCMines : TRUE)
    /\ ScenarioInit /\ (part # "scenario" => records = MCGood)
    /\ ArtifactInit /\ AuditInit
    /\ TrainingInit /\ (part # "training" => dataset = CHOOSE d \in MCDatasets : TRUE)

L1Part ==
    /\ part = "l1" /\ L1Next
    /\ UNCHANGED <<part, decisionVars, memoVars, clockVars, flowVars, mineVars, scenarioVars, artifactVars, auditVars, trainingVars>>
DecisionPart ==
    /\ part = "decisions" /\ DecisionNext
    /\ UNCHANGED <<part, l1Vars, memoVars, clockVars, flowVars, mineVars, scenarioVars, artifactVars, auditVars, trainingVars>>
MemoPart ==
    /\ part = "memo" /\ MemoNext
    /\ UNCHANGED <<part, l1Vars, decisionVars, clockVars, flowVars, mineVars, scenarioVars, artifactVars, auditVars, trainingVars>>
ClockPart ==
    /\ part = "clock" /\ ClockNext
    /\ UNCHANGED <<part, l1Vars, decisionVars, memoVars, flowVars, mineVars, scenarioVars, artifactVars, auditVars, trainingVars>>
FlowPart ==
    /\ part = "flow" /\ FlowNext
    /\ shifts # <<>> => fleet' = fleet
    /\ UNCHANGED <<part, l1Vars, decisionVars, memoVars, clockVars, mineVars, scenarioVars, artifactVars, auditVars, trainingVars>>
MinePart ==
    /\ part = "mine" /\ MineNext
    /\ UNCHANGED <<part, l1Vars, decisionVars, memoVars, clockVars, flowVars, scenarioVars, artifactVars, auditVars, trainingVars>>
ScenarioPart ==
    /\ part = "scenario" /\ ScenarioNext
    /\ request' # <<>> /\ results # <<>> => request'[1].objective = results[1].objective
    /\ UNCHANGED <<part, l1Vars, decisionVars, memoVars, clockVars, flowVars, mineVars, artifactVars, auditVars, trainingVars>>
ArtifactPart ==
    /\ part = "artifact" /\ ArtifactNext
    /\ UNCHANGED <<part, l1Vars, decisionVars, memoVars, clockVars, flowVars, mineVars, scenarioVars, auditVars, trainingVars>>
AuditPart ==
    /\ part = "audit" /\ AuditNext
    /\ UNCHANGED <<part, l1Vars, decisionVars, memoVars, clockVars, flowVars, mineVars, scenarioVars, artifactVars, trainingVars>>

TrainingPart ==
    /\ part = "training" /\ TrainingNext
    /\ UNCHANGED <<part, l1Vars, decisionVars, memoVars, clockVars, flowVars, mineVars, scenarioVars, artifactVars, auditVars>>

MCNext ==
    \/ L1Part \/ DecisionPart \/ MemoPart \/ ClockPart \/ FlowPart
    \/ MinePart \/ ScenarioPart \/ ArtifactPart \/ AuditPart \/ TrainingPart

MCSpec == MCInit /\ [][MCNext]_MCVars

\* The callers of a part are alike: none is named in a definition.
CallerSymmetry == Permutations(MemoCallers \cup ClockRequests \cup Analysts \cup Loaders)
===============================================================================
