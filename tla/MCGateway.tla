------------------------------ MODULE MCGateway ------------------------------
(* The gateway's data hub, training service and route planner, instantiated   *)
(* for TLC.  A behaviour is about one part of them, chosen at the start:      *)
(*   lineage:  two requests upload three versions of one dataset, whose        *)
(*             contents do not matter;                                        *)
(*   hub:      two requests map, validate and approve one version;            *)
(*   learning: one of them and a trainer, whose run is on that version;       *)
(*   training: two requests trigger and cancel two runs while time passes and  *)
(*             the process restarts;                                          *)
(*   routing:  seven requests for routes over nine cells, of which five vary. *)
EXTENDS TrainingRuns, RoutePlanning

CONSTANTS Curator, Trainer     \* the requests of the part "learning"

VARIABLE part

MCTasks == [equipment |-> {"equipment_failure"}]

\* Grounds that differ in how much rain changes them, and one that is closed.
MCGround(slope, height, road, flood, activity, shut) ==
    [slope |-> slope, height |-> height, road |-> road, flood |-> flood, activity |-> activity, traffic |-> 30,
     restricted |-> shut, excavation |-> FALSE]

MCRoad == MCGround(2, 10, 90, 10, 0, FALSE)
MCSlope == MCGround(11, 80, 30, 5, 0, FALSE)
MCGrounds == {MCRoad, MCSlope, MCGround(1, 0, 60, 95, 20, FALSE), MCGround(2, 50, 80, 10, 0, TRUE)}
MCVarying == {<<0, 1>>, <<1, 0>>, <<1, 1>>, <<1, 2>>, <<2, 1>>}
MCTerrains ==
    {[c \in Cells |-> IF c \in MCVarying THEN t[c] ELSE IF c = <<0, 2>> THEN MCSlope ELSE MCRoad] :
       t \in [MCVarying -> MCGrounds]}

MCDry == [rain |-> 0, road |-> 80, traffic |-> 40, weather |-> 5, blasting |-> FALSE]
MCWet == [rain |-> 96, road |-> 30, traffic |-> 40, weather |-> 60, blasting |-> TRUE]

MCTrip(kind, points, vehicle, conditions) ==
    [kind |-> kind, points |-> points, vehicle |-> vehicle, conditions |-> conditions, after |-> MCWet, alternatives |-> 2]

MCRouteRequests ==
    {[MCTrip("optimize", <<<<1, 2>>, <<2, 0>>>>, "haul_truck", MCDry) EXCEPT !.alternatives = 0],
     MCTrip("optimize", <<<<0, 0>>, <<0, 0>>, <<1, 2>>, <<2, 0>>>>, "light_vehicle", MCWet),
     MCTrip("optimize", <<<<0, 2>>, <<1, 1>>, <<2, 0>>>>, "light_vehicle", MCDry),
     MCTrip("optimize", <<<<0, 0>>, <<0, 0>>>>, "bicycle", MCWet),
     MCTrip("optimize", <<<<0, 0>>, <<3, 0>>>>, "bicycle", MCWet),
     MCTrip("compare", <<<<0, 2>>, <<2, 0>>>>, "articulated_dumper", MCDry),
     MCTrip("compare", <<<<0, 0>>, <<2, 2>>>>, "haul_truck", MCDry)}

MCVars == <<part, hubVars, trainVars, routeVars>>

MCInit ==
    /\ part \in {"lineage", "hub", "learning", "training", "routing"}
    /\ HubInit /\ TrainInit
    /\ part = "routing" => hubSchema = "migrate_all.py" /\ trainMode = "simulation"
    /\ RouteInit
    /\ part # "routing" =>
         terrain = (CHOOSE t \in MCTerrains : TRUE) /\ request = CHOOSE r \in MCRouteRequests : TRUE
    /\ part \in {"lineage", "hub"} => trainMode = "simulation"
    /\ part \in {"lineage", "training"} => hubSchema = "migrate_all.py"

LineagePart ==
    /\ part = "lineage"
    /\ \E r \in HubRequests : UploadFindDataset(r) \/ UploadFindLatest(r) \/ UploadCommit(r)
    /\ \A v \in DOMAIN versions' : versions'[v].passes /\ versions'[v].mapping = versions'[1].mapping
    /\ UNCHANGED <<part, trainVars, routeVars>>

HubPart == part = "hub" /\ HubNext /\ Len(versions') <= 1 /\ UNCHANGED <<part, trainVars, routeVars>>

LearningPart ==
    /\ part = "learning"
    /\ \/ HubStep(Curator) /\ Len(versions') <= 1 /\ UNCHANGED trainVars
       \/ /\ TrainStep(Trainer) \/ \E i \in DOMAIN runs : Worker(i)
          /\ Len(runs') <= 1
          /\ UNCHANGED hubVars
    /\ UNCHANGED <<part, routeVars>>

TrainingPart == part = "training" /\ TrainNext /\ UNCHANGED <<part, hubVars, routeVars>>

RoutingPart == part = "routing" /\ RouteNext /\ UNCHANGED <<part, hubVars, trainVars>>

MCNext == LineagePart \/ HubPart \/ LearningPart \/ TrainingPart \/ RoutingPart

MCSpec == MCInit /\ [][MCNext]_MCVars /\ TrainFairness
==============================================================================
