----------------------------- MODULE FeatureSelection -----------------------------
(***************************************************************************)
(* What the engine decides from the columns of a dataset before it trains:   *)
(* the target and the task (core/task_detection/detector.py), the role of    *)
(* each column (core/feature_roles/detector.py), the columns that could leak *)
(* the target (core/leakage/detector.py), the validation strategy            *)
(* (core/validation/strategy.py) and the candidate models                    *)
(* (core/models/candidates.py).  A dataset is a sequence of columns          *)
(*                                                                         *)
(*   [name, says, about, hints, kind, dates, values]                        *)
(*                                                                         *)
(* says: what its name contains, of "lat", "lon" (a name for a coordinate),  *)
(* "id" (is id, uuid or key), "code" (is code), "_id", "_uuid",  *)
(* "_key", "_code" (ends so), "entity" (mine_id and the like), "time" (date, *)
(* time), "calendar" (year to day), "future", "predicted"; about: the names  *)
(* of the columns its name contains; hints: what its name adds to its score  *)
(* as a target; kind: its dtype; dates: "all", "most" or "no" values are     *)
(* dates; values: one per row, Missing for none.                            *)
(***************************************************************************)
EXTENDS Integers, FiniteSets, Sequences, SequencesExt, FiniteSetsExt, Subsequences

Missing == -1

Column == [name : STRING \ {""}, says : SUBSET STRING, about : SUBSET STRING, hints : Int,
           kind : STRING, dates : STRING, values : Seq(Int)]

Present(c) == {r \in DOMAIN c.values : c.values[r] # Missing}
Distinct(c) == {c.values[r] : r \in Present(c)}
Numeric(c) == c.kind \in {"number", "bool"}
Says(c, words) == c.says \cap words # {}
Named(columns, name) == CHOOSE c \in Range(columns) : c.name = name
Names(columns) == {c.name : c \in Range(columns)}

-----------------------------------------------------------------------------
\* TaskDetector.detect

TargetScore(c) ==
    c.hints
    - (IF Says(c, {"_id", "id", "code"}) THEN 4 ELSE 0)
    - (IF Cardinality(Distinct(c)) <= 1 THEN 5 ELSE 0)
    - (IF c.kind = "datetime" THEN 3 ELSE 0)
    - (IF 100 * Cardinality(Distinct(c)) > 98 * Cardinality(Present(c)) THEN 3 ELSE 0)

\* The first of the columns with the highest score, "" when none has a positive one.
DetectedTarget(columns) ==
    LET scored == {i \in DOMAIN columns : TargetScore(columns[i]) > 0}
        best == {i \in scored : \A j \in scored : TargetScore(columns[i]) >= TargetScore(columns[j])}
    IN IF scored = {} THEN "" ELSE columns[Min(best)].name

\* What the values of a column ask for; the orchestrator takes a spatial task for the
\* same task.
InferredTask(c) ==
    IF c.kind = "number" /\ Cardinality(Distinct(c)) > 10 THEN "regression" ELSE "classification"

DetectedTask(columns) ==
    LET target == DetectedTarget(columns)
    IN IF target = "" THEN "unknown" ELSE InferredTask(Named(columns, target))

-----------------------------------------------------------------------------
\* FeatureRoleDetector._detect_column: the roles the orchestrator asks for

LooksTemporal(c) ==
    IF Says(c, {"time", "calendar"})
    THEN ~Numeric(c)
    ELSE c.kind = "text" /\ Cardinality(Present(c)) >= 2 /\ c.dates # "no"

RoleOf(c, target) ==
    CASE c.name = target -> "target"
      [] c.name # target /\ Says(c, {"lat", "lon"}) -> "spatial"
      [] c.name # target /\ ~Says(c, {"lat", "lon"})
           /\ Says(c, {"id", "code", "_id", "_uuid", "_key", "_code"}) -> "identifier"
      [] OTHER -> IF c.kind = "datetime" \/ LooksTemporal(c) THEN "temporal" ELSE "measure"

\* The columns of a role, in the order of the dataset.
InRole(columns, target, role) ==
    Picked([i \in DOMAIN columns |-> columns[i].name],
           {i \in DOMAIN columns : RoleOf(columns[i], target) = role})

-----------------------------------------------------------------------------
\* LeakageDetector.analyze and CrucibleOrchestrator._apply_leakage_filter

RiskyFeature(c, target) ==
    /\ c.name # target
    /\ \/ Says(c, {"future", "predicted"})
       \/ target \in c.about
       \/ Says(c, {"_id", "_uuid", "_key", "_code"})

WithoutRisky(columns, target) ==
    Picked(columns, {i \in DOMAIN columns : ~RiskyFeature(columns[i], target)})

-----------------------------------------------------------------------------
\* ValidationStrategySelector.select

LooksClassified(c) == c.kind # "number" \/ Cardinality(Distinct(c)) <= 2

IsIdentifier(c) == Says(c, {"id", "code", "_id", "_uuid", "_key", "_code"})

HasTime(columns) ==
    \E c \in Range(columns) : ~IsIdentifier(c) /\
        \/ c.kind = "datetime"
        \/ Says(c, {"time"}) /\ ~Numeric(c)
        \/ c.kind = "text" /\ Cardinality(Present(c)) >= 3 /\ c.dates # "no"

\* One of several names of entities is looked at, which one is the order of a set.
HasGroup(columns, entity) ==
    LET groups == Cardinality(Distinct(entity))
    IN groups >= 2 /\ groups < Len(entity.values)

WithoutGroup(columns, target) ==
    CASE HasTime(columns) -> "temporal_holdout"
      [] ~HasTime(columns) /\ LooksClassified(Named(columns, target)) -> "stratified_holdout"
      [] OTHER -> "random_holdout"

SelectedStrategies(columns, target) ==
    LET entities == {c \in Range(columns) : Says(c, {"entity"})}
        spatial == /\ \E c \in Range(columns) : Says(c, {"lat"})
                   /\ \E c \in Range(columns) : Says(c, {"lon"})
    IN CASE spatial -> {"spatial_holdout"}
         [] ~spatial /\ entities # {} ->
              {IF HasGroup(columns, c) THEN "group_holdout" ELSE WithoutGroup(columns, target) : c \in entities}
         [] OTHER -> {WithoutGroup(columns, target)}

-----------------------------------------------------------------------------
\* ModelCandidateGenerator.generate

\* A model is its task and its priority; fewer of them for a small dataset.
CandidateModels(task, rows) ==
    [i \in 1 .. (IF rows < 100 THEN 3 ELSE 5) |-> <<task, i>>]
===============================================================================
