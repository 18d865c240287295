------------------------------ MODULE ModelTraining ------------------------------
(***************************************************************************)
(* One run of the engine from its dataset to the answers its model gives: the *)
(* rules of the stages 2 to 8 (FeatureSelection), the holdout and the training *)
(* (core/models/trainer.py), the fallback to a random holdout and the artifact *)
(* (core/platform/orchestrator.py, run), and the inference that uses it         *)
(* (core/inference/engine.py, predict).                                     *)
(*                                                                         *)
(* The holdout is a set of rows; where the code shuffles, any set of the size  *)
(* that it computes.  A coordinate is the bin it falls into.  Whether a model  *)
(* can be fitted and which scores best is for scikit-learn to say.             *)
(***************************************************************************)
EXTENDS FeatureSelection

CONSTANTS
    Datasets,
    GivenTargets, GivenTasks,   \* what a caller may ask for, "" for nothing
    CandidateLimits             \* and the most candidates to train, NoLimit for no limit

NoLimit == -1
ASSUME TrainingAssumption == CandidateLimits \subseteq Int

\* pandas gives every column a name of its own.
ASSUME DatasetsAssumption ==
    /\ Datasets \subseteq Seq(Column)
    /\ \A columns \in Datasets :
         \A i, j \in DOMAIN columns : columns[i].name = columns[j].name => i = j

VARIABLES
    phase,      \* "dataset", "training", "fallback", "artifact", "serving" or "failed"
    dataset,    \* the columns as they came
    plan,       \* what the rules decided
    trained,    \* what the training left
    served,     \* the artifact that serves
    prediction       \* the last answer

trainingVars == <<phase, dataset, plan, trained, served, prediction>>

NoPlan == [target |-> "", task |-> "", strategy |-> "", candidates |-> <<>>,
           entity |-> "", time |-> "", lat |-> "", lon |-> ""]
NoTraining == [features |-> {}, strategy |-> "", train |-> {}, test |-> {}, model |-> <<>>]
NotServing == [columns |-> {}, strategy |-> "", model |-> <<>>]
NoReplyYet == [given |-> {}, success |-> FALSE]

TrainingInit ==
    /\ phase = "dataset" /\ dataset \in Datasets
    /\ plan = NoPlan /\ trained = NoTraining /\ served = NotServing /\ prediction = NoReplyYet

-----------------------------------------------------------------------------
\* Stages 2 to 8 of CrucibleOrchestrator.run

FirstOr(names, i) == IF i <= Len(names) THEN names[i] ELSE ""

PlanFor(target, task, strategy, limit) ==
    LET models == CandidateModels(task, Len(dataset[1].values))
        places == InRole(dataset, target, "spatial")
    IN [target |-> target, task |-> task, strategy |-> strategy,
        candidates |-> IF limit = NoLimit THEN models ELSE SubSeq(models, 1, Min({limit, Len(models)})),
        entity |-> FirstOr(InRole(dataset, target, "identifier"), 1),
        time |-> FirstOr(InRole(dataset, target, "temporal"), 1),
        lat |-> FirstOr(places, 1), lon |-> FirstOr(places, 2)]

\* The task is the detected one also when the caller names another target.
DecideRules ==
    /\ phase = "dataset"
    /\ \E given \in GivenTargets, asked \in GivenTasks, limit \in CandidateLimits :
         LET target == IF given # "" THEN given ELSE DetectedTarget(dataset)
             task == IF asked # "" THEN asked ELSE DetectedTask(dataset)
         IN \/ /\ \/ target \notin Names(dataset)
                  \/ task \notin {"classification", "regression"}
                  \/ limit # NoLimit /\ limit <= 0
               /\ phase' = "failed" /\ UNCHANGED plan
            \/ /\ target \in Names(dataset) /\ task \in {"classification", "regression"}
               /\ limit = NoLimit \/ limit > 0
               /\ phase' = "training"
               /\ \E strategy \in SelectedStrategies(dataset, target) :
                    plan' = PlanFor(target, task, strategy, limit)
    /\ UNCHANGED <<dataset, trained, served, prediction>>

\* The columns the trainer gets.
SafeFrame == WithoutRisky(dataset, plan.target)

-----------------------------------------------------------------------------
\* ModelTrainer._create_split: the sets of rows that may be held out, none when it
\* raises.  Rows without a target are not in it.

Labelled == Present(Named(dataset, plan.target))
Value(name, r) == Named(dataset, name).values[r]
FifthOf(n) == (n + 4) \div 5
Of(size, rows) == {test \in SUBSET rows : Cardinality(test) = size}

RandomHoldouts == Of(FifthOf(Cardinality(Labelled)), Labelled)

\* Every class gives its share, rounded either way.
StratifiedHoldouts ==
    LET classes == {{r \in Labelled : Value(plan.target, r) = v} : v \in Distinct(Named(dataset, plan.target))}
        n == Cardinality(Labelled)
        size == FifthOf(n)
    IN IF \/ \E class \in classes : Cardinality(class) < 2
          \/ size < Cardinality(classes) \/ n - size < Cardinality(classes)
       THEN {}
       ELSE {test \in Of(size, Labelled) : \A class \in classes :
                LET share == Cardinality(class) * size
                    taken == Cardinality(test \cap class)
                IN taken * n \in (share - n + 1) .. (share + n - 1)}

\* Whole groups, by the value of a column or of two.
GroupsOf(key) == {{r \in Labelled : key[r] = key[q]} : q \in Labelled}
OfGroups(groups) == {UNION chosen : chosen \in Of(FifthOf(Cardinality(groups)), groups)}

EntityOf == [r \in Labelled |-> Value(plan.entity, r)]
BlockOf == [r \in Labelled |-> <<Value(plan.lat, r), Value(plan.lon, r)>>]

GroupHoldouts(frame) ==
    IF \/ plan.entity \notin Names(frame)
       \/ \E r \in Labelled : Value(plan.entity, r) = Missing
       \/ Cardinality(GroupsOf(EntityOf)) < 2
    THEN {}
    ELSE OfGroups(GroupsOf(EntityOf))

\* Mutant: the rows are split before they are sorted.
TemporalHoldoutsUnsorted(frame) ==
    LET n == Cardinality(Labelled)
    IN IF \/ plan.time \notin Names(frame)
          \/ Named(frame, plan.time).kind # "datetime" /\ Named(frame, plan.time).dates # "all"
          \/ \E r \in Labelled : Value(plan.time, r) = Missing
       THEN {}
       ELSE {test \in Of(n - ((4 * n) \div 5), Labelled) : \A r \in test, q \in Labelled \ test : q < r}

\* The latest rows; rows of one time are in any order.
TemporalHoldouts(frame) ==
    LET n == Cardinality(Labelled)
    IN IF \/ plan.time \notin Names(frame)
          \/ Named(frame, plan.time).kind # "datetime" /\ Named(frame, plan.time).dates # "all"
          \/ \E r \in Labelled : Value(plan.time, r) = Missing
       THEN {}
       ELSE {test \in Of(n - ((4 * n) \div 5), Labelled) :
                \A r \in test, q \in Labelled \ test : Value(plan.time, q) <= Value(plan.time, r)}

SpatialHoldouts(frame) ==
    LET many(name) == Cardinality({Value(name, r) : r \in Labelled}) >= 2
    IN IF \/ ~({plan.lat, plan.lon} \subseteq Names(frame))
          \/ \E r \in Labelled : Missing \in {Value(plan.lat, r), Value(plan.lon, r)}
          \/ ~many(plan.lat) \/ ~many(plan.lon)
       THEN {}
       ELSE OfGroups(GroupsOf(BlockOf))

Holdouts(strategy, frame) ==
    CASE strategy = "group_holdout" -> GroupHoldouts(frame)
      [] strategy = "stratified_holdout" -> StratifiedHoldouts
      [] strategy = "temporal_holdout" -> TemporalHoldouts(frame)
      [] strategy = "spatial_holdout" -> SpatialHoldouts(frame)
      [] OTHER -> RandomHoldouts

-----------------------------------------------------------------------------
\* ModelTrainer.train_and_evaluate

\* Identifiers are removed after the split, columns of codes are not.
WithoutIdentifiers(frame) ==
    {c \in Range(frame) : c.name # plan.target /\ ~Says(c, {"id", "_id", "_uuid", "_key"})}

\* What the preprocessor passes on; the rest is dropped.
Encoded(columns) == {c \in columns : c.kind # "datetime"}

\* A model of the other task is refused.
Buildable(model) == model[1] = plan.task

\* It raises for too little data, no holdout, no column left, a model it cannot build.
Raises(strategy, frame) ==
    \/ Cardinality(Labelled) < 4
    \/ \E model \in Range(plan.candidates) : ~Buildable(model)
    \/ Holdouts(strategy, frame) = {}
    \/ Encoded(WithoutIdentifiers(frame)) = {}

\* A regression of labels cannot be fitted.
Fittable == plan.task = "regression" => Numeric(Named(dataset, plan.target))

\* The best of those that could be fitted; <<>> when none could.
BestModels == {<<>>} \cup (IF Fittable THEN Range(plan.candidates) ELSE {})

TrainOn(strategy, frame) ==
    \E test \in Holdouts(strategy, frame), model \in BestModels :
        trained' = [features |-> {c.name : c \in Encoded(WithoutIdentifiers(frame))},
                    strategy |-> strategy, train |-> Labelled \ test, test |-> test, model |-> model]

TrainAndEvaluate ==
    /\ phase = "training"
    /\ \/ /\ Raises(plan.strategy, SafeFrame)
          /\ phase' = "fallback" /\ UNCHANGED trained
       \/ /\ ~Raises(plan.strategy, SafeFrame)
          /\ TrainOn(plan.strategy, SafeFrame)
          /\ phase' = "artifact"
    /\ UNCHANGED <<dataset, plan, served, prediction>>

\* Once more without a strategy; what that raises ends the run.
FallBack ==
    /\ phase = "fallback"
    /\ \/ /\ Raises("random_holdout", SafeFrame)
          /\ phase' = "failed" /\ UNCHANGED trained
       \/ /\ ~Raises("random_holdout", SafeFrame)
          /\ TrainOn("random_holdout", SafeFrame)
          /\ phase' = "artifact"
    /\ UNCHANGED <<dataset, plan, served, prediction>>

\* All that the trainer got, the identifiers it removed and the dates it dropped too.
ArtifactColumns == Names(SafeFrame) \ {plan.target}

BuildModelArtifact ==
    /\ phase = "artifact"
    /\ IF trained.model = <<>>
       THEN phase' = "failed" /\ UNCHANGED served
       ELSE /\ phase' = "serving"
            /\ served' = [columns |-> ArtifactColumns, strategy |-> plan.strategy, model |-> trained.model]
    /\ UNCHANGED <<dataset, plan, trained, prediction>>

-----------------------------------------------------------------------------
\* InferenceEngine.predict: a request gives the columns of the dataset, or all but
\* one.  The check of the output cannot be made of labels that are text, and fails.

Predict ==
    /\ phase = "serving"
    /\ \E given \in {Names(dataset)} \cup {Names(dataset) \ {name} : name \in Names(dataset)} :
         \E success \in (IF served.columns \subseteq given /\ Named(dataset, plan.target).kind # "text"
                         THEN BOOLEAN ELSE {FALSE}) :
             prediction' = [given |-> given, success |-> success]
    /\ UNCHANGED <<phase, dataset, plan, trained, served>>

TrainingNext == DecideRules \/ TrainAndEvaluate \/ FallBack \/ BuildModelArtifact \/ Predict

ModelTrainingSpec == TrainingInit /\ [][TrainingNext]_trainingVars

-----------------------------------------------------------------------------
\* A model is not fitted on its target, nor on a column whose name tells of the future,
\* of a prediction, of the target, or of an identity other than a plain code, whichever
\* way the run came to its training (orchestrator.py:909, trainer.py:128).
FeaturesDoNotLeak ==
    \A name \in trained.features :
        LET c == Named(dataset, name)
        IN /\ name # plan.target /\ plan.target \notin c.about
           /\ ~Says(c, {"future", "predicted", "id", "_id", "_uuid", "_key", "_code"})

\* The score of a model is about rows it was not fitted on, and all labelled rows are
\* used; under a temporal holdout nothing was learnt from after the first row the model
\* is judged by, under a spatial one nothing from the block of such a row, under a group
\* one nothing from its group (strategy.py:156, splitters.py:232).  The strategy is the
\* one of the training: a plan for group_holdout whose column the leakage filter took
\* is trained with a random one, and the entities are then on both sides, which
\* trainer.py:108 and strategy.py:136 exclude.
HoldoutIsUnseen ==
    trained.strategy # "" =>
        /\ trained.train # {} /\ trained.test # {} /\ trained.train \cap trained.test = {}
        /\ trained.train \cup trained.test = Labelled
        /\ \A r \in trained.train, q \in trained.test :
             /\ trained.strategy = "temporal_holdout" => Value(plan.time, r) <= Value(plan.time, q)
             /\ trained.strategy = "spatial_holdout" =>
                  Value(plan.lat, r) # Value(plan.lat, q) \/ Value(plan.lon, r) # Value(plan.lon, q)
             /\ trained.strategy = "group_holdout" => Value(plan.entity, r) # Value(plan.entity, q)

\* An answer is made from every column the model was fitted on (engine.py:257).
AnswersHaveTheFeatures == prediction.success => trained.features \subseteq prediction.given

\* A trained model can be believed: no feature tells the target, the model is
\* judged by rows it has not seen, as the strategy it was trained with holds them
\* out, and an answer is made from every column the model was fitted on.
ModelSound ==
    /\ FeaturesDoNotLeak
    /\ HoldoutIsUnseen
    /\ AnswersHaveTheFeatures
===============================================================================
