-------------------------------- MODULE Evidence --------------------------------
(***************************************************************************)
(* How well an estimate is supported (core/evidence.py): five measured       *)
(* factors, a weighted score, and caps that no average can lift.  Scores in  *)
(* percent; a ratio is rounded down, which no threshold depends on.          *)
(***************************************************************************)
EXTENDS Integers

GradeRank == [UNAVAILABLE |-> 0, LOW |-> 1, MEDIUM |-> 2, HIGH |-> 3]

\* The weakest of a non-empty set of grades.
Weakest(grades) == CHOOSE g \in grades : \A h \in grades : GradeRank[g] <= GradeRank[h]

\* DataFreshness.from_age, of an age in minutes: unknown and negative are expired.
Freshness(age) ==
    CASE age < 0 -> "EXPIRED"
      [] age \in 0 .. 14 -> "LIVE"
      [] age \in 15 .. 119 -> "RECENT"
      [] age \in 120 .. 1439 -> "STALE"
      [] OTHER -> "EXPIRED"

FreshnessScore == [LIVE |-> 100, RECENT |-> 75, STALE |-> 35, EXPIRED |-> 0]

\* Of the inputs the model needs, those the record has; the others are medians.
CompletenessScore(found, needed) == IF needed = 0 THEN 0 ELSE (100 * found) \div needed

\* serving_status of a model that is used; "none" when none is.
ModelScore(status) ==
    CASE status = "none" -> 0
      [] status = "SYNCED" -> 100
      [] status \in {"SYNC_PENDING", "SYNC_FAILED"} -> 55
      [] OTHER -> 70

HistoryScore(cases) ==
    IF cases = 0 THEN 0 ELSE IF cases < 3 THEN 30 ELSE IF cases < 12 THEN 70 ELSE 100

ConstraintScore(evaluated, relevant) ==
    IF relevant = 0 THEN 100 ELSE (100 * evaluated) \div relevant

\* Weights in tenths; the score is compared by its numerator.
Weighted(f) ==
    14 * f.freshness + 12 * f.completeness + 15 * f.model + 8 * f.history + 13 * f.constraints
WeightSum == 14 + 12 + 15 + 8 + 13

ByScore(f) ==
    CASE Weighted(f) >= 82 * WeightSum -> "HIGH"
      [] Weighted(f) < 82 * WeightSum /\ Weighted(f) >= 55 * WeightSum -> "MEDIUM"
      [] Weighted(f) < 55 * WeightSum /\ Weighted(f) >= 25 * WeightSum -> "LOW"
      [] OTHER -> "UNAVAILABLE"

Caps(f) ==
    (IF f.model = 0 \/ f.freshness = 0 THEN {"LOW"} ELSE {})
    \cup (IF f.model < 60 \/ f.freshness < 50 \/ f.constraints < 100 \/ f.completeness < 75
          THEN {"MEDIUM"} ELSE {})

Assess(f) == Weakest({ByScore(f)} \cup Caps(f))
===============================================================================
