------------------------------ MODULE Interventions ------------------------------
(***************************************************************************)
(* The actions that may be proposed to a mine (core/scenario/catalogue.py),  *)
(* what permits them (core/constraints.py) and what each would bring         *)
(* (evaluate_intervention of core/scenario/engine.py).                      *)
(*                                                                         *)
(* Magnitudes, effects and shares are percentages.  A query answers with     *)
(* the records as they were when it was asked, of which each check reads its  *)
(* columns, or <<>> when it failed or found no row.                          *)
(***************************************************************************)
EXTENDS Evidence, FiniteSets, Sequences, SequencesExt

Unstated == -1000

Catalogue == <<"equipment_redeploy", "fleet_reroute", "crusher_speed_trim", "blast_reschedule",
               "maintenance_defer", "extend_operating_hours">>
Actions == Range(Catalogue)

\* Production gained by a magnitude of 10 %, and equipment risk added by it.
HeuristicEffect == [equipment_redeploy |-> 10, fleet_reroute |-> 9, crusher_speed_trim |-> 5,
                    blast_reschedule |-> 7, maintenance_defer |-> 4, extend_operating_hours |-> 6]
RiskEffect == [equipment_redeploy |-> 2, fleet_reroute |-> 1, crusher_speed_trim |-> 4,
               blast_reschedule |-> 5, maintenance_defer |-> 18, extend_operating_hours |-> 3]

-----------------------------------------------------------------------------
\* The checks.  A hard one blocks unless it passed.

Checked(key, kind, outcome) == [key |-> key, kind |-> kind, outcome |-> outcome]
Verdict(permitted) == IF permitted THEN "PASSED" ELSE "FAILED"

Blocking(check) == check.kind = "HARD" /\ check.outcome # "PASSED"
Feasible(checks) == \A c \in checks : ~Blocking(c)

\* The queries: the units by their risk of failure, the unit most overdue, the
\* newest production record, and the newest telemetry.
Queries == {"units", "overdue", "shift", "telemetry"}

\* The unit whose stated risk is lowest; where no row states one it counts as 0
\* (constraints.py:221).
RedeployChecks(answer) ==
    {Checked("equipment_availability", "HARD",
        IF answer = <<>> THEN "NOT_EVALUATED"
        ELSE IF ~answer[1].units THEN "NOT_EVALUATED" ELSE Verdict(answer[1].risk <= 60))}

\* A unit that states no days, and a mine without units, is not overdue.
DeferChecks(answer) ==
    {Checked("maintenance_lockout", "HARD",
        IF answer = <<>> THEN "NOT_EVALUATED" ELSE Verdict(answer[1].overdue <= 14))}

BlastChecks(shift) ==
    {Checked("shift_safety_window", "HARD", IF shift = "" THEN "NOT_EVALUATED" ELSE Verdict(shift # "S3"))}

TrimChecks(magnitude) == {Checked("crusher_vibration_limit", "HARD", Verdict(magnitude <= 20))}

RerouteChecks(route) ==
    {Checked("route_feasibility", "HARD", IF route = "unknown" THEN "NOT_EVALUATED" ELSE Verdict(route = "exists"))}

ExtendChecks(answer, magnitude) ==
    IF answer = <<>>
    THEN {Checked("working_time_limit", "HARD", "NOT_EVALUATED")}
    ELSE {Checked("working_time_limit", "HARD",
            IF answer[1].hours = Unstated THEN "NOT_EVALUATED"
            ELSE Verdict(answer[1].hours * (100 + magnitude) <= 1200)),
          Checked("operator_availability", "SOFT",
            IF answer[1].operators = Unstated THEN "NOT_EVALUATED" ELSE Verdict(answer[1].operators >= 80))}

TelemetryChecks(answer) ==
    {Checked("telemetry_freshness", "SOFT",
        IF answer = <<>> THEN "NOT_EVALUATED"
        ELSE IF answer[1].telemetry = Unstated THEN "NOT_EVALUATED" ELSE Verdict(answer[1].telemetry <= 12))}

\* constraints.evaluate; answers[query] is <<>> for a query that failed.
ChecksOf(action, magnitude, shift, route, answers) ==
    TelemetryChecks(answers["telemetry"]) \cup
    CASE action = "equipment_redeploy" -> RedeployChecks(answers["units"])
      [] action = "maintenance_defer" -> DeferChecks(answers["overdue"])
      [] action = "blast_reschedule" -> BlastChecks(shift)
      [] action = "crusher_speed_trim" -> TrimChecks(magnitude)
      [] action = "fleet_reroute" -> RerouteChecks(route)
      [] action = "extend_operating_hours" -> ExtendChecks(answers["shift"], magnitude)

\* The queries an evaluation asks.
Asks(action) ==
    {"telemetry"} \cup
    CASE action = "equipment_redeploy" -> {"units"}
      [] action = "maintenance_defer" -> {"overdue"}
      [] action = "extend_operating_hours" -> {"shift"}
      [] OTHER -> {}

-----------------------------------------------------------------------------
\* What an action would bring, in a context [baseline, backed, status, response,
\* age, found, needed], with economics [cost, shifts].

\* _model_delta: Unstated without a model that answers, or when its answer is flat; never
\* more than a quarter of what it forecasts.
ModelDelta(context, action) ==
    LET percent == context.response[action]
        credible == IF percent > 25 THEN 25 ELSE IF percent < -25 THEN -25 ELSE percent
    IN IF ~context.backed \/ percent \in {Unstated, 0} THEN Unstated ELSE (context.baseline * credible) \div 100

HeuristicDelta(context, action, magnitude) ==
    (context.baseline * HeuristicEffect[action] * magnitude) \div 1000

Factors(context, checks, status, shifts) ==
    [freshness |-> FreshnessScore[Freshness(context.age)],
     completeness |-> CompletenessScore(context.found, context.needed),
     model |-> ModelScore(status),
     history |-> HistoryScore(shifts),
     constraints |-> ConstraintScore(Cardinality({c \in checks : c.outcome # "NOT_EVALUATED"}),
                                     Cardinality(checks))]

\* evaluate_intervention.  Costs in hundredths of a thousand rupees, risk in
\* thousandths.  A refused action has no tonnage and adds no risk.
Evaluated(context, item, checks, economics, at) ==
    LET cost == economics.cost[item.action]
        model == ModelDelta(context, item.action)
        refused == ~Feasible(checks)
        status == IF ~refused /\ model = Unstated THEN "none" ELSE context.status
    IN [key |-> item.action,
        magnitude |-> item.magnitude,
        shift |-> item.shift,
        delta |-> IF refused THEN Unstated
                  ELSE IF model # Unstated THEN model ELSE HeuristicDelta(context, item.action, item.magnitude),
        mode |-> IF refused THEN "INSUFFICIENT_DATA" ELSE IF model # Unstated THEN "MODEL_BACKED" ELSE "HEURISTIC",
        checks |-> checks,
        grade |-> Assess(Factors(context, checks, status, economics.shifts)),
        cost |-> IF cost = Unstated THEN Unstated ELSE cost * item.magnitude,
        risk |-> IF refused THEN 0 ELSE RiskEffect[item.action] * item.magnitude,
        rejected |-> refused,
        at |-> at]

Available(outcome) == ~outcome.rejected /\ Feasible(outcome.checks) /\ outcome.delta # Unstated
===============================================================================
