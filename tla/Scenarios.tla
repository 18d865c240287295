-------------------------------- MODULE Scenarios --------------------------------
(***************************************************************************)
(* What a manager is offered: a scenario from controls (run_scenario), a     *)
(* scenario of named interventions (routers/scenarios.run) and a response    *)
(* plan for a problem (core/recommendations.py, core/response_plan.py), each *)
(* evaluating its actions one after the other while the records of the mine  *)
(* change.  A query is answered from memory for QUERY_TTL, also one that     *)
(* failed; the economics of a mine are kept for ever, also those of a query  *)
(* that failed.                                                            *)
(***************************************************************************)
EXTENDS Interventions, Subsequences

CONSTANTS
    Records,        \* what the records of a mine may say
    Changed(_),     \* what they say after a change
    Requests,       \* what may be asked
    QUERY_TTL,
    MaxRequests,
    MaxScenarioTime

Objectives == {"MAXIMIZE_PRODUCTION", "MINIMIZE_COST", "MINIMIZE_RISK", "BALANCED"}
Magnitude == [NONE |-> 0, LOW |-> 5, MEDIUM |-> 10, HIGH |-> 15]
Proposed(action, magnitude, shift) == [action |-> action, magnitude |-> magnitude, shift |-> shift]
Proposal == [action : Actions, magnitude : Nat, shift : STRING]
Flexible == {"equipment_redeploy", "fleet_reroute", "maintenance_defer", "extend_operating_hours"}

ResponseMap ==
    [production_gap |-> <<"equipment_redeploy", "fleet_reroute", "crusher_speed_trim", "blast_reschedule",
                          "extend_operating_hours">>,
     bottleneck |-> <<"crusher_speed_trim", "equipment_redeploy", "fleet_reroute", "blast_reschedule">>,
     equipment_risk |-> <<"equipment_redeploy", "maintenance_defer">>,
     maintenance_overdue |-> <<"equipment_redeploy">>,
     open_incidents |-> <<>>]

ScenarioRecord ==
    [up : BOOLEAN, row : BOOLEAN, units : BOOLEAN, risk : Int, overdue : Int, hours : Int, operators : Int, telemetry : Int,
     planned : Int, actual : Int, age : Int, found : Nat, needed : Nat, shifts : Nat, cost : [Actions -> Int],
     forecast : Int, status : STRING, response : [Actions -> Int], route : {"exists", "none", "unknown"}]

ScenarioRequest ==
    [kind : {"controls"}, objective : Objectives, tolerance : STRING, fuel : Nat, limit : Nat,
     flexibility : [Flexible -> DOMAIN Magnitude]]
    \cup [kind : {"named"}, objective : Objectives, tolerance : STRING, interventions : Seq(Proposal)]
    \cup [kind : {"plan"}, objective : Objectives, tolerance : STRING, problem : DOMAIN ResponseMap, stage : STRING]

\* A search for a route is made once for a mine and a vehicle, whatever is recorded later.
ASSUME ScenarioAssumption ==
    /\ QUERY_TTL \in Nat \ {0}
    /\ MaxRequests \in Nat /\ MaxScenarioTime \in Nat
    /\ Records \subseteq ScenarioRecord /\ Requests \subseteq ScenarioRequest
    /\ \A r \in Records : Changed(r) \subseteq {s \in ScenarioRecord : s.route = r.route}

VARIABLES
    past,       \* what the records said, <<[from, records]>>, the last now
    time,
    asked,      \* [query -> [at, answer]], the answers in memory
    economics,  \* what is remembered of the costs, or <<>>
    request,    \* the request in hand, or <<>>
    context,    \* the situation it is evaluated in, or <<>>
    considered, \* the outcomes so far
    results     \* the answers given

scenarioVars == <<past, time, asked, economics, request, context, considered, results>>

records == past[Len(past)].records

ScenarioInit ==
    /\ \E r \in Records : past = <<[from |-> 0, records |-> r]>>
    /\ time = 0
    /\ asked = <<>> /\ economics = <<>>
    /\ request = <<>> /\ context = <<>> /\ considered = <<>>
    /\ results = <<>>

ScenarioTick ==
    /\ time < MaxScenarioTime /\ time' = time + 1
    /\ UNCHANGED <<past, asked, economics, request, context, considered, results>>

RecordsChange ==
    /\ Len(past) = 1
    /\ \E r \in Changed(records) : past' = Append(past, [from |-> time, records |-> r])
    /\ UNCHANGED <<time, asked, economics, request, context, considered, results>>

-----------------------------------------------------------------------------
\* Queries and economics, through the memory.

\* The inputs that the model found in the newest production record are counted once
\* and then kept with the remembered row (engine.py:209).
Answered(query) ==
    IF ~records.up \/ (query \in {"production", "shift"} /\ ~records.row) THEN <<>> ELSE <<records>>

\* Mutant: an answer is kept for ever.
AnswerForEver(query) ==
    IF query \in DOMAIN asked THEN asked[query]
    ELSE [at |-> time, answer |-> Answered(query)]

Answer(query) ==
    IF query \in DOMAIN asked /\ time - asked[query].at < QUERY_TTL THEN asked[query]
    ELSE [at |-> time, answer |-> Answered(query)]

Remember(queries) == [q \in DOMAIN asked \cup queries |-> IF q \in queries THEN Answer(q) ELSE asked[q]]

NoEconomics == [shifts |-> 0, cost |-> [a \in Actions |-> Unstated]]

Economics ==
    IF economics # <<>> THEN economics[1]
    ELSE IF records.up /\ records.shifts > 0 THEN [shifts |-> records.shifts, cost |-> records.cost]
    ELSE NoEconomics

-----------------------------------------------------------------------------
\* Which actions a request is about, and how far each may go.

\* _magnitude_for: blast and crusher follow the fuel the manager allows.
MagnitudeFor(action, controls) ==
    IF action \in Flexible THEN Magnitude[controls.flexibility[action]]
    ELSE IF controls.fuel < 15 THEN controls.fuel ELSE 15

StageActions ==
    [face |-> <<"blast_reschedule", "extend_operating_hours">>,
     loading |-> <<"equipment_redeploy", "extend_operating_hours">>,
     haulage |-> <<"fleet_reroute", "equipment_redeploy">>,
     processing |-> <<"crusher_speed_trim">>,
     stockpile |-> <<"fleet_reroute">>]

RelevantActions(problem, stage) ==
    IF problem = "bottleneck" /\ stage \in DOMAIN StageActions THEN StageActions[stage] ELSE ResponseMap[problem]

Worklist(r) ==
    CASE r.kind = "controls" -> [i \in DOMAIN Catalogue |-> Proposed(Catalogue[i], MagnitudeFor(Catalogue[i], r), "S1")]
      [] r.kind = "named" -> r.interventions
      [] r.kind = "plan" ->
            LET actions == RelevantActions(r.problem, r.stage)
            IN [i \in DOMAIN actions |-> Proposed(actions[i], 10, "S1")]

-----------------------------------------------------------------------------
\* Ranking.  A score is a fraction <<numerator, denominator>>; <<-1, 0>> is below all.

GradeWeight == [HIGH |-> 20, MEDIUM |-> 17, LOW |-> 12, UNAVAILABLE |-> 8]     \* twentieths

AtLeast(x, bound) == IF x < bound THEN bound ELSE x
AtMost(x, bound) == IF x > bound THEN bound ELSE x

ScoreFor(o, objective) ==
    LET gain == o.delta * GradeWeight[o.grade]
    IN CASE objective = "MAXIMIZE_PRODUCTION" -> <<gain, 1>>
         [] objective = "MINIMIZE_COST" -> IF o.cost = Unstated THEN <<-1, 0>> ELSE <<-o.cost, 1>>
         [] objective = "MINIMIZE_RISK" -> <<-o.risk * GradeWeight[o.grade], 1>>
         [] objective = "BALANCED" ->
                IF gain <= 0 THEN <<gain, 1>>
                ELSE <<gain * (1000 - AtMost(o.risk, 500)), AtLeast(AtLeast(o.cost, 0), 500)>>

Better(o, p, objective) ==
    LET s == ScoreFor(o, objective)
        t == ScoreFor(p, objective)
    IN s[1] * t[2] > t[1] * s[2]

\* The places that are kept, highest score first; outcomes that score the same stay in
\* the order they came in.
Sorted(outcomes, places, objective) ==
    LET behind(i) == {j \in places : \/ Better(outcomes[i], outcomes[j], objective)
                                     \/ ~Better(outcomes[j], outcomes[i], objective) /\ i < j}
    IN InOrder(places, UNION {{i} \X behind(i) : i \in places})

\* rank: an action that loses production answers no shortfall.
Ranked(outcomes, objective) ==
    LET kept == {i \in DOMAIN outcomes : Available(outcomes[i]) /\ (objective # "MINIMIZE_COST" => outcomes[i].delta > 0)}
        order == Sorted(outcomes, kept, objective)
    IN [n \in DOMAIN order |-> outcomes[order[n]]]

\* What a recommendation carries of its outcome into the ranking.
OutcomeStub(o) == [o EXCEPT !.checks = {}]

\* recommendations.build: what gains nothing is blocked under every objective.
Offered(outcomes, objective) ==
    LET kept == {i \in DOMAIN outcomes : Available(outcomes[i]) /\ outcomes[i].delta > 0}
        order == Sorted([i \in DOMAIN outcomes |-> OutcomeStub(outcomes[i])], kept, objective)
    IN [n \in DOMAIN order |-> outcomes[order[n]]]

First(s, n) == SubSeq(s, 1, AtMost(Len(s), n))

-----------------------------------------------------------------------------
\* A request, from its situation to its answer.

\* build_context: the model's forecast, else what was recorded, else what was planned.
Context(row) ==
    LET backed == row.status # "none" /\ records.forecast # Unstated
    IN [at |-> time,
        backed |-> backed,
        baseline |-> IF backed THEN records.forecast ELSE IF row.actual # Unstated THEN row.actual ELSE row.planned,
        status |-> records.status, response |-> records.response,
        age |-> row.age, found |-> row.found, needed |-> row.needed]

Ask(r) ==
    /\ request = <<>> /\ Len(results) < MaxRequests
    /\ asked' = Remember({"production"})
    /\ LET row == asked'["production"].answer
           here == IF row = <<>> THEN <<>> ELSE <<Context(row[1])>>
       IN IF here = <<>> \/ here[1].baseline = Unstated
          THEN \* nothing to simulate against: no action is evaluated
               /\ results' = Append(results, [kind |-> r.kind, objective |-> r.objective, at |-> time,
                                              considered |-> <<>>, selected |-> <<>>,
                                              mode |-> "INSUFFICIENT_DATA", grade |-> "UNAVAILABLE",
                                              projected |-> Unstated, filed |-> FALSE])
               /\ UNCHANGED <<request, context>>
          ELSE /\ request' = <<r>> /\ context' = here
               /\ UNCHANGED results
    /\ UNCHANGED <<past, time, economics, considered>>

Excluded(item) ==
    [key |-> item.action, magnitude |-> 0, shift |-> item.shift, delta |-> Unstated, mode |-> "INSUFFICIENT_DATA",
     checks |-> {}, grade |-> "UNAVAILABLE", cost |-> Unstated, risk |-> 0, rejected |-> TRUE, at |-> time]

TooRisky(r, outcome) == r.tolerance = "CONSERVATIVE" /\ Available(outcome) /\ outcome.risk > 100

\* What a search for a route says; it may raise.
Routes(action) == IF action = "fleet_reroute" THEN {records.route, "unknown"} ELSE {records.route}

\* One action: excluded by the controls, or evaluated; a conservative manager declines
\* one that adds more than a tenth of risk.
EvaluateNext ==
    /\ request # <<>> /\ Len(considered) < Len(Worklist(request[1]))
    /\ LET item == Worklist(request[1])[Len(considered) + 1]
       IN IF request[1].kind = "controls" /\ item.magnitude = 0
          THEN /\ considered' = Append(considered, Excluded(item))
               /\ UNCHANGED <<asked, economics>>
          ELSE /\ asked' = Remember(Asks(item.action))
               /\ economics' = <<Economics>>
               /\ \E route \in Routes(item.action) :
                    LET answers == [q \in Queries |-> IF q \in DOMAIN asked' THEN asked'[q].answer ELSE <<>>]
                        checks == ChecksOf(item.action, item.magnitude, item.shift, route, answers)
                        outcome == Evaluated(context[1], item, checks, economics'[1], time)
                    IN considered' = Append(considered,
                        [outcome EXCEPT !.rejected = @ \/ TooRisky(request[1], outcome)])
    /\ UNCHANGED <<past, time, request, context, results>>

Selected(r) ==
    CASE r.kind = "controls" -> First(Ranked(considered, r.objective), r.limit)
      [] r.kind = "named" -> Ranked(considered, r.objective)
      [] r.kind = "plan" -> First(Offered(considered, r.objective), 5)

Mode(selected) ==
    IF selected = <<>> THEN "INSUFFICIENT_DATA"
    ELSE IF \A o \in Range(selected) : o.mode = "MODEL_BACKED" THEN "MODEL_BACKED" ELSE "HEURISTIC"

\* A response is only as well supported as its weakest action.
Grade(selected) == Weakest(IF selected = <<>> THEN {"UNAVAILABLE"} ELSE {o.grade : o \in Range(selected)})

\* The answer; a plan with actions is stored and a scenario is written to the ledger
\* of predictions, either of which may fail without failing the request.
Respond ==
    /\ request # <<>> /\ Len(considered) = Len(Worklist(request[1]))
    /\ LET r == request[1]
           selected == Selected(r)
       IN \E saved \in BOOLEAN : results' = Append(results,
            [kind |-> r.kind, objective |-> r.objective, at |-> context[1].at,
             considered |-> considered, selected |-> selected,
             mode |-> Mode(selected), grade |-> Grade(selected),
             projected |-> context[1].baseline + Total([i \in DOMAIN selected |-> selected[i].delta]),
             filed |-> saved /\ (r.kind = "plan" => selected # <<>>)])
    /\ request' = <<>> /\ context' = <<>> /\ considered' = <<>>
    /\ UNCHANGED <<past, time, asked, economics>>

ScenarioNext ==
    \/ ScenarioTick \/ RecordsChange
    \/ \E r \in Requests : Ask(r)
    \/ EvaluateNext \/ Respond

ScenarioSpec == ScenarioInit /\ [][ScenarioNext]_scenarioVars

-----------------------------------------------------------------------------
\* What the records said less than QUERY_TTL before a moment.
SaidBefore(at) ==
    {past[i].records : i \in {j \in DOMAIN past :
        past[j].from <= at /\ (j < Len(past) => past[j + 1].from > at - QUERY_TTL)}}

\* The rule that governs an action, on what the records say: a redeployment asks for
\* a unit, a deferral for nothing, and Unstated is below every limit.  Blasting and
\* trimming do not depend on the records, and the route was searched once, whether or
\* not a query is answered.
Permits(r, o) ==
    CASE o.key = "equipment_redeploy" -> r.up /\ r.units /\ r.risk <= 60
      [] o.key = "maintenance_defer" -> r.up /\ r.overdue <= 14
      [] o.key = "blast_reschedule" -> o.shift \notin {"", "S3"}
      [] o.key = "crusher_speed_trim" -> o.magnitude <= 20
      [] o.key = "fleet_reroute" -> r.route = "exists"
      [] o.key = "extend_operating_hours" ->
            r.up /\ r.row /\ r.hours # Unstated /\ r.hours * (100 + o.magnitude) <= 1200

\* An action that is offered was permitted by the records as they were less than
\* twenty seconds before it was evaluated, whatever was read before, failed to be
\* read or changed since: a check that could not be run blocks (constraints.py:64,
\* :166).  Missing telemetry does not: where no unit states its risk the redeployment is
\* permitted at 0 % (constraints.py:221), and where none states its overdue days, or
\* none is registered, so is the deferral (:299), against constraints.py:6-10 and
\* DECISION_OPERATING_MODEL.md:301.
SelectedWasPermitted ==
    \A i \in DOMAIN results : \A o \in Range(results[i].selected) :
        \E r \in SaidBefore(o.at) : Permits(r, o)

\* A response graded HIGH rests on nothing but forecasts of the approved champion,
\* on checks that all were evaluated, and on records that were less than two hours
\* old and nearly complete when they were read (evidence.py:315, response_plan.py:198).
HighIsEarned ==
    \A i \in DOMAIN results : results[i].grade = "HIGH" =>
        /\ results[i].mode = "MODEL_BACKED"
        /\ \A o \in Range(results[i].selected) : \A c \in o.checks : c.outcome # "NOT_EVALUATED"
        /\ \E r \in SaidBefore(results[i].at) : r.row /\ r.age < 120 /\ 100 * r.found >= 75 * r.needed

\* The records a response rests on, when all it read, from memory or not, were the same.
StoodStill(result) ==
    {r \in SaidBefore(result.at) :
        \A o \in Range(result.selected) : SaidBefore(result.at) \cup SaidBefore(o.at) = {r}}

\* The Command Center and the scenario page do not disagree about which action
\* leads (recommendations.py:265), as far as the memory allows: two responses to one
\* objective order the same two proposals alike, unless they score the same, once the
\* records have stood still for as long as answers are remembered.  The two are built
\* by different routes, from answers and economics remembered at different times.
PagesAgree ==
    LET same(o, p) == o.key = p.key /\ o.magnitude = p.magnitude /\ o.shift = p.shift
    IN \A i, j \in DOMAIN results :
        /\ results[i].objective = results[j].objective
        /\ StoodStill(results[i]) \cap StoodStill(results[j]) # {}
        => \A a, b \in DOMAIN results[i].selected, c, d \in DOMAIN results[j].selected :
              (/\ a < b /\ d < c
               /\ same(results[i].selected[a], results[j].selected[c])
               /\ same(results[i].selected[b], results[j].selected[d])) =>
                  ~Better(results[i].selected[a], results[i].selected[b], results[i].objective)

\* The responses that are offered are sound: an action was permitted by records
\* that are recent, a HIGH grade was earned by the evidence, and two pages that
\* answer one objective on records that stand still order their actions alike.
OffersSound == SelectedWasPermitted /\ HighIsEarned /\ PagesAgree
===============================================================================
