----------------------------- MODULE MaterialFlow -----------------------------
(***************************************************************************)
(* Where a mine's material flow is constrained (core/bottleneck.py).        *)
(*                                                                         *)
(* analyse is memoised, and so is the latest shift it reads; the aggregates *)
(* it compares with are cached for as long as the process lives.  Each of   *)
(* its reads is a query of its own, and shifts are recorded in between.     *)
(* Tonnes, minutes and percentages are integers; Null is SQL's NULL.        *)
(***************************************************************************)
EXTENDS Integers, Sequences, SequencesExt, Subsequences

CONSTANTS
    Analysts,       \* the callers of analyse
    Shifts,         \* the production records that may be made
    Fleets,         \* the machines the telemetry knows: [machines, trucks, payload]
    FLOW_TTL,       \* the ttl of both memos
    MaxShifts, MaxFlowTime

Null == -1
Amount == Nat \cup {Null}

ASSUME FlowAssumption ==
    /\ FLOW_TTL \in Nat \ {0} /\ MaxShifts \in Nat /\ MaxFlowTime \in Nat
    /\ Shifts \subseteq [actual : Amount, ore : Amount, plant : Amount, loading : Amount, cycle : Amount,
                          queue : Nat, hours : Amount, active : Amount, stock : Amount]
    /\ Fleets \subseteq [machines : Nat, trucks : Nat, payload : Amount]

VARIABLES
    flowNow,        \* time.monotonic()
    shifts,         \* ops.production_records of the mine, oldest first
    fleet,          \* ops.equipment_telemetry of the mine
    shiftMemo,      \* _latest_shift: [at, shift], shift Null where there is none
    flowMemo,       \* analyse: [at, report]
    aggregates,     \* the three lru caches, by name, when they are filled
    analysis        \* the analysis each of Analysts asks for

flowVars == <<flowNow, shifts, fleet, shiftMemo, flowMemo, aggregates, analysis>>

StageOrder == <<"face", "loading", "haulage", "processing", "stockpile">>
Stages == Range(StageOrder)
Aggregates == {"peaks", "fleet", "ceiling"}

\* A stage is the throughput and the capacity it was found to have.
Unavailable == [throughput |-> Null, capacity |-> Null]
NoReport == [stages |-> [s \in Stages |-> Unavailable], named |-> "none", asOf |-> 0]
NoAnalysis == [pc |-> "idle", began |-> 0, shift |-> Null, readAt |-> 0, report |-> NoReport]

FlowInit ==
    /\ flowNow = 0
    /\ shifts = <<>>
    /\ fleet \in Fleets
    /\ shiftMemo = [at |-> -FLOW_TTL, shift |-> Null]
    /\ flowMemo = [at |-> -FLOW_TTL, report |-> NoReport]
    /\ aggregates = [name \in {} |-> Null]
    /\ analysis = [a \in Analysts |-> NoAnalysis]

FlowTick ==
    /\ flowNow < MaxFlowTime
    /\ flowNow' = flowNow + 1
    /\ UNCHANGED <<shifts, fleet, shiftMemo, flowMemo, aggregates, analysis>>

RecordShift ==
    /\ Len(shifts) < MaxShifts
    /\ \E s \in Shifts : shifts' = Append(shifts, s)
    /\ UNCHANGED <<flowNow, fleet, shiftMemo, flowMemo, aggregates, analysis>>

\* Other machines report.
FleetReports ==
    /\ fleet' \in Fleets \ {fleet}
    /\ UNCHANGED <<flowNow, shifts, shiftMemo, flowMemo, aggregates, analysis>>

-----------------------------------------------------------------------------
\* The aggregates over the shifts that have what they need; a Null does not count.

Having(fields) == {i \in DOMAIN shifts : \A f \in fields : shifts[i][f] # Null}

\* The values of a field, ascending.
Ascending(field, rows) ==
    LET before == {p \in rows \X rows :
            \/ shifts[p[1]][field] < shifts[p[2]][field]
            \/ shifts[p[1]][field] = shifts[p[2]][field] /\ p[1] < p[2]}
        order == InOrder(rows, before)
    IN [n \in DOMAIN order |-> shifts[order[n]][field]]

\* PERCENTILE_CONT(0.95): between the two values around 95 % of the way.
Percentile95(values) ==
    LET place == 95 * (Len(values) - 1)
        below == place \div 100 + 1
        part == place % 100
    IN IF values = <<>> THEN Null
       ELSE IF part = 0 THEN values[below]
       ELSE (values[below] * (100 - part) + values[below + 1] * part) \div 100

Average(values) ==
    IF values = <<>> THEN Null ELSE Total(values) \div Len(values)

\* What each lru cache computes when it is empty.
Computed(name) ==
    LET stocked == Ascending("stock", Having({"stock"}))
    IN CASE name = "peaks" -> [peak |-> Percentile95(Ascending("actual", Having({"actual"}))),
                               available |-> Average(Ascending("loading", Having({"actual", "loading"})))]
         [] name = "fleet" -> fleet
         [] name = "ceiling" -> IF stocked = <<>> THEN Null ELSE Last(stocked)

-----------------------------------------------------------------------------
\* The stages.

Stage(throughput, capacity) == [throughput |-> throughput, capacity |-> capacity]

Face(shift) == IF shift.ore = Null THEN Unavailable ELSE Stage(shift.actual, shift.ore)

\* The best demonstrated rate, scaled by today's availability of the loaders.
Loading(shift) ==
    LET peak == aggregates["peaks"].peak
        usual == aggregates["peaks"].available
    IN IF peak = Null \/ shift.actual = Null THEN Unavailable
       ELSE IF shift.loading = Null \/ usual \in {Null, 0} THEN Stage(shift.actual, peak)
       ELSE Stage(shift.actual, (peak * shift.loading) \div usual)

\* The trucks among the machines at work, each making the trips its cycle allows.
Haulage(shift) ==
    LET f == aggregates["fleet"]
        minutes == shift.cycle + shift.queue
    IN IF \/ Null \in {shift.cycle, shift.hours, shift.active, f.payload}
          \/ f.machines = 0
          \/ minutes <= 0
          \/ shift.active * f.trucks = 0
       THEN Unavailable
       ELSE Stage(shift.actual,
                  (shift.active * f.trucks * shift.hours * 60 * f.payload) \div (f.machines * minutes))

Processing(shift) == IF shift.plant = Null THEN Unavailable ELSE Stage(shift.actual, shift.plant)

\* A buffer: what lies on it, against the most that ever did.
Stockpile(shift) == IF shift.stock = Null THEN Unavailable
                    ELSE Stage(shift.stock, aggregates["ceiling"])

StagesOf(shift) ==
    [s \in Stages |->
        CASE s = "face" -> Face(shift) [] s = "loading" -> Loading(shift)
          [] s = "haulage" -> Haulage(shift) [] s = "processing" -> Processing(shift)
          [] s = "stockpile" -> Stockpile(shift)]

\* Stage.utilisation is not None.
Measured(stage) == stage.throughput # Null /\ stage.capacity \notin {Null, 0}

\* A buffer does not constrain the flow, whatever is on it.
Candidates(stages) == {s \in Stages \ {"stockpile"} : Measured(stages[s])}

MoreUtilised(a, b) == a.throughput * b.capacity > b.throughput * a.capacity

\* The first of the most utilised stages.
Constraint(stages) ==
    LET found == {i \in DOMAIN StageOrder :
            /\ StageOrder[i] \in Candidates(stages)
            /\ \A t \in Candidates(stages) : ~MoreUtilised(stages[t], stages[StageOrder[i]])}
    IN IF found = {} THEN "none" ELSE StageOrder[Min(found)]

-----------------------------------------------------------------------------
\* analyse.

AnalyseEnter(a) ==
    /\ analysis[a].pc = "idle"
    /\ analysis' = [analysis EXCEPT ![a] =
          IF flowNow - flowMemo.at < FLOW_TTL
          THEN [NoAnalysis EXCEPT !.pc = "told", !.began = flowNow, !.report = flowMemo.report]
          ELSE [NoAnalysis EXCEPT !.pc = "shift", !.began = flowNow]]
    /\ UNCHANGED <<flowNow, shifts, fleet, shiftMemo, flowMemo, aggregates>>

\* _latest_shift, through its memo.
AnalyseShift(a) ==
    /\ analysis[a].pc = "shift"
    /\ shiftMemo' = IF flowNow - shiftMemo.at < FLOW_TTL THEN shiftMemo
                    ELSE [at |-> flowNow, shift |-> IF shifts = <<>> THEN Null ELSE Len(shifts)]
    /\ analysis' = [analysis EXCEPT ![a] =
          [@ EXCEPT !.shift = shiftMemo'.shift, !.readAt = shiftMemo'.at,
                    !.pc = IF shiftMemo'.shift = Null THEN "told" ELSE "peaks",
                    !.report = [NoReport EXCEPT !.asOf = shiftMemo'.at]]]
    /\ flowMemo' = IF shiftMemo'.shift # Null THEN flowMemo
                   ELSE [at |-> analysis[a].began, report |-> [NoReport EXCEPT !.asOf = shiftMemo'.at]]
    /\ UNCHANGED <<flowNow, shifts, fleet, aggregates>>

\* The lru caches, one after the other; one that is empty is filled with what the
\* records say now.  A shift without a stock does not ask for the ceiling.
AnalyseAggregate(a, name) ==
    /\ analysis[a].pc = name
    /\ analysis' = [analysis EXCEPT ![a] =
          [@ EXCEPT !.pc = CASE name = "peaks" -> "fleet"
                             [] name = "fleet" -> "ceiling"
                             [] name = "ceiling" -> "report"]]
    /\ aggregates' = IF name \in DOMAIN aggregates \/ (name = "ceiling" /\ shifts[analysis[a].shift].stock = Null)
                     THEN aggregates
                     ELSE [n \in DOMAIN aggregates \cup {name} |-> IF n = name THEN Computed(n) ELSE aggregates[n]]
    /\ UNCHANGED <<flowNow, shifts, fleet, shiftMemo, flowMemo>>

\* The report is memoised as of the moment the call began.
Reported(a) ==
    LET stages == StagesOf(shifts[analysis[a].shift])
    IN [stages |-> stages, named |-> Constraint(stages), asOf |-> analysis[a].readAt]

\* Mutant: memoised as of the moment it is done.
MemoisedAsOfNow(a) == [at |-> flowNow, report |-> Reported(a)]

Memoised(a) == [at |-> analysis[a].began, report |-> Reported(a)]

AnalyseReport(a) ==
    /\ analysis[a].pc = "report"
    /\ flowMemo' = Memoised(a)
    /\ analysis' = [analysis EXCEPT ![a] = [@ EXCEPT !.pc = "told", !.report = Reported(a)]]
    /\ UNCHANGED <<flowNow, shifts, fleet, shiftMemo, aggregates>>

\* A query raises: nothing is cached.
AnalyseRaises(a) ==
    /\ analysis[a].pc \in {"shift"} \cup Aggregates
    /\ analysis' = [analysis EXCEPT ![a] = NoAnalysis]
    /\ UNCHANGED <<flowNow, shifts, fleet, shiftMemo, flowMemo, aggregates>>

AnalyseTold(a) ==
    /\ analysis[a].pc = "told"
    /\ analysis' = [analysis EXCEPT ![a] = NoAnalysis]
    /\ UNCHANGED <<flowNow, shifts, fleet, shiftMemo, flowMemo, aggregates>>

FlowNext ==
    \/ FlowTick \/ RecordShift \/ FleetReports
    \/ \E a \in Analysts :
        \/ AnalyseEnter(a) \/ AnalyseShift(a) \/ AnalyseReport(a) \/ AnalyseRaises(a) \/ AnalyseTold(a)
        \/ \E name \in Aggregates : AnalyseAggregate(a, name)

FlowSpec == FlowInit /\ [][FlowNext]_flowVars

-----------------------------------------------------------------------------
\* An analysis is of a shift that was the latest one less than twice the ttl
\* before the call began, or later: each of the two memos may be a ttl old, and a
\* slow call may replace the report of a faster one (memo.py:69).
AnalysisAgeBounded ==
    \A a \in Analysts :
        analysis[a].pc = "told" => analysis[a].began - analysis[a].report.asOf < 2 * FLOW_TTL

\* The stage that is named runs out first as production rises: it is one that was
\* measured, and no other measured stage has less headroom (bottleneck.py:482).
\* A shift that produced nothing uses every stage alike.
NamedRunsOutFirst ==
    \A a \in Analysts :
        LET report == analysis[a].report
            headroom(s) == report.stages[s].capacity - report.stages[s].throughput
        IN report.named # "none" =>
            /\ report.named # "stockpile" /\ Measured(report.stages[report.named])
            /\ \A s \in Candidates(report.stages) :
                  report.stages[s].throughput > 0 => headroom(report.named) <= headroom(s)

\* The analysis of the material flow can be acted on: what is shown is no older
\* than two lifetimes, and the stage named as the bottleneck does run out first.
FlowSound == AnalysisAgeBounded /\ NamedRunsOutFirst
===============================================================================
