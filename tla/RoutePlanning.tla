----------------------------- MODULE RoutePlanning -----------------------------
(***************************************************************************)
(* Planning a route over the terrain around a mine (core/routing/astar.py,   *)
(* routers/routing.py).  A request is one of                                 *)
(*   optimize: a recommended route, alternatives to it, and the shortest one; *)
(*   compare:  a route under the conditions before and one under those after. *)
(* Each leg of a route is a search of its own, of which one expansion is one  *)
(* step.  Lengths are in twelfths of a cell's width, a diagonal taken for 17;  *)
(* costs are doubled, so that the mean of two rates is an integer.          *)
(***************************************************************************)
EXTENDS HaulageCost, Subsequences, Functions

CONSTANTS
    N,              \* cells along a side of the grid
    Terrains,       \* grounds of all cells: functions from Cells
    RouteRequests,  \* [kind, points, vehicle, conditions, after, alternatives]
    CORRIDOR        \* corridor_cells

Cells == (0 .. N - 1) \X (0 .. N - 1)

RouteRequest ==
    [kind : {"optimize", "compare"}, points : Seq(Int \X Int), vehicle : STRING,
     conditions : Conditions, after : Conditions, alternatives : 0 .. 4]

ASSUME RouteAssumption ==
    /\ N \in Nat \ {0} /\ CORRIDOR \in Nat
    /\ Terrains \subseteq [Cells -> Ground]
    /\ RouteRequests \subseteq RouteRequest


VARIABLES
    terrain, request,
    phase,          \* whose conditions and weights: "recommended", "shortest", "before", "after"
    label,          \* the route being planned: that of the phase, or an "alternative"
    surface,        \* [rate, blocked]: the CostSurface of the phase
    penalty,        \* what keeps alternatives away from the routes found
    search,         \* the search for a leg: [to, g, came, closed, open]
    merged,         \* the cells of the legs before it
    leg,            \* its number
    routes,         \* the routes found: [phase, label, cells]
    tried,          \* alternatives looked for in this phase
    answer          \* "none" until the request is answered or refused

routeVars == <<terrain, request, phase, label, surface, penalty, search, merged, leg, routes, tried, answer>>

Size(n) == IF n < 0 THEN -n ELSE n
Larger(a, b) == IF a > b THEN a ELSE b
LeastOf(S) == CHOOSE x \in S : \A y \in S : x <= y

Apart(a, b) == Larger(Size(a[1] - b[1]), Size(a[2] - b[2]))
Index(c) == c[1] * N + c[2]
Length(a, b) == IF a[1] = b[1] \/ a[2] = b[2] THEN 12 ELSE 17

\* The straight line between two cells, rounded down.
Straight(a, b) ==
    LET square == 144 * ((a[1] - b[1]) * (a[1] - b[1]) + (a[2] - b[2]) * (a[2] - b[2]))
    IN CHOOSE d \in 0 .. 17 * N : d * d <= square /\ square < (d + 1) * (d + 1)

NoSurface == [rate |-> <<>>, blocked |-> {}]
NoSearch == [to |-> <<0, 0>>, g |-> <<>>, came |-> <<>>, closed |-> {}, open |-> {}]
Unpenalised == [c \in Cells |-> 0]

RouteInit ==
    /\ terrain \in Terrains /\ request \in RouteRequests
    /\ phase = IF request.kind = "optimize" THEN "recommended" ELSE "before"
    /\ label = phase
    /\ surface = NoSurface /\ penalty = Unpenalised
    /\ search = NoSearch /\ merged = <<>> /\ leg = 1
    /\ routes = <<>> /\ tried = 0
    /\ answer = "none"

-----------------------------------------------------------------------------
\* The stops of a request: its points without those on the cell of the one before.
Stops ==
    LET points == request.points
        kept[n \in 0 .. Len(points)] ==
            IF n = 0 THEN <<>>
            ELSE IF n > 1 /\ points[n] = points[n - 1] THEN kept[n - 1]
            ELSE Append(kept[n - 1], points[n])
    IN kept[Len(points)]

\* The distance-only surface keeps the hard constraints.
CostSurface(name) ==
    LET conditions == IF name = "after" THEN request.after ELSE request.conditions
        vehicle == Vehicle(request.vehicle)
    IN [rate |-> [c \in Cells |-> IF name = "shortest" THEN ALPHA ELSE Rate(terrain[c], conditions, vehicle)],
        blocked |-> {c \in Cells : Blocked(terrain[c], conditions, vehicle)}]

\* Mutant: the corridors of the phase before are still penalised.
PenaltyAtStartKept == penalty

PenaltyAtStart == Unpenalised

Prepare ==
    /\ answer = "none" /\ surface = NoSurface
    /\ surface' = CostSurface(phase)
    /\ penalty' = PenaltyAtStart
    /\ answer' = IF \E i \in DOMAIN request.points : request.points[i] \notin Cells THEN "outside"
                 ELSE IF Len(Stops) < 2 THEN "same_cell"
                 ELSE "none"
    /\ UNCHANGED <<terrain, request, phase, label, search, merged, leg, routes, tried>>

-----------------------------------------------------------------------------
\* astar

MinRate ==
    LET traversable == {surface.rate[c] : c \in Cells \ surface.blocked}
    IN IF traversable = {} THEN ALPHA ELSE Larger(ALPHA, LeastOf(traversable))

MeanRate ==
    Total([row \in 1 .. N |-> Total([column \in 1 .. N |-> surface.rate[<<row - 1, column - 1>>]])]) \div (N * N)

\* Mutant: a heuristic tuned for speed, by the mean rate.
EstimateByMean(c, to) == 2 * Straight(c, to) * MeanRate

\* What remains at least: the straight line at the cheapest rate there is.
Estimate(c, to) == 2 * Straight(c, to) * MinRate

StepCost(a, b) == (surface.rate[a] + surface.rate[b] + 2 * penalty[b]) * Length(a, b)

\* heapq: by estimated cost, then by index.
Before(e, f) == e[1] < f[1] \/ (e[1] = f[1] /\ Index(e[2]) <= Index(f[2]))
Top == CHOOSE e \in search.open : \A f \in search.open : Before(e, f)
Searching == answer = "none" /\ search.open # {}

Neighbours(c) == {d \in Cells : Apart(c, d) = 1 /\ d \notin surface.blocked /\ d \notin search.closed}

SkipClosed ==
    /\ Searching /\ Top[2] \in search.closed
    /\ search' = [search EXCEPT !.open = @ \ {Top}]
    /\ UNCHANGED <<terrain, request, phase, label, surface, penalty, merged, leg, routes, tried, answer>>

Expand ==
    /\ Searching /\ Top[2] \notin search.closed /\ Top[2] # search.to
    /\ LET c == Top[2]
           via(d) == search.g[c] + StepCost(c, d)
           better == {d \in Neighbours(c) : d \in DOMAIN search.g => via(d) < search.g[d]}
       IN search' = [search EXCEPT
            !.closed = @ \cup {c},
            !.g = [d \in DOMAIN @ \cup better |-> IF d \in better THEN via(d) ELSE @[d]],
            !.came = [d \in DOMAIN @ \cup better |-> IF d \in better THEN c ELSE @[d]],
            !.open = (@ \ {Top}) \cup {<<via(d) + Estimate(d, search.to), d>> : d \in better}]
    /\ UNCHANGED <<terrain, request, phase, label, surface, penalty, merged, leg, routes, tried, answer>>

PathFound ==
    LET path[c \in Cells] == IF c \in DOMAIN search.came THEN Append(path[search.came[c]], c) ELSE <<c>>
    IN path[search.to]

-----------------------------------------------------------------------------
\* route_through, alternative_routes, and the handlers around them

NoMoreSearch == search' = NoSearch /\ merged' = <<>> /\ leg' = 1

\* The surface of the next phase is built anew; after the last one there is the answer.
TurnTo(next) ==
    /\ phase' = next /\ label' = next /\ surface' = NoSurface /\ tried' = 0
    /\ UNCHANGED answer

NextPhase ==
    CASE phase = "recommended" -> TurnTo("shortest")
      [] phase = "before" -> TurnTo("after")
      [] OTHER -> answer' = "answered" /\ UNCHANGED <<phase, label, surface, tried>>

\* Without a route to recommend the request is refused; an alternative or the shortest
\* route may be missing.
RouteFails(reason) ==
    /\ NoMoreSearch
    /\ IF label \in {"alternative", "shortest"} THEN NextPhase
       ELSE answer' = reason /\ UNCHANGED <<phase, label, surface, tried>>
    /\ UNCHANGED <<terrain, request, penalty, routes>>

BeginLeg ==
    /\ answer = "none" /\ surface # NoSurface /\ search = NoSearch
    /\ LET from == Stops[leg]
           to == Stops[leg + 1]
       IN IF from \in surface.blocked THEN RouteFails("start_blocked")
          ELSE IF to \in surface.blocked THEN RouteFails("goal_blocked")
          ELSE /\ search' = [to |-> to, g |-> [c \in {from} |-> 0], came |-> <<>>, closed |-> {},
                             open |-> {<<Estimate(from, to), from>>}]
               /\ UNCHANGED <<terrain, request, phase, label, surface, penalty, merged, leg, routes, tried, answer>>

LegUnreachable ==
    /\ answer = "none" /\ search # NoSearch /\ search.open = {}
    /\ RouteFails("unreachable")

\* The cells of the path are kept away from, with their surroundings.
WithCorridor(path) ==
    LET scale == (16 * Larger(ALPHA, MeanRate)) \div 10
        near(c) == {i \in DOMAIN path : Apart(c, path[i]) <= CORRIDOR}
    IN [c \in Cells |-> penalty[c] + scale * Cardinality(near(c))]

Wanted == IF request.kind = "optimize" THEN request.alternatives ELSE 2

MostlyIn(path, other) == 100 * Cardinality(Range(path) \cap Range(other)) > 85 * Len(path)

Rivals == {r \in Range(routes) : r.phase = phase}

Keep(path) == routes' = Append(routes, [phase |-> phase, label |-> label, cells |-> path])

MainRouteFound(path) ==
    /\ label # "alternative"
    /\ Keep(path)
    /\ penalty' = IF label = "shortest" THEN penalty ELSE WithCorridor(path)
    /\ IF label # "shortest" /\ Wanted > 0
       THEN label' = "alternative" /\ UNCHANGED <<phase, surface, tried, answer>>
       ELSE NextPhase

\* A near-duplicate is not kept, and counts as tried.
AlternativeFound(path) ==
    /\ label = "alternative"
    /\ IF \E r \in Rivals : MostlyIn(path, r.cells) THEN UNCHANGED routes ELSE Keep(path)
    /\ penalty' = WithCorridor(path)
    /\ IF tried + 1 < Wanted THEN tried' = tried + 1 /\ UNCHANGED <<phase, label, surface, answer>> ELSE NextPhase

LegFound ==
    /\ Searching /\ Top[2] \notin search.closed /\ Top[2] = search.to
    /\ LET path == IF merged = <<>> THEN PathFound ELSE merged \o Tail(PathFound)
       IN IF leg + 1 < Len(Stops)
          THEN /\ search' = NoSearch /\ merged' = path /\ leg' = leg + 1
               /\ UNCHANGED <<phase, label, surface, penalty, routes, tried, answer>>
          ELSE /\ NoMoreSearch
               /\ MainRouteFound(path) \/ AlternativeFound(path)
    /\ UNCHANGED <<terrain, request>>

RouteNext == Prepare \/ BeginLeg \/ SkipClosed \/ Expand \/ LegFound \/ LegUnreachable

RouteSpec == RouteInit /\ [][RouteNext]_routeVars

-----------------------------------------------------------------------------
\* _finalise: the length of a path, and what it costs and risks on a surface.

Distance(path) == Total([i \in 1 .. Len(path) - 1 |-> Length(path[i], path[i + 1])])
Cost(path, on) ==
    Total([i \in 1 .. Len(path) - 1 |-> (on.rate[path[i]] + on.rate[path[i + 1]]) * Length(path[i], path[i + 1])])
Risk(path, on) == Cost(path, on) - 2 * ALPHA * Distance(path)

\* Bellman and Ford: the cells that walks of at most n steps over open cells reach, each
\* with the least that one costs.
Further(reached) ==
    LET edges == {p \in reached \X (Cells \ surface.blocked) : Apart(p[1].cell, p[2]) = 1}
        longer == reached \cup {[cell |-> p[2], cost |-> p[1].cost + StepCost(p[1].cell, p[2])] : p \in edges}
    IN {e \in longer : \A f \in longer : e.cell = f.cell => e.cost <= f.cost}

CheapestFrom(from) ==
    LET within[n \in 0 .. N * N] == IF n = 0 THEN {[cell |-> from, cost |-> 0]} ELSE Further(within[n - 1])
    IN within[N * N]

\* A search that comes to an end has found the cheapest path over open cells, under
\* the penalties there are, and has found none only where there is none: a cell that is
\* closed is never opened again, which the heuristic has to allow, and a penalty blocks
\* nothing (astar.py:148, :307).
LegsAreCheapest ==
    LET ends == Searching /\ Top[2] \notin search.closed /\ Top[2] = search.to
        fails == answer = "none" /\ search # NoSearch /\ search.open = {}
    IN ends \/ fails =>
        LET ways == {e \in CheapestFrom(Stops[leg]) : e.cell = search.to}
        IN IF fails THEN ways = {} /\ label # "alternative"
           ELSE ways = {[cell |-> search.to, cost |-> search.g[search.to]]}

\* The recommended route may be longer than the shortest, but no riskier by the kilometre:
\* the explanation of a recommendation that "carries higher risk" is never given
\* (explain.py:170).
RecommendedIsSafer ==
    LET on == CostSurface("recommended") IN
    \A i, j \in DOMAIN routes :
        routes[i].label = "recommended" /\ routes[j].label = "shortest" =>
            /\ Distance(routes[i].cells) >= Distance(routes[j].cells)
            /\ Risk(routes[i].cells, on) * Distance(routes[j].cells)
                 <= Risk(routes[j].cells, on) * Distance(routes[i].cells)

\* No alternative is cheaper than the route it is an alternative to, and the routes
\* offered in a phase are all different, unless they take a cell twice.  Such
\* a route, out to a stop and back, may be offered again: MostlyIn counts its cells twice too (astar.py:332, :343).
AlternativesDiffer ==
    \A i, j \in DOMAIN routes :
        i < j /\ routes[i].phase = routes[j].phase =>
            /\ IsInjective(routes[j].cells) => routes[i].cells # routes[j].cells
            /\ routes[i].label # "alternative" =>
                 Cost(routes[i].cells, CostSurface(routes[i].phase)) <= Cost(routes[j].cells, CostSurface(routes[i].phase))

\* When other conditions change the recommendation, the old route has become impassable
\* or is no cheaper than the new one, and new conditions alone do that (routing.py:240).
ChangedForAReason ==
    LET on == CostSurface("after") IN
    \A i, j \in DOMAIN routes :
        routes[i].label = "before" /\ routes[j].label = "after" =>
            \/ Range(routes[i].cells) \cap on.blocked # {}
            \/ Cost(routes[i].cells, on) >= Cost(routes[j].cells, on)

\* What the planner tells is justified: the recommended route is no riskier by
\* the kilometre than the shortest, an alternative is no cheaper, and another route
\* unless it takes a cell twice, and a recommendation changes only for a reason in
\* the new conditions.
RoutesJustified == RecommendedIsSafer /\ AlternativesDiffer /\ ChangedForAReason
===============================================================================
