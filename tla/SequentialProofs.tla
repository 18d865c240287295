-------------------------- MODULE SequentialProofs --------------------------
(***************************************************************************)
(* Safety of parts of the gateway and the engine that stand on their own,  *)
(* one section for each: what a manager is offered, the operational          *)
(* decisions, the integrity of artifacts, the memo, the clock of a mine, the  *)
(* micro-cache of a process, the security audit log, the training of a model, *)
(* the material flow, the state of a mine and its attention queue.           *)
(***************************************************************************)
EXTENDS Decisions, ArtifactIntegrity, Memo, MineClock, L1Cache, SecurityAudit, ModelTraining,
        MaterialFlow, MineState, Scenarios, L1StoreProofs, FiniteSetTheorems, SequenceTheorems, WellFoundedInduction, TLAPS

-----------------------------------------------------------------------------
(* A set of numbers has a least one.                                       *)
LEMMA LeastNumber ==
    ASSUME NEW S \in SUBSET Nat, S # {}
    PROVE  \E n \in S : \A m \in S : n <= m
<1>1. PICK n \in S : \A m \in S : ~(<<m, n>> \in OpToRel(<, Nat))
  BY NatLessThanWellFounded, WFMin
<1>2. ASSUME NEW m \in S PROVE n <= m
  <2>1. ~(m < n)
    BY <1>1 DEF OpToRel
  <2> QED
    BY <2>1
<1> QED
  BY <1>2

(* An order on a finite set.                                               *)
Orders(ahead, members) ==
    /\ \A x \in members : <<x, x>> \notin ahead
    /\ \A x, y, z \in members : <<x, y>> \in ahead /\ <<y, z>> \in ahead => <<x, z>> \in ahead
    /\ \A x, y \in members : x = y \/ <<x, y>> \in ahead \/ <<y, x>> \in ahead

(* What sorting returns has every member once, after those ahead of it.       *)
LEMMA InOrderFacts ==
    ASSUME NEW members, IsFiniteSet(members), NEW ahead, Orders(ahead, members)
    PROVE  LET order == InOrder(members, ahead)
           IN  /\ order \in Seq(members) /\ Len(order) = Cardinality(members)
               /\ \A m, n \in DOMAIN order : m < n => <<order[m], order[n]>> \in ahead
               /\ \A x \in members : \E n \in DOMAIN order : order[n] = x
               /\ \A n \in DOMAIN order :
                     Cardinality({l \in members : <<l, order[n]>> \in ahead}) = n - 1
<1> DEFINE c == Cardinality(members)
           Before(x) == {l \in members : <<l, x>> \in ahead}
           order == InOrder(members, ahead)
<1>1. c \in Nat
  BY FS_CardinalityType
<1>2. ASSUME NEW x \in members
      PROVE  IsFiniteSet(Before(x)) /\ Cardinality(Before(x)) \in 0..(c - 1)
  <2>1. Before(x) \in SUBSET members /\ Before(x) # members
    BY DEF Orders
  <2>2. /\ IsFiniteSet(Before(x)) /\ Cardinality(Before(x)) <= c /\ Cardinality(Before(x)) # c
        /\ Cardinality(Before(x)) \in Nat
    BY <2>1, FS_Subset, FS_CardinalityType
  <2> HIDE DEF Before, c
  <2> QED
    BY <1>1, <2>2
<1>3. ASSUME NEW x \in members, NEW y \in members, <<x, y>> \in ahead
      PROVE  Cardinality(Before(x)) < Cardinality(Before(y))
  <2>1. Before(x) \in SUBSET Before(y) /\ Before(x) # Before(y)
    BY <1>3 DEF Orders
  <2>2. /\ Cardinality(Before(x)) <= Cardinality(Before(y))
        /\ Cardinality(Before(x)) # Cardinality(Before(y))
    BY <1>2, <2>1, FS_Subset
  <2>3. Cardinality(Before(x)) \in Nat /\ Cardinality(Before(y)) \in Nat
    BY <1>2, FS_CardinalityType
  <2> HIDE DEF Before
  <2> QED
    BY <2>2, <2>3
<1> DEFINE f == [x \in members |-> Cardinality(Before(x))]
<1>4. \A k \in 0..(c - 1) : \E x \in members : Cardinality(Before(x)) = k
  <2>1. f \in Injection(members, 0..(c - 1))
    <3>1. f \in [members -> 0..(c - 1)]
      BY <1>2
    <3>2. \A x, y \in members : f[x] = f[y] => x = y
      <4> SUFFICES ASSUME NEW x \in members, NEW y \in members, x # y PROVE f[x] # f[y]
        OBVIOUS
      <4>1. <<x, y>> \in ahead \/ <<y, x>> \in ahead
        BY DEF Orders
      <4>2. Cardinality(Before(x)) \in Nat /\ Cardinality(Before(y)) \in Nat
        BY <1>2, FS_CardinalityType
      <4>3. Cardinality(Before(x)) < Cardinality(Before(y)) \/ Cardinality(Before(y)) < Cardinality(Before(x))
        BY <1>3, <4>1
      <4> HIDE DEF Before
      <4> QED
        BY <4>2, <4>3
    <3> QED
      BY <3>1, <3>2 DEF Injection, IsInjective
  <2>2. IsFiniteSet(0..(c - 1)) /\ Cardinality(0..(c - 1)) = c
    <3>1. c - 1 \in Int /\ 0 \in Int /\ (0 > c - 1 <=> c = 0) /\ (c - 1) - 0 + 1 = c
      BY <1>1
    <3> HIDE DEF c
    <3> QED
      BY <1>1, <3>1, FS_Interval
  <2> HIDE DEF f
  <2>3. f \in Surjection(members, 0..(c - 1))
    BY <2>1, <2>2, FS_Injection
  <2> QED
    BY <2>3 DEF Surjection, f
<1>5. order = [n \in 1..c |-> CHOOSE m \in members : Cardinality(Before(m)) = n - 1]
  BY DEF InOrder
<1>6. \A n \in 1..c : order[n] \in members /\ Cardinality(Before(order[n])) = n - 1
  <2> SUFFICES ASSUME NEW n \in 1..c PROVE order[n] \in members /\ Cardinality(Before(order[n])) = n - 1
    OBVIOUS
  <2>1. n - 1 \in 0..(c - 1)
    BY <1>1
  <2>2. \E x \in members : Cardinality(Before(x)) = n - 1
    BY <1>4, <2>1
  <2> QED
    BY <1>5, <2>2
<1> HIDE DEF order, f
<1>7. order \in Seq(members) /\ Len(order) = c /\ DOMAIN order = 1..c
  <2>1. order \in [1..c -> members]
    BY <1>5, <1>6
  <2> HIDE DEF c
  <2> QED
    BY <1>1, <2>1
<1>8. ASSUME NEW x \in members PROVE \E n \in 1..c : order[n] = x
  <2>1. Cardinality(Before(x)) \in 0..(c - 1)
    BY <1>2
  <2>2. Cardinality(Before(x)) + 1 \in 1..c /\ (Cardinality(Before(x)) + 1) - 1 = Cardinality(Before(x))
    <3> HIDE DEF c, Before
    <3> QED
      BY <1>1, <2>1
  <2>3. PICK n \in 1..c : Cardinality(Before(x)) = n - 1
    BY <2>2
  <2>4. Cardinality(Before(order[n])) = n - 1 /\ order[n] \in members
    BY <1>6
  <2>5. ~(<<x, order[n]>> \in ahead) /\ ~(<<order[n], x>> \in ahead)
    <3>1. n - 1 \in Int /\ ~(n - 1 < n - 1)
      BY <1>1
    <3> QED
      BY <1>3, <2>3, <2>4, <3>1
  <2> QED
    BY <2>4, <2>5 DEF Orders
<1>9. ASSUME NEW m \in 1..c, NEW n \in 1..c, m < n PROVE <<order[m], order[n]>> \in ahead
  <2>a. order[m] \in members /\ order[n] \in members
    BY <1>6
  <2>b. m - 1 < n - 1 /\ ~(n - 1 < m - 1) /\ m - 1 # n - 1
    <3> HIDE DEF c
    <3> QED
      BY <1>1, <1>9
  <2>1. order[m] \in members /\ order[n] \in members /\ m - 1 < n - 1 /\ ~(n - 1 < m - 1)
    BY <2>a, <2>b
  <2>2. order[m] # order[n]
    BY <1>6, <2>b
  <2>3. ~(<<order[n], order[m]>> \in ahead)
    BY <1>3, <1>6, <2>1
  <2> QED
    BY <2>1, <2>2, <2>3 DEF Orders
<1>10. \A n \in 1..c : Cardinality({l \in members : <<l, order[n]>> \in ahead}) = n - 1
  BY <1>6
<1> QED
  BY <1>7, <1>8, <1>9, <1>10 DEF order

(* A sum of numbers of a kind that is closed under addition is of that kind.  *)
LEMMA TotalFacts ==
    ASSUME NEW D, 0 \in D, \A x, y \in D : x + y \in D, NEW values \in Seq(D)
    PROVE  Total(values) \in D
<1> DEFINE N == Len(values)
           Step(f, n) == IF n = 0 THEN 0 ELSE f[n - 1] + values[n]
           upTo[n \in 0..N] == IF n = 0 THEN 0 ELSE upTo[n - 1] + values[n]
<1>1. N \in Nat /\ \A n \in 1..N : values[n] \in D
  OBVIOUS
<1> HIDE DEF N
<1>2. \A k \in 0..N : \E f : f = [n \in 0..k |-> Step(f, n)]
  <2> DEFINE Bad == {k \in 0..N : ~\E f : f = [n \in 0..k |-> Step(f, n)]}
  <2> SUFFICES ASSUME Bad # {} PROVE FALSE
    OBVIOUS
  <2>1. PICK k \in Bad : \A j \in Bad : k <= j
    <3>1. Bad \in SUBSET Nat
      BY <1>1
    <3> HIDE DEF Bad
    <3> QED
      BY <3>1, LeastNumber
  <2>2. k \in 0..N /\ ~\E f : f = [n \in 0..k |-> Step(f, n)]
    OBVIOUS
  <2>3. CASE k = 0
    <3> DEFINE f == [n \in 0..0 |-> 0]
    <3>1. f = [n \in 0..0 |-> Step(f, n)]
      OBVIOUS
    <3> QED
      BY <2>2, <2>3, <3>1
  <2>4. CASE k # 0
    <3>1. k - 1 \in 0..N /\ k - 1 \notin Bad
      BY <1>1, <2>1, <2>2, <2>4
    <3>2. PICK g : g = [n \in 0..(k - 1) |-> Step(g, n)]
      BY <3>1
    <3> DEFINE f == [n \in 0..k |-> IF n = k THEN g[k - 1] + values[k] ELSE g[n]]
    <3>3. \A n \in 0..k : f[n] = Step(f, n)
      <4> SUFFICES ASSUME NEW n \in 0..k PROVE f[n] = Step(f, n)
        OBVIOUS
      <4>1. CASE n = k
        BY <1>1, <2>2, <2>4, <4>1
      <4>2. CASE n # k
        <5>1. n \in 0..(k - 1)
          BY <1>1, <2>2, <4>2
        <5>2. f[n] = g[n] /\ g[n] = Step(g, n)
          BY <3>2, <4>2, <5>1
        <5>3. n # 0 => n - 1 \in 0..k /\ n - 1 # k
          BY <1>1, <2>2, <5>1
        <5> QED
          BY <5>2, <5>3
      <4> QED
        BY <4>1, <4>2
    <3>4. f = [n \in 0..k |-> Step(f, n)]
      BY <3>3
    <3> QED
      BY <2>2, <3>4
  <2> QED
    BY <2>3, <2>4
<1>3. upTo = [n \in 0..N |-> Step(upTo, n)]
  <2>1. \E f : f = [n \in 0..N |-> Step(f, n)]
    <3>1. N \in 0..N
      BY <1>1
    <3> QED
      BY <1>2, <3>1, Zenon
  <2> QED
    BY <2>1
<1> HIDE DEF upTo
<1>4. \A n \in 0..N : upTo[n] \in D
  <2> DEFINE Bad == {n \in 0..N : upTo[n] \notin D}
  <2> SUFFICES ASSUME Bad # {} PROVE FALSE
    OBVIOUS
  <2>1. PICK k \in Bad : \A j \in Bad : k <= j
    <3>1. Bad \in SUBSET Nat
      BY <1>1
    <3> HIDE DEF Bad
    <3> QED
      BY <3>1, LeastNumber
  <2>2. k \in 0..N /\ upTo[k] \notin D /\ upTo[k] = Step(upTo, k)
    BY <1>3
  <2>3. CASE k = 0
    BY <2>2, <2>3
  <2>4. CASE k # 0
    <3>1. k - 1 \in 0..N /\ k - 1 \notin Bad /\ k \in 1..N
      BY <1>1, <2>1, <2>2, <2>4
    <3>2. upTo[k - 1] \in D /\ values[k] \in D
      BY <1>1, <3>1
    <3> QED
      BY <2>2, <2>4, <3>2
  <2> QED
    BY <2>3, <2>4
<1>5. Total(values) = upTo[N]
  BY DEF Total, upTo, N
<1> QED
  BY <1>1, <1>4, <1>5

-----------------------------------------------------------------------------
(***************************************************************************)
(* What a manager is offered, whatever is recorded, asked and remembered.    *)
(*                                                                         *)
(* The argument: an answer in memory is what the records said at a moment     *)
(* less than a ttl ago (AskedTells), so that a check which passed is true of   *)
(* records that are recent; the grade of an outcome is at most the least of    *)
(* its caps; a score is a fraction, whose order is total, so that sorting      *)
(* puts the best first on every page; and where nothing that was read from     *)
(* memory or the records differs, what is said of a proposal is a function of   *)
(* one record and of the economics (OutcomeOf), which are never reset.         *)
(***************************************************************************)

Grades == DOMAIN GradeRank
CheckType ==
    [key : {"equipment_availability", "maintenance_lockout", "shift_safety_window", "crusher_vibration_limit",
            "route_feasibility", "working_time_limit", "operator_availability", "telemetry_freshness"},
     kind : {"HARD", "SOFT"}, outcome : {"PASSED", "FAILED", "NOT_EVALUATED"}]

(* No prover knows that "S1" is a STRING.                                    *)
ShiftName == STRING \cup {"S1"}
Item == [action : Actions, magnitude : Nat, shift : ShiftName]

OutcomeType ==
    [key : Actions, magnitude : Nat, shift : ShiftName, delta : Int,
     mode : {"MODEL_BACKED", "HEURISTIC", "INSUFFICIENT_DATA"}, checks : SUBSET CheckType,
     grade : Grades, cost : Int, risk : Int, rejected : BOOLEAN, at : Nat]

ContextType ==
    [at : Nat, backed : BOOLEAN, baseline : Int, status : STRING, response : [Actions -> Int],
     age : Int, found : Nat, needed : Nat]

EconomicsType == [shifts : Nat, cost : [Actions -> Int]]

(* What the records said at a moment.                                       *)
SaidAt(at) ==
    {past[i].records : i \in {j \in DOMAIN past :
        past[j].from <= at /\ (j < Len(past) => past[j + 1].from >= at)}}

PastTells ==
    /\ time \in Nat
    /\ past \in Seq([from : Nat, records : ScenarioRecord]) /\ Len(past) \in {1, 2}
    /\ past[Len(past)].from <= time
    /\ Len(past) = 2 => past[1].from <= past[2].from
    /\ Len(past) = 1 => past[1].records \in Records

(* An answer in memory is what the records said when they were asked.        *)
TellsOf(query, r, answer) ==
    answer = IF ~r.up \/ (query \in {"production", "shift"} /\ ~r.row) THEN <<>> ELSE <<r>>

AnswerTells(query, a) ==
    /\ a.at \in Nat /\ a.at <= time
    /\ \E r \in SaidAt(a.at) : TellsOf(query, r, a.answer)

AskedTells == \A q \in DOMAIN asked : \A a \in Range(asked) : a = asked[q] => AnswerTells(q, a)

(* The situation of a record, the answers it gives, and what an evaluation of   *)
(* a proposal on it says.                                                   *)
SituationOf(r) ==
    LET backed == r.status # "none" /\ r.forecast # Unstated
    IN [at |-> 0, backed |-> backed,
        baseline |-> IF backed THEN r.forecast ELSE IF r.actual # Unstated THEN r.actual ELSE r.planned,
        status |-> r.status, response |-> r.response, age |-> r.age, found |-> r.found, needed |-> r.needed]

AnswersOf(r) == [q \in Queries |-> IF ~r.up \/ (q \in {"production", "shift"} /\ ~r.row) THEN <<>> ELSE <<r>>]

OutcomeOf(key, magnitude, shift, r, e) ==
    Evaluated(SituationOf(r), Proposed(key, magnitude, shift),
              ChecksOf(key, magnitude, shift, "exists", AnswersOf(r)), e, 0)

Alike(c, d) ==
    /\ c.backed = d.backed /\ c.baseline = d.baseline /\ c.status = d.status /\ c.response = d.response
    /\ c.age = d.age /\ c.found = d.found /\ c.needed = d.needed

ScoresAs(o, p) == o.delta = p.delta /\ o.grade = p.grade /\ o.cost = p.cost /\ o.risk = p.risk

(* Where one record was all that was read, an outcome says what it says.       *)
Settled(o, at, mem) ==
    /\ mem # <<>>
    /\ \A r : SaidBefore(at) \cup SaidBefore(o.at) = {r} =>
            ScoresAs(o, OutcomeOf(o.key, o.magnitude, o.shift, r, mem[1]))

(* The evidence behind a situation is a record that was recent in it.         *)
SituationTells(c) ==
    /\ c \in ContextType /\ c.at <= time
    /\ \E r \in SaidBefore(c.at) : r.row /\ c.age = r.age /\ c.found = r.found /\ c.needed = r.needed
    /\ \A r : SaidBefore(c.at) = {r} => Alike(c, SituationOf(r))

(* An outcome that is available was permitted, and a HIGH one is well founded. *)
OutcomeTells(o, c, mem) ==
    /\ o \in OutcomeType /\ o.at <= time
    /\ Available(o) =>
         /\ Settled(o, c.at, mem)
         /\ \E r \in SaidBefore(o.at) : Permits(r, o)
         /\ o.grade = "HIGH" =>
              /\ o.mode = "MODEL_BACKED" /\ \A k \in o.checks : k.outcome # "NOT_EVALUATED"
              /\ c.age < 120 /\ 100 * c.found >= 75 * c.needed

RequestTells ==
    /\ request = <<>> => considered = <<>>
    /\ request # <<>> =>
         /\ \E r \in Requests : request = <<r>>
         /\ considered \in Seq(OutcomeType)
         /\ \E c \in Range(context), mem \in {economics} :
              /\ context = <<c>> /\ SituationTells(c)
              /\ \A o \in Range(considered) : OutcomeTells(o, c, mem)

(* What was answered: permitted actions, in order, with the grade they earned. *)
ResultTells(res, mem) ==
    /\ res.at \in 0 .. time /\ res.selected \in Seq(OutcomeType)
    /\ \A n \in DOMAIN res.selected : Settled(res.selected[n], res.at, mem)
    /\ \A n \in DOMAIN res.selected :
         res.selected[n].at <= time /\ \E r \in SaidBefore(res.selected[n].at) : Permits(r, res.selected[n])
    /\ \A m, n \in DOMAIN res.selected : m < n => ~Better(res.selected[n], res.selected[m], res.objective)
    /\ res.grade = "HIGH" =>
         /\ res.mode = "MODEL_BACKED"
         /\ \A n \in DOMAIN res.selected : \A k \in res.selected[n].checks : k.outcome # "NOT_EVALUATED"
         /\ \E r \in SaidBefore(res.at) : r.row /\ r.age < 120 /\ 100 * r.found >= 75 * r.needed

ScenarioInv ==
    /\ PastTells /\ AskedTells
    /\ economics = <<>> \/ \E e \in Range(economics) : e \in EconomicsType /\ economics = <<e>>
    /\ RequestTells
    /\ results \in Seq(Range(results))
    /\ \A res \in Range(results), mem \in {economics} : ResultTells(res, mem)

-----------------------------------------------------------------------------
(* Multiplying two numbers by a positive one keeps their order.              *)
LEMMA ScaledOrder ==
    ASSUME NEW a \in Int, NEW b \in Int, NEW n \in Nat, n > 0
    PROVE  a >= b <=> a * n >= b * n
OBVIOUS

(* A quotient that reaches a bound had a dividend that reaches it.           *)
LEMMA QuotientBound ==
    ASSUME NEW x \in Nat, NEW n \in Nat, n > 0, NEW k \in Nat, x \div n >= k
    PROVE  x >= k * n
<1>1. PICK q \in Nat : q = x \div n /\ q * n <= x
  OBVIOUS
<1>2. q * n >= k * n
  BY <1>1, ScaledOrder
<1> QED
  BY <1>1, <1>2

(* Scores: fractions, and one below all.                                     *)
Score3 == {s \in Int \X Nat : s[2] = 0 => s[1] < 0}
NoWorse(s, t) == s[1] * t[2] >= t[1] * s[2]

LEMMA NoWorseTransitive ==
    ASSUME NEW s \in Score3, NEW t \in Score3, NEW u \in Score3, NoWorse(s, t), NoWorse(t, u)
    PROVE  NoWorse(s, u)
<1> DEFINE a == s[1]
           b == s[2]
           c == t[1]
           d == t[2]
           e == u[1]
           f == u[2]
<1>1. /\ a \in Int /\ c \in Int /\ e \in Int /\ b \in Nat /\ d \in Nat /\ f \in Nat
      /\ (b = 0 => a < 0) /\ (d = 0 => c < 0) /\ (f = 0 => e < 0)
      /\ a * d >= c * b /\ c * f >= e * d
  BY DEF Score3, NoWorse
<1> HIDE DEF a, b, c, d, e, f
<1>2. CASE d = 0
  <2>1. c * f >= 0
    BY <1>1, <1>2
  <2>2. f = 0
    <3> SUFFICES ASSUME f > 0 PROVE FALSE
      BY <1>1
    <3>1. 0 * f > c * f
      BY <1>1, <1>2, ScaledOrder
    <3> QED
      BY <1>1, <2>1, <3>1
  <2>3. e * b <= 0
    <3>1. CASE b = 0
      BY <1>1, <3>1
    <3>2. CASE b > 0
      <4>1. 0 * b >= e * b
        BY <1>1, <2>2, <3>2, ScaledOrder
      <4> QED
        BY <1>1, <4>1
    <3> QED
      BY <1>1, <3>1, <3>2
  <2>4. a * f >= e * b
    BY <1>1, <2>2, <2>3
  <2> QED
    BY <2>4 DEF NoWorse, a, b, e, f
<1>3. CASE d > 0
  <2>1. b > 0
    <3> SUFFICES ASSUME b = 0 PROVE FALSE
      BY <1>1
    <3>1. a * d >= 0 /\ a < 0
      BY <1>1
    <3>2. ~(a * d >= 0 * d)
      BY <1>1, <1>3, <3>1, ScaledOrder
    <3> QED
      BY <1>1, <3>1, <3>2
  <2>2. CASE f = 0
    <3>1. 0 * b >= e * b
      BY <1>1, <2>1, <2>2, ScaledOrder
    <3>2. a * f >= e * b
      BY <1>1, <2>2, <3>1
    <3> QED
      BY <3>2 DEF NoWorse, a, b, e, f
  <2>3. CASE f > 0
    <3> DEFINE ad == a * d
               cb == c * b
               cf == c * f
               ed == e * d
               af == a * f
               eb == e * b
    <3>1. ad \in Int /\ cb \in Int /\ cf \in Int /\ ed \in Int /\ af \in Int /\ eb \in Int
      BY <1>1
    <3>2. ad * f >= cb * f /\ cf * b >= ed * b
      <4>1. ad >= cb /\ cf >= ed
        BY <1>1
      <4> HIDE DEF ad, cb, cf, ed
      <4> QED
        BY <1>1, <2>1, <2>3, <3>1, <4>1, ScaledOrder
    <3>3. ad * f = af * d /\ cb * f = cf * b /\ ed * b = eb * d
      BY <1>1
    <3> HIDE DEF ad, cb, cf, ed, af, eb
    <3>4. af * d >= eb * d
      BY <1>1, <3>1, <3>2, <3>3
    <3>5. af >= eb
      BY <1>1, <1>3, <3>1, <3>4, ScaledOrder
    <3> QED
      BY <3>5 DEF NoWorse, af, eb, a, b, e, f
  <2> QED
    BY <1>1, <2>2, <2>3
<1> QED
  BY <1>1, <1>2, <1>3

LEMMA NoWorseTotal ==
    ASSUME NEW s \in Score3, NEW t \in Score3
    PROVE  NoWorse(s, t) \/ NoWorse(t, s)
BY DEF Score3, NoWorse

(* Every score is one of these.                                              *)
LEMMA ScoreIsFraction ==
    ASSUME NEW o \in OutcomeType, NEW objective \in Objectives
    PROVE  ScoreFor(o, objective) \in Score3
<1>1. o.delta \in Int /\ o.cost \in Int /\ o.risk \in Int /\ o.grade \in Grades
  BY DEF OutcomeType
<1>2. GradeWeight[o.grade] \in Nat
  BY <1>1 DEF Grades, GradeRank, GradeWeight
<1> DEFINE w == GradeWeight[o.grade]
           gain == o.delta * w
           danger == -o.risk * w
           factor == 1000 - AtMost(o.risk, 500)
           floor == AtLeast(AtLeast(o.cost, 0), 500)
<1>3. gain \in Int /\ danger \in Int
  BY <1>1, <1>2
<1>4. factor \in Int /\ floor \in Nat /\ floor > 0
  BY <1>1 DEF AtMost, AtLeast
<1>5. CASE objective = "BALANCED"
  <2>1. ScoreFor(o, objective) = IF gain <= 0 THEN <<gain, 1>> ELSE <<gain * factor, floor>>
    BY <1>5 DEF ScoreFor
  <2> HIDE DEF gain, factor, floor
  <2>2. gain * factor \in Int
    BY <1>3, <1>4
  <2> QED
    BY <1>3, <1>4, <2>1, <2>2 DEF Score3
<1>6. CASE objective = "MINIMIZE_COST"
  <2>1. ScoreFor(o, objective) = IF o.cost = Unstated THEN <<-1, 0>> ELSE <<-o.cost, 1>>
    BY <1>6 DEF ScoreFor
  <2> QED
    BY <1>1, <2>1 DEF Score3
<1>7. CASE objective = "MAXIMIZE_PRODUCTION"
  <2>1. ScoreFor(o, objective) = <<gain, 1>>
    BY <1>7 DEF ScoreFor
  <2> HIDE DEF gain
  <2> QED
    BY <1>3, <2>1 DEF Score3
<1>8. CASE objective = "MINIMIZE_RISK"
  <2>1. ScoreFor(o, objective) = <<danger, 1>>
    BY <1>8 DEF ScoreFor
  <2> HIDE DEF danger
  <2> QED
    BY <1>3, <2>1 DEF Score3
<1> QED
  BY <1>5, <1>6, <1>7, <1>8 DEF Objectives

(* A score is made of the gain, the grade, the cost and the risk.            *)
LEMMA SameScore ==
    ASSUME NEW o, NEW p, NEW objective,
           o.delta = p.delta, o.grade = p.grade, o.cost = p.cost, o.risk = p.risk
    PROVE  ScoreFor(o, objective) = ScoreFor(p, objective)
BY DEF ScoreFor

LEMMA BetterIs ==
    ASSUME NEW o \in OutcomeType, NEW p \in OutcomeType, NEW objective \in Objectives
    PROVE  Better(o, p, objective) <=> ~NoWorse(ScoreFor(p, objective), ScoreFor(o, objective))
<1> DEFINE s == ScoreFor(o, objective)
           t == ScoreFor(p, objective)
<1>1. s \in Score3 /\ t \in Score3
  BY ScoreIsFraction
<1>2. Better(o, p, objective) <=> s[1] * t[2] > t[1] * s[2]
  BY DEF Better
<1> HIDE DEF s, t
<1>3. s[1] * t[2] \in Int /\ t[1] * s[2] \in Int
  BY <1>1 DEF Score3
<1>4. (s[1] * t[2] > t[1] * s[2]) <=> ~(t[1] * s[2] >= s[1] * t[2])
  BY <1>3
<1> QED
  BY <1>2, <1>4 DEF NoWorse, s, t

(* Sorting puts nothing before a better outcome.                             *)
LEMMA SortedFacts ==
    ASSUME NEW outcomes, NEW places, IsFiniteSet(places), places \subseteq Int,
           \A i \in places : outcomes[i] \in OutcomeType, NEW objective \in Objectives
    PROVE  LET order == Sorted(outcomes, places, objective)
           IN  /\ order \in Seq(places)
               /\ \A m, n \in DOMAIN order : m < n => ~Better(outcomes[order[n]], outcomes[order[m]], objective)
<1> DEFINE score(i) == ScoreFor(outcomes[i], objective)
           behind(i) == {j \in places : \/ Better(outcomes[i], outcomes[j], objective)
                                        \/ ~Better(outcomes[j], outcomes[i], objective) /\ i < j}
           ahead == UNION {{i} \X behind(i) : i \in places}
           order == Sorted(outcomes, places, objective)
<1>1. \A i \in places : score(i) \in Score3
  BY ScoreIsFraction
<1>2. \A i, j \in places : Better(outcomes[i], outcomes[j], objective) <=> ~NoWorse(score(j), score(i))
  BY BetterIs
<1>3. \A i, j \in places : <<i, j>> \in ahead <=>
         ~NoWorse(score(j), score(i)) \/ (NoWorse(score(i), score(j)) /\ i < j)
  <2> SUFFICES ASSUME NEW i \in places, NEW j \in places
               PROVE  <<i, j>> \in ahead <=>
                        ~NoWorse(score(j), score(i)) \/ (NoWorse(score(i), score(j)) /\ i < j)
    OBVIOUS
  <2>1. <<i, j>> \in ahead <=> j \in behind(i)
    <3> HIDE DEF behind
    <3> QED
      OBVIOUS
  <2>2. j \in behind(i) <=> \/ Better(outcomes[i], outcomes[j], objective)
                              \/ (~Better(outcomes[j], outcomes[i], objective) /\ i < j)
    OBVIOUS
  <2> HIDE DEF ahead, behind, score
  <2> QED
    BY <1>2, <2>1, <2>2
<1> HIDE DEF ahead, behind, score
<1>4. \A i, j \in places : NoWorse(score(i), score(j)) \/ NoWorse(score(j), score(i))
  BY <1>1, NoWorseTotal
<1>5. \A i, j, k \in places : NoWorse(score(i), score(j)) /\ NoWorse(score(j), score(k)) => NoWorse(score(i), score(k))
  BY <1>1, NoWorseTransitive
<1>6. Orders(ahead, places)
  <2>1. \A i \in places : <<i, i>> \notin ahead
    BY <1>3, <1>4
  <2>2. \A i, j \in places : i = j \/ <<i, j>> \in ahead \/ <<j, i>> \in ahead
    <3>1. \A i, j \in places : i = j \/ i < j \/ j < i
      OBVIOUS
    <3> QED
      BY <1>3, <1>4, <3>1
  <2>3. ASSUME NEW i \in places, NEW j \in places, NEW k \in places, <<i, j>> \in ahead, <<j, k>> \in ahead
        PROVE  <<i, k>> \in ahead
    <3>1. NoWorse(score(i), score(j)) /\ NoWorse(score(j), score(k)) /\ NoWorse(score(i), score(k))
      BY <1>3, <1>4, <1>5, <2>3
    <3>2. CASE NoWorse(score(k), score(i))
      <4>1. NoWorse(score(k), score(j)) /\ NoWorse(score(j), score(i))
        BY <1>5, <3>1, <3>2
      <4>2. i < j /\ j < k
        BY <1>3, <2>3, <4>1
      <4>3. i < k
        BY <4>2
      <4> QED
        BY <1>3, <3>1, <4>3
    <3> QED
      BY <1>3, <3>2
  <2> QED
    BY <2>1, <2>2, <2>3 DEF Orders
<1>7. order = InOrder(places, ahead)
  BY Zenon DEF Sorted, order, ahead, behind
<1>8. /\ order \in Seq(places)
      /\ \A m, n \in DOMAIN order : m < n => <<order[m], order[n]>> \in ahead
  BY <1>6, <1>7, InOrderFacts
<1> HIDE DEF order
<1>9. ASSUME NEW m \in DOMAIN order, NEW n \in DOMAIN order, m < n
      PROVE  ~Better(outcomes[order[n]], outcomes[order[m]], objective)
  <2>1. order[m] \in places /\ order[n] \in places /\ <<order[m], order[n]>> \in ahead
    BY <1>8, <1>9
  <2>2. NoWorse(score(order[m]), score(order[n]))
    BY <1>3, <1>4, <2>1
  <2> QED
    BY <1>2, <2>1, <2>2
<1> QED
  BY <1>8, <1>9 DEF order

-----------------------------------------------------------------------------
(* A check that blocks unless it passed has passed, where all are feasible.   *)
LEMMA HardPassed ==
    ASSUME NEW checks, Feasible(checks), NEW key, NEW outcome, Checked(key, "HARD", outcome) \in checks
    PROVE  outcome = "PASSED"
<1>1. ~Blocking(Checked(key, "HARD", outcome))
  BY Zenon DEF Feasible
<1> QED
  BY <1>1 DEF Blocking, Checked

(* What the checks of an action were told, when all of them are feasible.     *)
ToldOf(action, magnitude, shift, route, answers) ==
    /\ action = "equipment_redeploy" => \E r \in ScenarioRecord :
          answers["units"] = <<r>> /\ r.units /\ r.risk <= 60
    /\ action = "maintenance_defer" => \E r \in ScenarioRecord :
          answers["overdue"] = <<r>> /\ r.overdue <= 14
    /\ action = "blast_reschedule" => shift \notin {"", "S3"}
    /\ action = "crusher_speed_trim" => magnitude <= 20
    /\ action = "fleet_reroute" => route = "exists"
    /\ action = "extend_operating_hours" => \E r \in ScenarioRecord :
          answers["shift"] = <<r>> /\ r.hours # Unstated /\ r.hours * (100 + magnitude) <= 1200

LEMMA PermittedFacts ==
    ASSUME NEW action \in Actions, NEW magnitude \in Nat, NEW shift, NEW route, NEW answers,
           Feasible(ChecksOf(action, magnitude, shift, route, answers)),
           \A q \in Queries : answers[q] = <<>> \/ \E r \in ScenarioRecord : answers[q] = <<r>>
    PROVE  ToldOf(action, magnitude, shift, route, answers)
<1> DEFINE checks == ChecksOf(action, magnitude, shift, route, answers)
<1>1. /\ action = "equipment_redeploy" => RedeployChecks(answers["units"]) \subseteq checks
      /\ action = "maintenance_defer" => DeferChecks(answers["overdue"]) \subseteq checks
      /\ action = "blast_reschedule" => BlastChecks(shift) \subseteq checks
      /\ action = "crusher_speed_trim" => TrimChecks(magnitude) \subseteq checks
      /\ action = "fleet_reroute" => RerouteChecks(route) \subseteq checks
      /\ action = "extend_operating_hours" => ExtendChecks(answers["shift"], magnitude) \subseteq checks
  BY DEF ChecksOf
<1> HIDE DEF checks
<1>2. Feasible(checks)
  BY DEF checks
<1>3. CASE action = "equipment_redeploy"
  <2>1. PICK o : o = (IF answers["units"] = <<>> THEN "NOT_EVALUATED"
                      ELSE IF ~answers["units"][1].units THEN "NOT_EVALUATED"
                      ELSE Verdict(answers["units"][1].risk <= 60))
    OBVIOUS
  <2>2. Checked("equipment_availability", "HARD", o) \in checks
    BY <1>1, <1>3, <2>1 DEF RedeployChecks
  <2>3. o = "PASSED"
    BY <1>2, <2>2, HardPassed
  <2>4. answers["units"] # <<>> /\ answers["units"][1].units
    BY <2>1, <2>3
  <2>5. PICK r \in ScenarioRecord : answers["units"] = <<r>>
    BY <2>4 DEF Queries
  <2>6. r.risk <= 60
    BY <2>1, <2>3, <2>4, <2>5 DEF Verdict
  <2> QED
    BY <1>3, <2>4, <2>5, <2>6 DEF ToldOf
<1>4. CASE action = "maintenance_defer"
  <2>1. PICK o : o = (IF answers["overdue"] = <<>> THEN "NOT_EVALUATED" ELSE Verdict(answers["overdue"][1].overdue <= 14))
    OBVIOUS
  <2>2. Checked("maintenance_lockout", "HARD", o) \in checks
    BY <1>1, <1>4, <2>1 DEF DeferChecks
  <2>3. o = "PASSED"
    BY <1>2, <2>2, HardPassed
  <2>4. answers["overdue"] # <<>>
    BY <2>1, <2>3
  <2>5. PICK r \in ScenarioRecord : answers["overdue"] = <<r>>
    BY <2>4 DEF Queries
  <2>6. r.overdue <= 14
    BY <2>1, <2>3, <2>4, <2>5 DEF Verdict
  <2> QED
    BY <1>4, <2>5, <2>6 DEF ToldOf
<1>5. CASE action = "extend_operating_hours"
  <2>1. answers["shift"] # <<>>
    <3> SUFFICES ASSUME answers["shift"] = <<>> PROVE FALSE
      OBVIOUS
    <3>1. Checked("working_time_limit", "HARD", "NOT_EVALUATED") \in checks
      BY <1>1, <1>5 DEF ExtendChecks
    <3> QED
      BY <1>2, <3>1, HardPassed
  <2>2. PICK r \in ScenarioRecord : answers["shift"] = <<r>>
    BY <2>1 DEF Queries
  <2>3. PICK o : o = (IF r.hours = Unstated THEN "NOT_EVALUATED" ELSE Verdict(r.hours * (100 + magnitude) <= 1200))
    OBVIOUS
  <2>4. Checked("working_time_limit", "HARD", o) \in checks
    BY <1>1, <1>5, <2>1, <2>2, <2>3 DEF ExtendChecks
  <2>5. o = "PASSED"
    BY <1>2, <2>4, HardPassed
  <2>6. r.hours # Unstated /\ r.hours * (100 + magnitude) <= 1200
    BY <2>3, <2>5 DEF Verdict
  <2> QED
    BY <1>5, <2>2, <2>6 DEF ToldOf
<1>6. CASE action = "blast_reschedule"
  <2>1. PICK o : o = (IF shift = "" THEN "NOT_EVALUATED" ELSE Verdict(shift # "S3"))
    OBVIOUS
  <2>2. Checked("shift_safety_window", "HARD", o) \in checks
    BY <1>1, <1>6, <2>1 DEF BlastChecks
  <2>3. o = "PASSED"
    BY <1>2, <2>2, HardPassed
  <2> QED
    BY <1>6, <2>1, <2>3 DEF Verdict, ToldOf
<1>7. CASE action = "crusher_speed_trim"
  <2>1. PICK o : o = Verdict(magnitude <= 20)
    OBVIOUS
  <2>2. Checked("crusher_vibration_limit", "HARD", o) \in checks
    BY <1>1, <1>7, <2>1 DEF TrimChecks
  <2>3. o = "PASSED"
    BY <1>2, <2>2, HardPassed
  <2> QED
    BY <1>7, <2>1, <2>3 DEF Verdict, ToldOf
<1>8. CASE action = "fleet_reroute"
  <2>1. PICK o : o = (IF route = "unknown" THEN "NOT_EVALUATED" ELSE Verdict(route = "exists"))
    OBVIOUS
  <2>2. Checked("route_feasibility", "HARD", o) \in checks
    BY <1>1, <1>8, <2>1 DEF RerouteChecks
  <2>3. o = "PASSED"
    BY <1>2, <2>2, HardPassed
  <2> QED
    BY <1>8, <2>1, <2>3 DEF Verdict, ToldOf
<1>9. Actions = {"equipment_redeploy", "fleet_reroute", "crusher_speed_trim", "blast_reschedule",
                 "maintenance_defer", "extend_operating_hours"}
  BY DEF Actions, Catalogue, Range
<1> QED
  BY <1>3, <1>4, <1>5, <1>6, <1>7, <1>8, <1>9 DEF ToldOf

(* The checks of an action are finitely many, and one at least.              *)
LEMMA ChecksFacts ==
    ASSUME NEW action \in Actions, NEW magnitude, NEW shift, NEW route, NEW answers
    PROVE  LET checks == ChecksOf(action, magnitude, shift, route, answers)
           IN  IsFiniteSet(checks) /\ checks # {} /\ checks \subseteq CheckType
<1> DEFINE Small(s) == IsFiniteSet(s) /\ s \subseteq CheckType
<1> DEFINE Keys == {"equipment_availability", "maintenance_lockout", "shift_safety_window", "crusher_vibration_limit",
                    "route_feasibility", "working_time_limit", "operator_availability", "telemetry_freshness"}
           Verdicts == {"PASSED", "FAILED", "NOT_EVALUATED"}
<1>1. \A key \in Keys, kind \in {"HARD", "SOFT"}, o \in Verdicts : Small({Checked(key, kind, o)})
  <2> SUFFICES ASSUME NEW key \in Keys, NEW kind \in {"HARD", "SOFT"}, NEW o \in Verdicts
               PROVE  Small({Checked(key, kind, o)})
    OBVIOUS
  <2>1. Checked(key, kind, o) \in CheckType
    BY DEF Checked, CheckType
  <2> QED
    BY <2>1, FS_Singleton
<1>2. \A s, t : Small(s) /\ Small(t) => Small(s \cup t)
  BY FS_Union
<1> HIDE DEF Small
<1>4. \A a : Small(TelemetryChecks(a)) /\ TelemetryChecks(a) # {}
  <2> TAKE a
  <2> DEFINE o == IF a = <<>> THEN "NOT_EVALUATED"
                  ELSE IF a[1].telemetry = Unstated THEN "NOT_EVALUATED" ELSE Verdict(a[1].telemetry <= 12)
  <2>1. o \in Verdicts
    BY DEF Verdict
  <2>2. TelemetryChecks(a) = {Checked("telemetry_freshness", "SOFT", o)}
    BY Zenon DEF TelemetryChecks
  <2> HIDE DEF o
  <2> QED
    BY <1>1, <2>1, <2>2
<1>5. \A a : Small(RedeployChecks(a))
  <2> TAKE a
  <2> DEFINE o == IF a = <<>> THEN "NOT_EVALUATED"
                  ELSE IF ~a[1].units THEN "NOT_EVALUATED" ELSE Verdict(a[1].risk <= 60)
  <2>1. o \in Verdicts
    BY DEF Verdict
  <2>2. RedeployChecks(a) = {Checked("equipment_availability", "HARD", o)}
    BY Zenon DEF RedeployChecks
  <2> HIDE DEF o
  <2> QED
    BY <1>1, <2>1, <2>2
<1>6. \A a : Small(DeferChecks(a))
  <2> TAKE a
  <2> DEFINE o == IF a = <<>> THEN "NOT_EVALUATED" ELSE Verdict(a[1].overdue <= 14)
  <2>1. o \in Verdicts
    BY DEF Verdict
  <2>2. DeferChecks(a) = {Checked("maintenance_lockout", "HARD", o)}
    BY Zenon DEF DeferChecks
  <2> HIDE DEF o
  <2> QED
    BY <1>1, <2>1, <2>2
<1>7. Small(BlastChecks(shift))
  <2> DEFINE o == IF shift = "" THEN "NOT_EVALUATED" ELSE Verdict(shift # "S3")
  <2>1. o \in Verdicts
    BY DEF Verdict
  <2>2. BlastChecks(shift) = {Checked("shift_safety_window", "HARD", o)}
    BY Zenon DEF BlastChecks
  <2> HIDE DEF o
  <2> QED
    BY <1>1, <2>1, <2>2
<1>8. Small(TrimChecks(magnitude))
  <2> DEFINE o == Verdict(magnitude <= 20)
  <2>1. o \in Verdicts
    BY DEF Verdict
  <2>2. TrimChecks(magnitude) = {Checked("crusher_vibration_limit", "HARD", o)}
    BY Zenon DEF TrimChecks
  <2> HIDE DEF o
  <2> QED
    BY <1>1, <2>1, <2>2
<1>9. Small(RerouteChecks(route))
  <2> DEFINE o == IF route = "unknown" THEN "NOT_EVALUATED" ELSE Verdict(route = "exists")
  <2>1. o \in Verdicts
    BY DEF Verdict
  <2>2. RerouteChecks(route) = {Checked("route_feasibility", "HARD", o)}
    BY Zenon DEF RerouteChecks
  <2> HIDE DEF o
  <2> QED
    BY <1>1, <2>1, <2>2
<1>10. \A a : Small(ExtendChecks(a, magnitude))
  <2> TAKE a
  <2>1. CASE a = <<>>
    BY <1>1, <2>1 DEF ExtendChecks
  <2>2. CASE a # <<>>
    <3> DEFINE o == IF a[1].hours = Unstated THEN "NOT_EVALUATED" ELSE Verdict(a[1].hours * (100 + magnitude) <= 1200)
               p == IF a[1].operators = Unstated THEN "NOT_EVALUATED" ELSE Verdict(a[1].operators >= 80)
    <3>1. o \in Verdicts /\ p \in Verdicts
      BY DEF Verdict
    <3>2. ExtendChecks(a, magnitude) = {Checked("working_time_limit", "HARD", o), Checked("operator_availability", "SOFT", p)}
      BY Zenon, <2>2 DEF ExtendChecks
    <3> HIDE DEF o, p
    <3>3. ExtendChecks(a, magnitude) = {Checked("working_time_limit", "HARD", o)} \cup {Checked("operator_availability", "SOFT", p)}
      BY <3>2
    <3>4. Small({Checked("working_time_limit", "HARD", o)}) /\ Small({Checked("operator_availability", "SOFT", p)})
      BY <1>1, <3>1
    <3> QED
      BY <1>2, <3>3, <3>4
  <2> QED
    BY <2>1, <2>2
<1>11. PICK own : Small(own) /\ ChecksOf(action, magnitude, shift, route, answers) = TelemetryChecks(answers["telemetry"]) \cup own
  <2>1. action \in {"equipment_redeploy", "fleet_reroute", "crusher_speed_trim", "blast_reschedule",
                    "maintenance_defer", "extend_operating_hours"}
    BY DEF Actions, Catalogue, Range
  <2> QED
    BY <1>5, <1>6, <1>7, <1>8, <1>9, <1>10, <2>1 DEF ChecksOf
<1>12. Small(ChecksOf(action, magnitude, shift, route, answers))
  BY <1>2, <1>4, <1>11
<1>13. ChecksOf(action, magnitude, shift, route, answers) # {}
  BY <1>4, <1>11
<1> QED
  BY <1>12, <1>13 DEF Small

-----------------------------------------------------------------------------
(* The weakest of some grades is one of them and at most each.               *)
LEMMA WeakestFacts ==
    ASSUME NEW S \in SUBSET Grades, S # {}
    PROVE  /\ Weakest(S) \in S
           /\ \A h \in S : GradeRank[Weakest(S)] <= GradeRank[h]
<1>1. \A g \in S : GradeRank[g] \in Nat
  BY DEF Grades, GradeRank
<1> DEFINE R == {GradeRank[g] : g \in S}
<1>2. PICK n \in R : \A m \in R : n <= m
  <2>1. R \in SUBSET Nat /\ R # {}
    BY <1>1
  <2> HIDE DEF R
  <2> QED
    BY <2>1, LeastNumber
<1>3. \E g \in S : \A h \in S : GradeRank[g] <= GradeRank[h]
  BY <1>2
<1> QED
  BY <1>3 DEF Weakest

LEMMA WeakestHigh ==
    ASSUME NEW S \in SUBSET Grades, S # {}, Weakest(S) = "HIGH"
    PROVE  S = {"HIGH"}
<1>1. \A h \in S : 3 <= GradeRank[h]
  BY WeakestFacts DEF GradeRank
<1>2. \A h \in Grades : 3 <= GradeRank[h] => h = "HIGH"
  BY DEF Grades, GradeRank
<1> QED
  BY <1>1, <1>2

FactorType == [freshness : Int, completeness : Int, model : Int, history : Int, constraints : Int]

(* A HIGH grade has no cap.                                                  *)
LEMMA AssessFacts ==
    ASSUME NEW f \in FactorType
    PROVE  /\ Assess(f) \in Grades
           /\ Assess(f) = "HIGH" => f.model >= 60 /\ f.freshness >= 50 /\ f.constraints >= 100 /\ f.completeness >= 75
<1>1. f.model \in Int /\ f.freshness \in Int /\ f.constraints \in Int /\ f.completeness \in Int
  BY DEF FactorType
<1>2. ByScore(f) \in Grades
  BY DEF ByScore, Grades, GradeRank
<1>3. Caps(f) \in SUBSET Grades
  BY DEF Caps, Grades, GradeRank
<1> DEFINE S == {ByScore(f)} \cup Caps(f)
<1>4. S \in SUBSET Grades /\ S # {}
  BY <1>2, <1>3
<1>5. Assess(f) = Weakest(S)
  BY DEF Assess
<1>6. f.model < 60 \/ f.freshness < 50 \/ f.constraints < 100 \/ f.completeness < 75 => "MEDIUM" \in S
  BY DEF Caps
<1> HIDE DEF S
<1>7. Weakest(S) = "HIGH" => "MEDIUM" \notin S
  BY <1>4, WeakestHigh
<1> QED
  BY <1>1, <1>4, <1>5, <1>6, <1>7, WeakestFacts

LEMMA FreshnessFacts ==
    ASSUME NEW age \in Int
    PROVE  /\ Freshness(age) \in DOMAIN FreshnessScore /\ FreshnessScore[Freshness(age)] \in Nat
           /\ FreshnessScore[Freshness(age)] >= 50 => age < 120
<1>1. Freshness(age) \in {"LIVE", "RECENT", "STALE", "EXPIRED"}
  BY DEF Freshness
<1>2. age >= 120 => Freshness(age) \in {"STALE", "EXPIRED"}
  <2>1. age >= 120 => ~(age < 0) /\ age \notin 0 .. 14 /\ age \notin 15 .. 119
    OBVIOUS
  <2> QED
    BY <2>1 DEF Freshness
<1> QED
  BY <1>1, <1>2 DEF FreshnessScore

LEMMA CompletenessFacts ==
    ASSUME NEW found \in Nat, NEW needed \in Nat
    PROVE  /\ CompletenessScore(found, needed) \in Int
           /\ CompletenessScore(found, needed) >= 75 => 100 * found >= 75 * needed
<1>1. CASE needed = 0
  BY <1>1 DEF CompletenessScore
<1>2. CASE needed > 0
  <2>1. PICK x \in Nat : x = 100 * found
    OBVIOUS
  <2>2. CompletenessScore(found, needed) = x \div needed
    BY <1>2, <2>1 DEF CompletenessScore
  <2>3. x \div needed \in Int
    BY <1>2
  <2>4. x \div needed >= 75 => x >= 75 * needed
    BY <1>2, QuotientBound
  <2> QED
    BY <2>1, <2>2, <2>3, <2>4
<1> QED
  BY <1>1, <1>2

(* Only when every check was evaluated is their share a hundred.              *)
LEMMA ConstraintFacts ==
    ASSUME NEW checks \in SUBSET CheckType, IsFiniteSet(checks), checks # {}
    PROVE  LET evaluated == {c \in checks : c.outcome # "NOT_EVALUATED"}
               score == ConstraintScore(Cardinality(evaluated), Cardinality(checks))
           IN  score \in Int /\ (score >= 100 => evaluated = checks)
<1> DEFINE evaluated == {c \in checks : c.outcome # "NOT_EVALUATED"}
           e == Cardinality(evaluated)
           n == Cardinality(checks)
<1>1. evaluated \in SUBSET checks
  OBVIOUS
<1>2. IsFiniteSet(evaluated) /\ e <= n /\ (e = n => evaluated = checks)
  BY <1>1, FS_Subset
<1>3. e \in Nat /\ n \in Nat /\ n # 0
  BY <1>2, FS_CardinalityType, FS_EmptySet
<1> HIDE DEF evaluated, e, n
<1>4. PICK x \in Nat : x = 100 * e
  BY <1>3
<1>5. ConstraintScore(e, n) = x \div n
  BY <1>3, <1>4 DEF ConstraintScore
<1>6. x \div n \in Int
  BY <1>3
<1>7. x \div n >= 100 => x >= 100 * n
  BY <1>3, QuotientBound
<1>8. x >= 100 * n => e = n
  BY <1>2, <1>3, <1>4
<1> QED
  BY <1>2, <1>5, <1>6, <1>7, <1>8 DEF evaluated, e, n

(* What the factors of a HIGH grade say.                                     *)
LEMMA FactorsFacts ==
    ASSUME NEW c \in ContextType, NEW checks \in SUBSET CheckType, IsFiniteSet(checks), checks # {},
           NEW status, NEW count \in Nat
    PROVE  LET g == Assess(Factors(c, checks, status, count))
           IN  /\ g \in Grades
               /\ g = "HIGH" =>
                    /\ status # "none" /\ c.age < 120 /\ 100 * c.found >= 75 * c.needed
                    /\ \A k \in checks : k.outcome # "NOT_EVALUATED"
<1> DEFINE f == Factors(c, checks, status, count)
           evaluated == {k \in checks : k.outcome # "NOT_EVALUATED"}
           fresh == FreshnessScore[Freshness(c.age)]
           complete == CompletenessScore(c.found, c.needed)
           share == ConstraintScore(Cardinality(evaluated), Cardinality(checks))
<1>1. c.age \in Int /\ c.found \in Nat /\ c.needed \in Nat
  BY DEF ContextType
<1>2. fresh \in Int /\ (fresh >= 50 => c.age < 120)
  BY <1>1, FreshnessFacts
<1>3. complete \in Int /\ (complete >= 75 => 100 * c.found >= 75 * c.needed)
  BY <1>1, CompletenessFacts
<1>4. share \in Int /\ (share >= 100 => evaluated = checks)
  BY ConstraintFacts
<1>5. ModelScore(status) \in Int /\ (ModelScore(status) >= 60 => status # "none")
  BY DEF ModelScore
<1>6. HistoryScore(count) \in Int
  BY DEF HistoryScore
<1>7. f = [freshness |-> fresh, completeness |-> complete, model |-> ModelScore(status),
           history |-> HistoryScore(count), constraints |-> share]
  BY Zenon DEF Factors
<1> HIDE DEF fresh, complete, share, f
<1>8. f \in FactorType /\ f.freshness = fresh /\ f.completeness = complete /\ f.model = ModelScore(status)
        /\ f.constraints = share
  BY <1>2, <1>3, <1>4, <1>5, <1>6, <1>7 DEF FactorType
<1>9. Assess(f) \in Grades
  BY <1>8, AssessFacts
<1>10. ASSUME Assess(f) = "HIGH"
       PROVE  /\ status # "none" /\ c.age < 120 /\ 100 * c.found >= 75 * c.needed
              /\ \A k \in checks : k.outcome # "NOT_EVALUATED"
  <2>1. ModelScore(status) >= 60 /\ fresh >= 50 /\ share >= 100 /\ complete >= 75
    BY <1>8, <1>10, AssessFacts
  <2>2. evaluated = checks
    BY <1>4, <2>1
  <2> QED
    BY <1>2, <1>3, <1>5, <2>1, <2>2
<1> QED
  BY <1>9, <1>10 DEF f

-----------------------------------------------------------------------------
(* What an evaluation reports.                                              *)
LEMMA ActionsAre ==
    Actions = {"equipment_redeploy", "fleet_reroute", "crusher_speed_trim", "blast_reschedule",
               "maintenance_defer", "extend_operating_hours"}
BY DEF Actions, Catalogue, Range

LEMMA DeltaFacts ==
    ASSUME NEW c \in ContextType, NEW action \in Actions, NEW magnitude \in Nat
    PROVE  ModelDelta(c, action) \in Int /\ HeuristicDelta(c, action, magnitude) \in Int
<1>1. c.baseline \in Int /\ c.response[action] \in Int
  BY DEF ContextType
<1>2. HeuristicEffect[action] \in Int
  BY ActionsAre DEF HeuristicEffect
<1>3. ModelDelta(c, action) \in Int
  <2> DEFINE percent == c.response[action]
             credible == IF percent > 25 THEN 25 ELSE IF percent < -25 THEN -25 ELSE percent
  <2>1. credible \in Int
    BY <1>1
  <2>2. ModelDelta(c, action) = IF ~c.backed \/ percent \in {Unstated, 0} THEN Unstated
                                ELSE (c.baseline * credible) \div 100
    BY DEF ModelDelta
  <2> HIDE DEF credible, percent
  <2>3. c.baseline * credible \in Int
    BY <1>1, <2>1
  <2>4. (c.baseline * credible) \div 100 \in Int
    BY <2>3
  <2> QED
    BY <2>2, <2>4 DEF Unstated
<1>4. HeuristicDelta(c, action, magnitude) \in Int
  <2> DEFINE effect == c.baseline * HeuristicEffect[action]
  <2>1. effect \in Int
    BY <1>1, <1>2
  <2>2. HeuristicDelta(c, action, magnitude) = (effect * magnitude) \div 1000
    BY DEF HeuristicDelta
  <2> HIDE DEF effect
  <2>3. effect * magnitude \in Int
    BY <2>1
  <2> QED
    BY <2>2, <2>3
<1> QED
  BY <1>3, <1>4

LEMMA EvaluatedFacts ==
    ASSUME NEW c \in ContextType, NEW item \in Item, NEW checks \in SUBSET CheckType, IsFiniteSet(checks),
           checks # {}, NEW e \in EconomicsType, NEW at \in Nat
    PROVE  LET o == Evaluated(c, item, checks, e, at)
           IN  /\ o \in OutcomeType
               /\ o.key = item.action /\ o.magnitude = item.magnitude /\ o.shift = item.shift /\ o.at = at
               /\ Available(o) => Feasible(checks)
               /\ Available(o) /\ o.grade = "HIGH" =>
                    /\ o.mode = "MODEL_BACKED" /\ \A k \in o.checks : k.outcome # "NOT_EVALUATED"
                    /\ c.age < 120 /\ 100 * c.found >= 75 * c.needed
<1> DEFINE action == item.action
           magnitude == item.magnitude
           cost == e.cost[action]
           model == ModelDelta(c, action)
           refused == ~Feasible(checks)
           status == IF ~refused /\ model = Unstated THEN "none" ELSE c.status
           delta == IF refused THEN Unstated ELSE IF model # Unstated THEN model
                    ELSE HeuristicDelta(c, action, magnitude)
           mode == IF refused THEN "INSUFFICIENT_DATA" ELSE IF model # Unstated THEN "MODEL_BACKED" ELSE "HEURISTIC"
           grade == Assess(Factors(c, checks, status, e.shifts))
           price == IF cost = Unstated THEN Unstated ELSE cost * magnitude
           risk == IF refused THEN 0 ELSE RiskEffect[action] * magnitude
           o == Evaluated(c, item, checks, e, at)
<1>1. action \in Actions /\ magnitude \in Nat /\ item.shift \in ShiftName
  BY DEF Item
<1>2. cost \in Int /\ e.shifts \in Nat
  BY <1>1 DEF EconomicsType
<1>3. model \in Int /\ HeuristicDelta(c, action, magnitude) \in Int
  BY <1>1, DeltaFacts
<1>4. RiskEffect[action] \in Int
  BY <1>1, ActionsAre DEF RiskEffect
<1>5. /\ o.key = action /\ o.magnitude = magnitude /\ o.shift = item.shift /\ o.delta = delta /\ o.mode = mode
      /\ o.checks = checks /\ o.grade = grade /\ o.rejected = refused /\ o.at = at
      /\ o = [key |-> action, magnitude |-> magnitude, shift |-> item.shift, delta |-> delta, mode |-> mode,
              checks |-> checks, grade |-> grade, cost |-> price, risk |-> risk, rejected |-> refused, at |-> at]
  BY DEF Evaluated
<1>6. /\ grade \in Grades
      /\ grade = "HIGH" =>
           /\ status # "none" /\ c.age < 120 /\ 100 * c.found >= 75 * c.needed
           /\ \A k \in checks : k.outcome # "NOT_EVALUATED"
  <2> HIDE DEF status
  <2> QED
    BY <1>2, FactorsFacts
<1>7. delta \in Int
  BY <1>3 DEF Unstated
<1>8. price \in Int
  <2>1. cost * magnitude \in Int
    BY <1>1, <1>2
  <2> QED
    BY <2>1 DEF Unstated
<1>9. risk \in Int
  <2>1. RiskEffect[action] * magnitude \in Int
    BY <1>1, <1>4
  <2> QED
    BY <2>1
<1>10. mode \in {"MODEL_BACKED", "HEURISTIC", "INSUFFICIENT_DATA"} /\ refused \in BOOLEAN
  BY DEF Feasible
<1>11. ~refused /\ status # "none" => mode = "MODEL_BACKED"
  OBVIOUS
<1> HIDE DEF action, magnitude, cost, model, refused, status, delta, mode, grade, price, risk, o
<1>12. o \in OutcomeType
  BY <1>1, <1>5, <1>6, <1>7, <1>8, <1>9, <1>10 DEF OutcomeType
<1>13. Available(o) => ~refused
  BY <1>5 DEF Available
<1>14. Available(o) /\ o.grade = "HIGH" =>
         /\ o.mode = "MODEL_BACKED" /\ \A k \in o.checks : k.outcome # "NOT_EVALUATED"
         /\ c.age < 120 /\ 100 * c.found >= 75 * c.needed
  BY <1>5, <1>6, <1>11, <1>13
<1> QED
  BY <1>5, <1>12, <1>13, <1>14 DEF action, magnitude, refused, o

(* In situations that are alike an evaluation says the same.                  *)
LEMMA EvaluatedAlike ==
    ASSUME NEW c, NEW d, Alike(c, d), NEW item, NEW other, item.action = other.action,
           item.magnitude = other.magnitude, NEW checks, NEW e, NEW at, NEW then
    PROVE  ScoresAs(Evaluated(c, item, checks, e, at), Evaluated(d, other, checks, e, then))
<1>1. ModelDelta(c, item.action) = ModelDelta(d, other.action)
  BY DEF Alike, ModelDelta
<1>2. HeuristicDelta(c, item.action, item.magnitude) = HeuristicDelta(d, other.action, other.magnitude)
  BY DEF Alike, HeuristicDelta
<1>3. \A status : Factors(c, checks, status, e.shifts) = Factors(d, checks, status, e.shifts)
  BY DEF Alike, Factors
<1>4. c.status = d.status
  BY DEF Alike
<1> QED
  BY <1>1, <1>2, <1>3, <1>4 DEF ScoresAs, Evaluated

(* Checks that permit an action depend on what it asks, and on nothing else.   *)
LEMMA ChecksAlike ==
    ASSUME NEW action \in Actions, NEW magnitude \in Nat, NEW shift, NEW route, NEW answers, NEW others,
           Feasible(ChecksOf(action, magnitude, shift, route, answers)),
           \A q \in Queries : answers[q] = <<>> \/ \E r \in ScenarioRecord : answers[q] = <<r>>,
           \A q \in Asks(action) : answers[q] = others[q]
    PROVE  ChecksOf(action, magnitude, shift, route, answers) = ChecksOf(action, magnitude, shift, "exists", others)
<1>4. ToldOf(action, magnitude, shift, route, answers)
  BY PermittedFacts
<1>1. action = "fleet_reroute" => route = "exists"
  BY <1>4 DEF ToldOf
<1>2. answers["telemetry"] = others["telemetry"]
  BY DEF Asks
<1>3. /\ action = "equipment_redeploy" => answers["units"] = others["units"]
      /\ action = "maintenance_defer" => answers["overdue"] = others["overdue"]
      /\ action = "extend_operating_hours" => answers["shift"] = others["shift"]
  BY DEF Asks
<1> QED
  BY <1>1, <1>2, <1>3, ActionsAre DEF ChecksOf

(* Declining an outcome only makes it unavailable.                           *)
LEMMA DeclinedFacts ==
    ASSUME NEW o \in OutcomeType, NEW c, NEW mem, NEW declined \in BOOLEAN, OutcomeTells(o, c, mem)
    PROVE  OutcomeTells([o EXCEPT !.rejected = @ \/ declined], c, mem)
<1> DEFINE p == [o EXCEPT !.rejected = @ \/ declined]
<1>1. p \in OutcomeType
  BY DEF OutcomeType
<1>2. /\ p.rejected = (o.rejected \/ declined) /\ p.key = o.key /\ p.magnitude = o.magnitude /\ p.shift = o.shift
      /\ p.checks = o.checks /\ p.delta = o.delta /\ p.grade = o.grade /\ p.mode = o.mode /\ p.at = o.at
      /\ p.cost = o.cost /\ p.risk = o.risk
  BY DEF OutcomeType
<1> HIDE DEF p
<1>3. Available(p) => Available(o)
  BY <1>2 DEF Available
<1>4. \A r : Permits(r, o) <=> Permits(r, p)
  BY <1>2 DEF Permits
<1>5. Settled(o, c.at, mem) => Settled(p, c.at, mem)
  BY <1>2 DEF Settled, ScoresAs
<1> QED
  BY <1>1, <1>2, <1>3, <1>4, <1>5 DEF OutcomeTells, p

-----------------------------------------------------------------------------
(* What was said stays said.                                                *)
PastStep ==
    \/ past' = past /\ (time' = time \/ (time' = time + 1))
    \/ /\ Len(past) = 1 /\ time' = time
       /\ \E r \in ScenarioRecord : past' = Append(past, [from |-> time, records |-> r])

LEMMA LastMember ==
    ASSUME NEW S, NEW s \in Seq(S), Len(s) \in {1, 2}
    PROVE  s[Len(s)] \in S
OBVIOUS

LEMMA SecondOf ==
    ASSUME NEW S, NEW s \in Seq(S), Len(s) = 1, NEW x \in S, NEW t, t = Append(s, x)
    PROVE  Len(t) = 2 /\ t[1] = s[1] /\ t[2] = x /\ t \in Seq(S)
<1>1. t \in Seq(S)
  BY Zenon, AppendProperties
<1>2. Len(t) = Len(s) + 1
  BY Zenon, AppendProperties
<1>3. t[1] = s[1]
  <2>1. \A i \in 1 .. Len(s) : Append(s, x)[i] = s[i]
    BY AppendProperties
  <2>2. 1 \in 1 .. Len(s)
    OBVIOUS
  <2> QED
    BY Zenon, <2>1, <2>2
<1>4. t[Len(s) + 1] = x
  BY Zenon, AppendProperties
<1> QED
  BY <1>1, <1>2, <1>3, <1>4

LEMMA SaidStays ==
    ASSUME PastTells, PastStep, NEW at \in Nat, at <= time
    PROVE  SaidAt(at) \subseteq SaidAt(at)' /\ SaidBefore(at) \subseteq SaidBefore(at)'
<1>1. CASE past' = past
  BY <1>1 DEF SaidAt, SaidBefore
<1>2. ASSUME Len(past) = 1, NEW r \in ScenarioRecord, past' = Append(past, [from |-> time, records |-> r])
      PROVE  SaidAt(at) \subseteq SaidAt(at)' /\ SaidBefore(at) \subseteq SaidBefore(at)'
  <2> DEFINE S == [from : Nat, records : ScenarioRecord]
             now == [from |-> time, records |-> r]
  <2>1. past \in Seq(S) /\ time \in Nat
    BY DEF PastTells
  <2>2. now \in S /\ now.from = time
    BY <2>1
  <2> HIDE DEF S, now
  <2>3. past' = Append(past, now)
    BY <1>2 DEF now
  <2>4. /\ Len(past') = 2 /\ DOMAIN past = {1} /\ DOMAIN past' = {1, 2}
        /\ past'[1] = past[1] /\ past'[2] = now
    <3>1. Len(past') = 2 /\ past'[1] = past[1] /\ past'[2] = now /\ past' \in Seq(S)
      BY <1>2, <2>1, <2>2, <2>3, SecondOf
    <3> QED
      BY <1>2, <2>1, <3>1
  <2>5. past'[2].from >= at
    BY <2>2, <2>4
  <2>6. past'[2].from > at - QUERY_TTL
    BY <2>1, <2>2, <2>4, ScenarioAssumption
  <2>7. ASSUME NEW x \in SaidAt(at) PROVE x \in SaidAt(at)'
    <3>1. x = past[1].records /\ past[1].from <= at
      BY <2>4, <2>7 DEF SaidAt
    <3>2. 1 \in {j \in DOMAIN past' : past'[j].from <= at /\ (j < Len(past') => past'[j + 1].from >= at)}
      BY <2>4, <2>5, <3>1
    <3>3. SaidAt(at)' = {past'[i].records : i \in {j \in DOMAIN past' :
                past'[j].from <= at /\ (j < Len(past') => past'[j + 1].from >= at)}}
      BY DEF SaidAt
    <3> QED
      BY <2>4, <3>1, <3>2, <3>3
  <2>8. ASSUME NEW x \in SaidBefore(at) PROVE x \in SaidBefore(at)'
    <3>1. x = past[1].records /\ past[1].from <= at
      BY <2>4, <2>8 DEF SaidBefore
    <3>2. 1 \in {j \in DOMAIN past' : past'[j].from <= at /\ (j < Len(past') => past'[j + 1].from > at - QUERY_TTL)}
      BY <2>4, <2>6, <3>1
    <3>3. SaidBefore(at)' = {past'[i].records : i \in {j \in DOMAIN past' :
                past'[j].from <= at /\ (j < Len(past') => past'[j + 1].from > at - QUERY_TTL)}}
      BY DEF SaidBefore
    <3> QED
      BY <2>4, <3>1, <3>2, <3>3
  <2> QED
    BY <2>7, <2>8
<1> QED
  BY <1>1, <1>2 DEF PastStep

LEMMA PastStays ==
    ASSUME PastTells, PastStep
    PROVE  PastTells' /\ time' >= time
<1>1. CASE past' = past /\ (time' = time \/ (time' = time + 1))
  <2>1. time \in Nat /\ past \in Seq([from : Nat, records : ScenarioRecord]) /\ Len(past) \in {1, 2}
    BY DEF PastTells
  <2>2. past[Len(past)].from \in Nat
    <3>1. PICK m \in [from : Nat, records : ScenarioRecord] : m = past[Len(past)]
      BY <2>1, LastMember
    <3> QED
      BY <3>1
  <2>3. time' \in Nat /\ time' >= time /\ past[Len(past)].from <= time'
    BY <1>1, <2>1, <2>2 DEF PastTells
  <2> QED
    BY <1>1, <2>1, <2>3 DEF PastTells
<1>2. ASSUME Len(past) = 1, time' = time, NEW r \in ScenarioRecord,
             past' = Append(past, [from |-> time, records |-> r])
      PROVE  PastTells' /\ time' >= time
  <2> DEFINE S == [from : Nat, records : ScenarioRecord]
             now == [from |-> time, records |-> r]
  <2>1. past \in Seq(S) /\ time \in Nat /\ past[1].from <= time
    BY <1>2 DEF PastTells
  <2>2. now \in S /\ now.from = time
    BY <2>1
  <2>3. past' = Append(past, now)
    BY <1>2 DEF now
  <2> HIDE DEF S, now
  <2>4. Len(past') = 2 /\ past'[1] = past[1] /\ past'[2] = now /\ past' \in Seq(S)
    BY <1>2, <2>1, <2>2, <2>3, SecondOf
  <2>5. past' \in Seq([from : Nat, records : ScenarioRecord])
    BY <2>4 DEF S
  <2> QED
    BY <1>2, <2>1, <2>2, <2>4, <2>5 DEF PastTells
<1> QED
  BY <1>1, <1>2 DEF PastStep

LEMMA TellsStay ==
    ASSUME PastTells, PastStep
    PROVE  /\ \A q, a : AnswerTells(q, a) => AnswerTells(q, a)'
           /\ \A c : SituationTells(c) => SituationTells(c)'
           /\ \A o, c, mem : SituationTells(c) /\ OutcomeTells(o, c, mem) => OutcomeTells(o, c, mem)'
           /\ \A res, mem : ResultTells(res, mem) => ResultTells(res, mem)'
<1>1. time \in Nat /\ time' \in Nat /\ time' >= time
  BY PastStays DEF PastTells
<1>2. ASSUME NEW q, NEW a, AnswerTells(q, a) PROVE AnswerTells(q, a)'
  <2>1. a.at \in Nat /\ a.at <= time
    BY <1>2 DEF AnswerTells
  <2>2. SaidAt(a.at) \subseteq SaidAt(a.at)'
    BY <2>1, SaidStays
  <2>3. a.at <= time'
    BY <1>1, <2>1
  <2> QED
    BY <1>2, <2>1, <2>2, <2>3 DEF AnswerTells, TellsOf
<1>3. ASSUME NEW c, SituationTells(c) PROVE SituationTells(c)'
  <2>1. c.at \in Nat /\ c.at <= time
    BY <1>3 DEF SituationTells, ContextType
  <2>2. SaidBefore(c.at) \subseteq SaidBefore(c.at)'
    BY <2>1, SaidStays
  <2>3. c.at <= time'
    BY <1>1, <2>1
  <2>4. SaidBefore(c.at) # {}
    BY <1>3 DEF SituationTells
  <2>5. \A r : SaidBefore(c.at)' = {r} => SaidBefore(c.at) = {r}
    BY <2>2, <2>4
  <2> QED
    BY <1>3, <2>2, <2>3, <2>5 DEF SituationTells
<1>6. ASSUME NEW o, NEW at \in Nat, NEW mem, at <= time, o.at \in Nat, o.at <= time, Settled(o, at, mem),
             SaidBefore(o.at) # {}
      PROVE  Settled(o, at, mem)'
  <2>1. SaidBefore(o.at) \subseteq SaidBefore(o.at)' /\ SaidBefore(at) \subseteq SaidBefore(at)'
    BY <1>6, SaidStays
  <2>2. \A r : (SaidBefore(at) \cup SaidBefore(o.at))' = {r} => SaidBefore(at) \cup SaidBefore(o.at) = {r}
    BY <1>6, <2>1
  <2> QED
    BY <1>6, <2>2 DEF Settled
<1>4. ASSUME NEW o, NEW c, NEW mem, SituationTells(c), OutcomeTells(o, c, mem) PROVE OutcomeTells(o, c, mem)'
  <2>1. o.at \in Nat /\ o.at <= time /\ c.at \in Nat /\ c.at <= time
    BY <1>4 DEF OutcomeTells, OutcomeType, SituationTells, ContextType
  <2>2. SaidBefore(o.at) \subseteq SaidBefore(o.at)'
    BY <2>1, SaidStays
  <2>3. o.at <= time'
    BY <1>1, <2>1
  <2>4. Available(o) => Settled(o, c.at, mem)'
    <3>1. Available(o) => Settled(o, c.at, mem) /\ SaidBefore(o.at) # {}
      BY <1>4 DEF OutcomeTells
    <3> QED
      BY <1>6, <2>1, <3>1
  <2> QED
    BY <1>4, <2>2, <2>3, <2>4 DEF OutcomeTells
<1>5. ASSUME NEW res, NEW mem, ResultTells(res, mem) PROVE ResultTells(res, mem)'
  <2>1. res.at \in Nat /\ res.at <= time /\ res.selected \in Seq(OutcomeType)
    BY <1>1, <1>5 DEF ResultTells
  <2>2. SaidBefore(res.at) \subseteq SaidBefore(res.at)'
    BY <2>1, SaidStays
  <2>3. res.at \in 0 .. time'
    BY <1>1, <2>1
  <2>4. ASSUME NEW n \in DOMAIN res.selected
        PROVE  /\ res.selected[n].at <= time'
               /\ \E r \in SaidBefore(res.selected[n].at)' : Permits(r, res.selected[n])
    <3>1. res.selected[n].at \in Nat
      <4>1. PICK o \in OutcomeType : o = res.selected[n]
        BY <2>1
      <4> QED
        BY <4>1 DEF OutcomeType
    <3>2. res.selected[n].at <= time /\ \E r \in SaidBefore(res.selected[n].at) : Permits(r, res.selected[n])
      BY <1>5 DEF ResultTells
    <3>3. SaidBefore(res.selected[n].at) \subseteq SaidBefore(res.selected[n].at)'
      BY <3>1, <3>2, SaidStays
    <3>4. res.selected[n].at <= time'
      BY <1>1, <3>1, <3>2
    <3> QED
      BY <3>2, <3>3, <3>4
  <2>5. ASSUME NEW n \in DOMAIN res.selected PROVE Settled(res.selected[n], res.at, mem)'
    <3>1. PICK o \in OutcomeType : o = res.selected[n]
      BY <2>1
    <3>2. Settled(o, res.at, mem) /\ o.at <= time /\ \E r \in SaidBefore(o.at) : Permits(r, o)
      BY <1>5, <3>1 DEF ResultTells
    <3>4. o.at \in Nat /\ res.at \in Nat /\ res.at <= time
      BY <1>1, <2>1, <3>1 DEF OutcomeType
    <3>3. Settled(o, res.at, mem)'
      BY <1>6, <3>2, <3>4
    <3> QED
      BY <3>1, <3>3
  <2> QED
    BY <1>5, <2>1, <2>2, <2>3, <2>4, <2>5 DEF ResultTells
<1> QED
  BY <1>2, <1>3, <1>4, <1>5

-----------------------------------------------------------------------------
(* What is said now was said in time.                                       *)
LEMMA SaidNow ==
    ASSUME PastTells
    PROVE  /\ records \in ScenarioRecord /\ records \in SaidAt(time) /\ records \in SaidBefore(time)
           /\ \A at : SaidAt(at) \subseteq ScenarioRecord /\ SaidBefore(at) \subseteq ScenarioRecord
<1> DEFINE S == [from : Nat, records : ScenarioRecord]
<1>1. past \in Seq(S) /\ Len(past) \in {1, 2}
  BY DEF PastTells
<1>2. \A s \in S : s.records \in ScenarioRecord
  OBVIOUS
<1> HIDE DEF S
<1>3. DOMAIN past = 1 .. Len(past) /\ Len(past) \in DOMAIN past /\ \A i \in DOMAIN past : past[i] \in S
  <2>1. DOMAIN past = 1 .. Len(past) /\ \A i \in DOMAIN past : past[i] \in S
    BY <1>1
  <2>2. PICK n \in {1, 2} : n = Len(past)
    BY <1>1
  <2>3. n \in 1 .. n
    OBVIOUS
  <2> QED
    BY <2>1, <2>2, <2>3
<1>4. \A i \in DOMAIN past : past[i].records \in ScenarioRecord
  BY <1>2, <1>3
<1>5. records \in ScenarioRecord
  BY <1>3, <1>4 DEF records
<1>6. past[Len(past)].from <= time /\ ~(Len(past) < Len(past))
  BY <1>1 DEF PastTells
<1>7. records \in SaidAt(time) /\ records \in SaidBefore(time)
  BY <1>3, <1>6 DEF records, SaidAt, SaidBefore
<1> QED
  BY <1>4, <1>5, <1>7 DEF SaidAt, SaidBefore

(* An answer that is young enough to be used was said in time.               *)
LEMMA YoungAnswer ==
    ASSUME PastTells, NEW at \in Nat, at <= time, time - at < QUERY_TTL
    PROVE  SaidAt(at) \subseteq SaidBefore(time)
<1> DEFINE S == [from : Nat, records : ScenarioRecord]
<1>1. past \in Seq(S) /\ time \in Nat /\ QUERY_TTL \in Nat
  BY ScenarioAssumption DEF PastTells
<1>2. \A s \in S : s.from \in Nat
  OBVIOUS
<1> HIDE DEF S
<1>3. \A i \in DOMAIN past : past[i].from \in Nat /\ (i < Len(past) => past[i + 1].from \in Nat)
  <2>1. DOMAIN past = 1 .. Len(past) /\ Len(past) \in Nat /\ \A i \in DOMAIN past : past[i] \in S
    BY <1>1
  <2>2. \A i \in DOMAIN past : i < Len(past) => i + 1 \in DOMAIN past
    BY <2>1
  <2> QED
    BY <1>2, <2>1, <2>2
<1>4. \A n \in Nat : n <= at => n <= time
  BY <1>1
<1>5. \A n \in Nat : n >= at => n > time - QUERY_TTL
  BY <1>1
<1>6. SUFFICES ASSUME NEW j \in DOMAIN past, past[j].from <= at, j < Len(past) => past[j + 1].from >= at
               PROVE  past[j].from <= time /\ (j < Len(past) => past[j + 1].from > time - QUERY_TTL)
  BY DEF SaidAt, SaidBefore
<1> QED
  BY <1>3, <1>4, <1>5, <1>6

(* A query is answered with what was said in time, from memory or anew.      *)
LEMMA AnswerFacts ==
    ASSUME PastTells, AskedTells, NEW q
    PROVE  /\ AnswerTells(q, Answer(q))
           /\ \E r \in SaidBefore(time) : TellsOf(q, r, Answer(q).answer)
<1>1. CASE q \in DOMAIN asked /\ time - asked[q].at < QUERY_TTL
  <2>1. Answer(q) = asked[q] /\ asked[q] \in Range(asked)
    BY <1>1 DEF Answer, Range
  <2>2. AnswerTells(q, asked[q])
    BY <1>1, <2>1 DEF AskedTells
  <2>3. SaidAt(asked[q].at) \subseteq SaidBefore(time)
    BY <1>1, <2>2, YoungAnswer DEF AnswerTells
  <2> QED
    BY <2>1, <2>2, <2>3 DEF AnswerTells
<1>2. CASE ~(q \in DOMAIN asked /\ time - asked[q].at < QUERY_TTL)
  <2>1. Answer(q) = [at |-> time, answer |-> Answered(q)]
    BY Zenon, <1>2 DEF Answer
  <2>2. Answer(q).at = time /\ Answer(q).answer = Answered(q)
    BY <2>1
  <2>3. TellsOf(q, records, Answered(q))
    BY DEF TellsOf, Answered
  <2>4. time \in Nat
    BY DEF PastTells
  <2> QED
    BY <2>2, <2>3, <2>4, SaidNow DEF AnswerTells
<1> QED
  BY <1>1, <1>2

LEMMA RememberFacts ==
    ASSUME PastTells, AskedTells, NEW queries, asked' = Remember(queries), past' = past, time' = time
    PROVE  /\ AskedTells'
           /\ \A q \in queries : q \in DOMAIN asked' /\ asked'[q] = Answer(q)
           /\ \A q \in DOMAIN asked' : \E r \in ScenarioRecord : TellsOf(q, r, asked'[q].answer)
<1>1. /\ DOMAIN asked' = DOMAIN asked \cup queries
      /\ \A q \in DOMAIN asked \cup queries : asked'[q] = IF q \in queries THEN Answer(q) ELSE asked[q]
  BY DEF Remember
<1>2. ASSUME NEW q \in DOMAIN asked' PROVE AnswerTells(q, asked'[q])
  <2>1. CASE q \in queries
    BY <1>1, <2>1, AnswerFacts
  <2>2. CASE q \notin queries
    <3>1. asked'[q] = asked[q] /\ q \in DOMAIN asked
      BY <1>1, <2>2
    <3>2. AnswerTells(q, asked[q])
      BY <3>1 DEF AskedTells, Range
    <3> QED
      BY <3>1, <3>2
  <2> QED
    BY <2>1, <2>2
<1>3. ASSUME NEW q \in DOMAIN asked', NEW a \in Range(asked'), a = asked'[q] PROVE AnswerTells(q, a)'
  <2>1. AnswerTells(q, a)
    BY <1>2, <1>3
  <2> QED
    BY <2>1, TellsStay DEF PastStep
<1>4. AskedTells'
  BY <1>3 DEF AskedTells
<1>5. ASSUME NEW q \in DOMAIN asked' PROVE \E r \in ScenarioRecord : TellsOf(q, r, asked'[q].answer)
  BY <1>2, SaidNow DEF AnswerTells
<1> QED
  BY <1>1, <1>4, <1>5

LEMMA EconomicsFacts ==
    ASSUME PastTells, economics = <<>> \/ \E e \in Range(economics) : e \in EconomicsType /\ economics = <<e>>
    PROVE  Economics \in EconomicsType
<1>1. CASE economics # <<>>
  BY <1>1 DEF Economics
<1>2. CASE economics = <<>>
  <2>1. records.shifts \in Nat /\ records.cost \in [Actions -> Int]
    BY SaidNow DEF ScenarioRecord
  <2>2. NoEconomics \in EconomicsType
    BY DEF NoEconomics, EconomicsType, Unstated
  <2>3. [shifts |-> records.shifts, cost |-> records.cost] \in EconomicsType
    BY <2>1 DEF EconomicsType
  <2> QED
    BY <1>2, <2>2, <2>3 DEF Economics
<1> QED
  BY <1>1, <1>2

-----------------------------------------------------------------------------
(* What was evaluated on answers that were said in time was permitted in time. *)
LEMMA PermittedInTime ==
    ASSUME PastTells, NEW action \in Actions, NEW magnitude \in Nat, NEW shift, NEW answers,
           \A q \in Queries : answers[q] = <<>> \/ \E r \in ScenarioRecord : answers[q] = <<r>>,
           \A q \in Asks(action) : \E r \in SaidBefore(time) : TellsOf(q, r, answers[q]),
           NEW route \in Routes(action), Feasible(ChecksOf(action, magnitude, shift, route, answers)),
           NEW o, o.key = action, o.magnitude = magnitude, o.shift = shift
    PROVE  \E r \in SaidBefore(time) : Permits(r, o)
<1>1. records \in SaidBefore(time)
  BY SaidNow
<1>2. ASSUME NEW q, NEW r, NEW s \in SaidBefore(time), answers[q] = <<r>>, TellsOf(q, s, answers[q])
      PROVE  r = s /\ s.up /\ (q = "shift" => s.row)
  BY <1>2 DEF TellsOf
<1>9. ToldOf(action, magnitude, shift, route, answers)
  BY PermittedFacts
<1>3. CASE action = "equipment_redeploy"
  <2>1. PICK r \in ScenarioRecord : answers["units"] = <<r>> /\ r.units /\ r.risk <= 60
    BY <1>3, <1>9 DEF ToldOf
  <2>2. PICK s \in SaidBefore(time) : TellsOf("units", s, answers["units"])
    BY <1>3 DEF Asks
  <2>3. r = s /\ s.up
    BY <1>2, <2>1, <2>2
  <2>4. Permits(s, o)
    BY <1>3, <2>1, <2>3 DEF Permits
  <2> QED
    BY <2>4
<1>4. CASE action = "maintenance_defer"
  <2>1. PICK r \in ScenarioRecord : answers["overdue"] = <<r>> /\ r.overdue <= 14
    BY <1>4, <1>9 DEF ToldOf
  <2>2. PICK s \in SaidBefore(time) : TellsOf("overdue", s, answers["overdue"])
    BY <1>4 DEF Asks
  <2>3. r = s /\ s.up
    BY <1>2, <2>1, <2>2
  <2>4. Permits(s, o)
    BY <1>4, <2>1, <2>3 DEF Permits
  <2> QED
    BY <2>4
<1>5. CASE action = "extend_operating_hours"
  <2>1. PICK r \in ScenarioRecord :
            answers["shift"] = <<r>> /\ r.hours # Unstated /\ r.hours * (100 + magnitude) <= 1200
    BY <1>5, <1>9 DEF ToldOf
  <2>2. PICK s \in SaidBefore(time) : TellsOf("shift", s, answers["shift"])
    BY <1>5 DEF Asks
  <2>3. r = s /\ s.up /\ s.row
    BY <1>2, <2>1, <2>2
  <2>4. Permits(s, o)
    BY <1>5, <2>1, <2>3 DEF Permits
  <2> QED
    BY <2>4
<1>6. CASE action = "blast_reschedule"
  <2>1. shift \notin {"", "S3"}
    BY <1>6, <1>9 DEF ToldOf
  <2> QED
    BY <1>1, <1>6, <2>1 DEF Permits
<1>7. CASE action = "crusher_speed_trim"
  <2>1. magnitude <= 20
    BY <1>7, <1>9 DEF ToldOf
  <2> QED
    BY <1>1, <1>7, <2>1 DEF Permits
<1>8. CASE action = "fleet_reroute"
  <2>1. route = "exists"
    BY <1>8, <1>9 DEF ToldOf
  <2>2. records.route = "exists"
    BY <1>8, <2>1 DEF Routes
  <2> QED
    BY <1>1, <1>8, <2>2 DEF Permits
<1> QED
  BY <1>3, <1>4, <1>5, <1>6, <1>7, <1>8, ActionsAre

LEMMA MapIsSeq ==
    ASSUME NEW S, NEW n \in Nat, NEW s \in [1 .. n -> S]
    PROVE  s \in Seq(S) /\ Len(s) = n
OBVIOUS

(* A request names actions, each with how far it may go.                     *)
LEMMA WorklistFacts ==
    ASSUME NEW r \in Requests
    PROVE  Worklist(r) \in Seq(Item) /\ r.objective \in Objectives /\ (r.kind = "controls" => r.limit \in Nat)
             /\ r.kind \in {"controls", "named", "plan"}
<1>1. r \in ScenarioRequest
  BY ScenarioAssumption
<1>2. ASSUME NEW action \in Actions, NEW n \in Nat PROVE Proposed(action, n, "S1") \in Item
  BY DEF Proposed, Item, ShiftName
<1>3. CASE r \in [kind : {"controls"}, objective : Objectives, tolerance : STRING, fuel : Nat, limit : Nat,
                  flexibility : [Flexible -> DOMAIN Magnitude]]
  <2>1. r.kind = "controls" /\ r.objective \in Objectives /\ r.fuel \in Nat /\ r.limit \in Nat
          /\ r.flexibility \in [Flexible -> DOMAIN Magnitude]
    BY <1>3
  <2>2. \A f \in DOMAIN Magnitude : Magnitude[f] \in Nat
    BY DEF Magnitude
  <2>3. ASSUME NEW action \in Actions PROVE MagnitudeFor(action, r) \in Nat
    BY <2>1, <2>2 DEF MagnitudeFor
  <2>4. DOMAIN Catalogue = 1 .. 6 /\ \A i \in 1 .. 6 : Catalogue[i] \in Actions
    BY DEF Catalogue, Actions, Range
  <2>5. Worklist(r) = [i \in DOMAIN Catalogue |-> Proposed(Catalogue[i], MagnitudeFor(Catalogue[i], r), "S1")]
    BY <2>1 DEF Worklist
  <2>6. \A i \in 1 .. 6 : Proposed(Catalogue[i], MagnitudeFor(Catalogue[i], r), "S1") \in Item
    BY <1>2, <2>3, <2>4
  <2>7. Worklist(r) \in [1 .. 6 -> Item]
    BY Zenon, <2>4, <2>5, <2>6
  <2> QED
    BY <2>1, <2>7, MapIsSeq
<1>4. CASE r \in [kind : {"named"}, objective : Objectives, tolerance : STRING, interventions : Seq(Proposal)]
  <2>1. r.kind = "named" /\ r.objective \in Objectives /\ r.interventions \in Seq(Proposal)
    BY <1>4
  <2>2. Proposal \subseteq Item
    BY DEF Proposal, Item, ShiftName
  <2>3. Worklist(r) = r.interventions
    BY <2>1 DEF Worklist
  <2>4. Worklist(r) \in Seq(Item)
    BY <2>1, <2>2, <2>3
  <2> QED
    BY <2>1, <2>4
<1>5. CASE r \in [kind : {"plan"}, objective : Objectives, tolerance : STRING, problem : DOMAIN ResponseMap,
                  stage : STRING]
  <2> DEFINE actions == RelevantActions(r.problem, r.stage)
  <2>1. r.kind = "plan" /\ r.objective \in Objectives /\ r.problem \in DOMAIN ResponseMap
    BY <1>5
  <2>2. \A p \in DOMAIN ResponseMap : ResponseMap[p] \in Seq(Actions)
    <3>1. /\ ResponseMap["production_gap"] \in Seq(Actions) /\ ResponseMap["bottleneck"] \in Seq(Actions)
          /\ ResponseMap["equipment_risk"] \in Seq(Actions) /\ ResponseMap["maintenance_overdue"] \in Seq(Actions)
          /\ ResponseMap["open_incidents"] \in Seq(Actions)
      BY ActionsAre DEF ResponseMap
    <3>2. DOMAIN ResponseMap = {"production_gap", "bottleneck", "equipment_risk", "maintenance_overdue", "open_incidents"}
      BY DEF ResponseMap
    <3> QED
      BY <3>1, <3>2
  <2>3. \A s \in DOMAIN StageActions : StageActions[s] \in Seq(Actions)
    <3>1. /\ StageActions["face"] \in Seq(Actions) /\ StageActions["loading"] \in Seq(Actions)
          /\ StageActions["haulage"] \in Seq(Actions) /\ StageActions["processing"] \in Seq(Actions)
          /\ StageActions["stockpile"] \in Seq(Actions)
      BY ActionsAre DEF StageActions
    <3>2. DOMAIN StageActions = {"face", "loading", "haulage", "processing", "stockpile"}
      BY DEF StageActions
    <3> QED
      BY <3>1, <3>2
  <2>4. actions \in Seq(Actions)
    BY <2>1, <2>2, <2>3 DEF RelevantActions
  <2>5. Worklist(r) = [i \in DOMAIN actions |-> Proposed(actions[i], 10, "S1")]
    BY <2>1 DEF Worklist
  <2> HIDE DEF actions
  <2>6. DOMAIN actions = 1 .. Len(actions) /\ Len(actions) \in Nat /\ \A i \in DOMAIN actions : actions[i] \in Actions
    BY <2>4
  <2>7. \A i \in DOMAIN actions : Proposed(actions[i], 10, "S1") \in Item
    BY <1>2, <2>6
  <2>8. Worklist(r) \in [1 .. Len(actions) -> Item]
    BY Zenon, <2>5, <2>6, <2>7
  <2> QED
    BY <2>1, <2>6, <2>8, MapIsSeq
<1> QED
  BY <1>1, <1>3, <1>4, <1>5 DEF ScenarioRequest

-----------------------------------------------------------------------------
(* What is ranked was considered and is available, and no better follows.     *)
Ordered(s, outcomes, objective) ==
    /\ s \in Seq(OutcomeType)
    /\ \A n \in DOMAIN s : s[n] \in Range(outcomes) /\ Available(s[n])
    /\ \A m, n \in DOMAIN s : m < n => ~Better(s[n], s[m], objective)

LEMMA RankingFacts ==
    ASSUME NEW outcomes \in Seq(OutcomeType), NEW objective \in Objectives
    PROVE  Ordered(Ranked(outcomes, objective), outcomes, objective)
<1> DEFINE kept == {i \in DOMAIN outcomes :
                      Available(outcomes[i]) /\ (objective # "MINIMIZE_COST" => outcomes[i].delta > 0)}
           order == Sorted(outcomes, kept, objective)
           s == Ranked(outcomes, objective)
<1>1. /\ DOMAIN outcomes = 1 .. Len(outcomes) /\ Len(outcomes) \in Nat
      /\ \A i \in DOMAIN outcomes : outcomes[i] \in OutcomeType
  OBVIOUS
<1>2. /\ kept \subseteq DOMAIN outcomes /\ kept \subseteq Int /\ IsFiniteSet(kept)
      /\ \A i \in kept : outcomes[i] \in OutcomeType /\ Available(outcomes[i])
  <2>1. kept \in SUBSET (DOMAIN outcomes) /\ \A i \in kept : Available(outcomes[i])
    OBVIOUS
  <2>2. IsFiniteSet(DOMAIN outcomes)
    BY <1>1, FS_Interval
  <2> HIDE DEF kept
  <2>3. IsFiniteSet(kept)
    BY <2>1, <2>2, FS_Subset
  <2> QED
    BY <1>1, <2>1, <2>3
<1>3. s = [n \in DOMAIN order |-> outcomes[order[n]]]
  BY DEF Ranked
<1> HIDE DEF kept
<1>4. order \in Seq(kept)
        /\ \A m, n \in DOMAIN order : m < n => ~Better(outcomes[order[n]], outcomes[order[m]], objective)
  BY <1>2, SortedFacts
<1> HIDE DEF order, s
<1>5. \A n \in DOMAIN order : order[n] \in kept
  BY <1>4
<1>6. s \in [1 .. Len(order) -> OutcomeType] /\ Len(order) \in Nat /\ DOMAIN order = 1 .. Len(order)
  BY <1>2, <1>3, <1>4, <1>5
<1>7. s \in Seq(OutcomeType)
  BY <1>6, MapIsSeq
<1>8. \A n \in DOMAIN s : s[n] \in Range(outcomes) /\ Available(s[n])
  BY <1>2, <1>3, <1>5 DEF Range
<1>9. \A m, n \in DOMAIN s : m < n => ~Better(s[n], s[m], objective)
  BY <1>3, <1>4
<1> QED
  BY <1>7, <1>8, <1>9 DEF Ordered, s

LEMMA OfferedFacts ==
    ASSUME NEW outcomes \in Seq(OutcomeType), NEW objective \in Objectives
    PROVE  Ordered(Offered(outcomes, objective), outcomes, objective)
<1> DEFINE kept == {i \in DOMAIN outcomes : Available(outcomes[i]) /\ outcomes[i].delta > 0}
           stubs == [i \in DOMAIN outcomes |-> OutcomeStub(outcomes[i])]
           order == Sorted(stubs, kept, objective)
           s == Offered(outcomes, objective)
<1>1. /\ DOMAIN outcomes = 1 .. Len(outcomes) /\ Len(outcomes) \in Nat
      /\ \A i \in DOMAIN outcomes : outcomes[i] \in OutcomeType
  OBVIOUS
<1>2. /\ kept \subseteq DOMAIN outcomes /\ kept \subseteq Int /\ IsFiniteSet(kept)
      /\ \A i \in kept : outcomes[i] \in OutcomeType /\ Available(outcomes[i])
  <2>1. kept \in SUBSET (DOMAIN outcomes) /\ \A i \in kept : Available(outcomes[i])
    OBVIOUS
  <2>2. IsFiniteSet(DOMAIN outcomes)
    BY <1>1, FS_Interval
  <2> HIDE DEF kept
  <2>3. IsFiniteSet(kept)
    BY <2>1, <2>2, FS_Subset
  <2> QED
    BY <1>1, <2>1, <2>3
<1>3. s = [n \in DOMAIN order |-> outcomes[order[n]]]
  BY DEF Offered
<1> HIDE DEF kept
<1>4. ASSUME NEW o \in OutcomeType
      PROVE  /\ OutcomeStub(o) \in OutcomeType
             /\ ScoreFor(OutcomeStub(o), objective) = ScoreFor(o, objective)
  <2>1. OutcomeStub(o) \in OutcomeType
    BY DEF OutcomeStub, OutcomeType
  <2>2. /\ OutcomeStub(o).delta = o.delta /\ OutcomeStub(o).grade = o.grade
        /\ OutcomeStub(o).cost = o.cost /\ OutcomeStub(o).risk = o.risk
    BY DEF OutcomeStub, OutcomeType
  <2> QED
    BY <2>1, <2>2, SameScore
<1>5. \A i \in kept : stubs[i] \in OutcomeType /\ ScoreFor(stubs[i], objective) = ScoreFor(outcomes[i], objective)
  BY <1>2, <1>4
<1> HIDE DEF stubs
<1>6. order \in Seq(kept)
        /\ \A m, n \in DOMAIN order : m < n => ~Better(stubs[order[n]], stubs[order[m]], objective)
  BY <1>2, <1>5, SortedFacts
<1> HIDE DEF order, s
<1>7. \A n \in DOMAIN order : order[n] \in kept
  BY <1>6
<1>8. \A m, n \in DOMAIN order : m < n => ~Better(outcomes[order[n]], outcomes[order[m]], objective)
  <2>1. \A i, j \in kept : Better(stubs[i], stubs[j], objective) <=> Better(outcomes[i], outcomes[j], objective)
    BY <1>5 DEF Better
  <2> QED
    BY <1>6, <1>7, <2>1
<1>9. s \in [1 .. Len(order) -> OutcomeType] /\ Len(order) \in Nat /\ DOMAIN order = 1 .. Len(order)
  BY <1>2, <1>3, <1>6, <1>7
<1>10. s \in Seq(OutcomeType)
  BY <1>9, MapIsSeq
<1>11. \A n \in DOMAIN s : s[n] \in Range(outcomes) /\ Available(s[n])
  BY <1>2, <1>3, <1>7 DEF Range
<1>12. \A m, n \in DOMAIN s : m < n => ~Better(s[n], s[m], objective)
  BY <1>3, <1>8
<1> QED
  BY <1>10, <1>11, <1>12 DEF Ordered, s

LEMMA FirstFacts ==
    ASSUME NEW s, NEW outcomes, NEW objective, Ordered(s, outcomes, objective), NEW n \in Nat
    PROVE  Ordered(First(s, n), outcomes, objective)
<1> DEFINE m == AtMost(Len(s), n)
<1>1. s \in Seq(OutcomeType) /\ Len(s) \in Nat /\ DOMAIN s = 1 .. Len(s)
  BY DEF Ordered
<1>2. m \in Nat /\ m <= Len(s)
  BY <1>1 DEF AtMost
<1> HIDE DEF m
<1>3. First(s, n) = SubSeq(s, 1, m)
  BY DEF First, m
<1>4. /\ First(s, n) \in Seq(OutcomeType) /\ DOMAIN First(s, n) = 1 .. m
      /\ \A i \in 1 .. m : First(s, n)[i] = s[i] /\ i \in DOMAIN s
  <2>1. SubSeq(s, 1, m) \in Seq(OutcomeType)
    BY <1>1, <1>2
  <2>2. DOMAIN SubSeq(s, 1, m) = 1 .. m /\ \A i \in 1 .. m : SubSeq(s, 1, m)[i] = s[i]
    BY <1>1, <1>2
  <2> QED
    BY <1>1, <1>2, <1>3, <2>1, <2>2
<1> QED
  BY <1>4 DEF Ordered

LEMMA SelectedFacts ==
    ASSUME NEW r \in Requests, considered \in Seq(OutcomeType)
    PROVE  Ordered(Selected(r), considered, r.objective)
<1>1. r.objective \in Objectives /\ r.kind \in {"controls", "named", "plan"} /\ (r.kind = "controls" => r.limit \in Nat)
  BY WorklistFacts
<1>2. Ordered(Ranked(considered, r.objective), considered, r.objective)
  BY <1>1, RankingFacts
<1>3. Ordered(Offered(considered, r.objective), considered, r.objective)
  BY <1>1, OfferedFacts
<1>4. CASE r.kind = "controls"
  BY <1>1, <1>2, <1>4, FirstFacts DEF Selected
<1>5. CASE r.kind = "named"
  BY <1>2, <1>5 DEF Selected
<1>6. CASE r.kind = "plan"
  BY <1>3, <1>6, FirstFacts DEF Selected
<1> QED
  BY <1>1, <1>4, <1>5, <1>6

-----------------------------------------------------------------------------
LEMMA ScenarioBegins == ScenarioInit => ScenarioInv
<1> SUFFICES ASSUME ScenarioInit PROVE ScenarioInv
  OBVIOUS
<1>1. PICK r \in Records : past = <<[from |-> 0, records |-> r]>>
  BY DEF ScenarioInit
<1>2. PastTells
  <2> DEFINE S == [from : Nat, records : ScenarioRecord]
             now == [from |-> 0, records |-> r]
  <2>1. now \in S /\ now.from = 0 /\ now.records = r
    BY ScenarioAssumption
  <2>2. past = <<now>>
    BY <1>1
  <2>3. time = 0
    BY DEF ScenarioInit
  <2> HIDE DEF S, now
  <2>4. past \in Seq(S) /\ Len(past) = 1 /\ past[1] = now
    BY <2>1, <2>2
  <2>5. past \in Seq([from : Nat, records : ScenarioRecord])
    BY <2>4 DEF S
  <2> QED
    BY <2>1, <2>3, <2>4, <2>5 DEF PastTells
<1>3. asked = <<>> /\ economics = <<>> /\ request = <<>> /\ considered = <<>> /\ results = <<>>
  BY DEF ScenarioInit
<1>4. DOMAIN asked = {} /\ Range(results) = {} /\ results \in Seq(Range(results))
  BY <1>3 DEF Range
<1> QED
  BY <1>2, <1>3, <1>4 DEF ScenarioInv, AskedTells, RequestTells

(* The rest of the state is as it was.                                      *)
Same == UNCHANGED <<asked, economics, request, context, considered, results>>

LEMMA TimeAndRecordsStep ==
    ASSUME ScenarioInv, PastStep, Same
    PROVE  ScenarioInv'
<1>1. PastTells
  BY DEF ScenarioInv
<1>2. PastTells'
  BY <1>1, PastStays
<1>3. AskedTells'
  BY <1>1, TellsStay DEF ScenarioInv, AskedTells, Same
<1>4. RequestTells'
  <2>1. (request = <<>> => considered = <<>>)'
    BY DEF ScenarioInv, RequestTells, Same
  <2>2. CASE request # <<>>
    <3>1. PICK c \in Range(context), mem \in {economics} :
            context = <<c>> /\ SituationTells(c) /\ \A o \in Range(considered) : OutcomeTells(o, c, mem)
      BY <2>2 DEF ScenarioInv, RequestTells
    <3>2. SituationTells(c)' /\ \A o \in Range(considered) : OutcomeTells(o, c, mem)'
      BY <1>1, <3>1, TellsStay
    <3> QED
      BY <2>1, <2>2, <3>1, <3>2 DEF ScenarioInv, RequestTells, Same
  <2> QED
    BY <2>1, <2>2 DEF RequestTells, Same
<1>5. \A res \in Range(results'), mem \in {economics'} : ResultTells(res, mem)'
  BY <1>1, TellsStay DEF ScenarioInv, Same
<1> QED
  BY <1>2, <1>3, <1>4, <1>5 DEF ScenarioInv, Same

LEMMA TickStep == ScenarioInv /\ ScenarioTick => ScenarioInv'
<1> SUFFICES ASSUME ScenarioInv, ScenarioTick PROVE ScenarioInv'
  OBVIOUS
<1>1. PastStep /\ Same
  BY DEF ScenarioTick, PastStep, Same
<1> QED
  BY <1>1, TimeAndRecordsStep

LEMMA RecordsStep == ScenarioInv /\ RecordsChange => ScenarioInv'
<1> SUFFICES ASSUME ScenarioInv, RecordsChange PROVE ScenarioInv'
  OBVIOUS
<1>1. PICK r \in Changed(records) : past' = Append(past, [from |-> time, records |-> r])
  BY DEF RecordsChange
<1>2. Len(past) = 1 /\ time' = time /\ Same
  BY DEF RecordsChange, Same
<1>3. records \in Records
  BY <1>2 DEF ScenarioInv, PastTells, records
<1>4. r \in ScenarioRecord
  BY <1>1, <1>3, ScenarioAssumption
<1> QED
  BY <1>1, <1>2, <1>4, TimeAndRecordsStep DEF PastStep

(* One more answer, or one more outcome.                                    *)
LEMMA Appended ==
    ASSUME NEW s, s \in Seq(Range(s)), NEW x, NEW t, t = Append(s, x)
    PROVE  t \in Seq(Range(t)) /\ \A y \in Range(t) : y \in Range(s) \/ y = x
<1> DEFINE S == Range(s) \cup {x}
<1>1. s \in Seq(S) /\ x \in S
  OBVIOUS
<1> HIDE DEF S
<1>2. t \in Seq(S)
  BY Zenon, <1>1, AppendProperties
<1>3. Len(t) = Len(s) + 1 /\ Len(s) \in Nat /\ DOMAIN t = 1 .. Len(t) /\ DOMAIN s = 1 .. Len(s)
  BY <1>1, <1>2, AppendProperties
<1>4. \A i \in DOMAIN t : t[i] \in Range(t)
  BY DEF Range
<1>5. t \in [1 .. Len(t) -> Range(t)]
  <2>1. t \in [1 .. Len(t) -> S]
    BY Zenon, <1>2, LenProperties
  <2> QED
    BY <1>3, <1>4, <2>1
<1>6. \A y \in Range(t) : y \in S
  BY <1>2 DEF Range
<1>7. Len(t) \in Nat
  BY <1>3
<1>8. t \in Seq(Range(t))
  BY <1>5, <1>7, MapIsSeq
<1> QED
  BY <1>6, <1>8 DEF S

(* What was answered before is unchanged, and the new answer tells.          *)
LEMMA ResultsGrow ==
    ASSUME ScenarioInv, PastStep, NEW x, results' = Append(results, x), economics' = economics,
           \A mem \in {economics} : ResultTells(x, mem)'
    PROVE  /\ results' \in Seq(Range(results'))
           /\ \A res \in Range(results'), mem \in {economics'} : ResultTells(res, mem)'
<1>1. /\ PastTells /\ results \in Seq(Range(results))
      /\ \A res \in Range(results), mem \in {economics} : ResultTells(res, mem)
  BY DEF ScenarioInv
<1>2. results' \in Seq(Range(results')) /\ \A y \in Range(results') : y \in Range(results) \/ y = x
  BY <1>1, Appended
<1>3. ASSUME NEW res \in Range(results'), NEW mem \in {economics'} PROVE ResultTells(res, mem)'
  <2>1. CASE res \in Range(results)
    BY <1>1, <2>1, TellsStay
  <2>2. CASE res = x
    BY <2>2
  <2> QED
    BY <1>2, <2>1, <2>2
<1> QED
  BY <1>2, <1>3

LEMMA ContextFacts ==
    ASSUME PastTells, NEW row \in SaidBefore(time), row.row
    PROVE  SituationTells(Context(row))
<1>1. row \in ScenarioRecord /\ records \in ScenarioRecord /\ time \in Nat
  BY SaidNow DEF PastTells
<1>2. /\ row.actual \in Int /\ row.planned \in Int /\ row.age \in Int /\ row.found \in Nat /\ row.needed \in Nat
      /\ records.forecast \in Int /\ records.status \in STRING /\ records.response \in [Actions -> Int]
  BY <1>1 DEF ScenarioRecord
<1> DEFINE backed == row.status # "none" /\ records.forecast # Unstated
           baseline == IF backed THEN records.forecast ELSE IF row.actual # Unstated THEN row.actual ELSE row.planned
           c == Context(row)
<1>3. backed \in BOOLEAN
  OBVIOUS
<1>4. baseline \in Int
  BY <1>2
<1>5. c = [at |-> time, backed |-> backed, baseline |-> baseline, status |-> records.status,
           response |-> records.response, age |-> row.age, found |-> row.found, needed |-> row.needed]
  BY Zenon DEF Context
<1> HIDE DEF backed, baseline, c
<1>6. c \in ContextType /\ c.at = time /\ c.age = row.age /\ c.found = row.found /\ c.needed = row.needed
  BY <1>1, <1>2, <1>3, <1>4, <1>5 DEF ContextType
<1>7. SituationTells(c)
  <2>1. c.at <= time
    BY <1>1, <1>6
  <2>2. ASSUME NEW r, SaidBefore(c.at) = {r} PROVE Alike(c, SituationOf(r))
    <3>1. row = r /\ records = r
      BY <1>6, <2>2, SaidNow
    <3> QED
      BY <1>5, <3>1 DEF Alike, SituationOf, backed, baseline
  <2> QED
    BY <1>6, <2>1, <2>2 DEF SituationTells
<1> QED
  BY <1>7 DEF c

LEMMA AskStep ==
    ASSUME ScenarioInv, NEW r \in Requests, Ask(r)
    PROVE  ScenarioInv'
<1>1. /\ PastTells /\ AskedTells /\ RequestTells /\ request = <<>> /\ considered = <<>>
      /\ asked' = Remember({"production"}) /\ past' = past /\ time' = time /\ time \in Nat
      /\ economics' = economics /\ considered' = considered
  BY DEF ScenarioInv, RequestTells, Ask, PastTells
<1>2. PastStep
  BY <1>1 DEF PastStep
<1>3. PastTells'
  BY <1>1, <1>2, PastStays
<1>4. AskedTells' /\ asked'["production"] = Answer("production")
  BY <1>1, RememberFacts
<1>5. PICK s \in SaidBefore(time) : TellsOf("production", s, Answer("production").answer)
  BY <1>1, AnswerFacts
<1>6. PICK row : row = asked'["production"].answer
  OBVIOUS
<1>7. row = <<>> \/ (row = <<s>> /\ s.row)
  BY <1>4, <1>5, <1>6 DEF TellsOf
<1> DEFINE here == IF row = <<>> THEN <<>> ELSE <<Context(row[1])>>
           none == [kind |-> r.kind, objective |-> r.objective, at |-> time,
                    considered |-> <<>>, selected |-> <<>>, mode |-> "INSUFFICIENT_DATA",
                    grade |-> "UNAVAILABLE", projected |-> Unstated, filed |-> FALSE]
<1>8. \/ /\ results' = Append(results, none) /\ request' = request /\ context' = context
      \/ /\ here # <<>> /\ request' = <<r>> /\ context' = here /\ results' = results
  BY <1>6 DEF Ask
<1>9. CASE /\ results' = Append(results, none) /\ request' = request /\ context' = context
  <2>1. PICK x : x = none
    OBVIOUS
  <2>2. \A mem : ResultTells(x, mem)'
    <3>1. x.at = time /\ x.selected = <<>> /\ x.grade = "UNAVAILABLE"
      BY <2>1
    <3>2. x.at \in 0 .. time'
      BY <1>1, <3>1
    <3> QED
      BY <3>1, <3>2 DEF ResultTells
  <2>3. results' = Append(results, x)
    BY <1>9, <2>1
  <2>4. /\ results' \in Seq(Range(results'))
        /\ \A res \in Range(results'), mem \in {economics'} : ResultTells(res, mem)'
    BY <1>1, <1>2, <2>2, <2>3, ResultsGrow
  <2>5. RequestTells'
    BY <1>1, <1>9 DEF RequestTells
  <2> QED
    BY <1>1, <1>3, <1>4, <2>4, <2>5 DEF ScenarioInv
<1>10. CASE /\ here # <<>> /\ request' = <<r>> /\ context' = here /\ results' = results
  <2>1. row = <<s>> /\ s.row
    BY <1>7, <1>10
  <2>2. PICK c : c = Context(s)
    OBVIOUS
  <2>3. context' = <<c>>
    BY <1>10, <2>1, <2>2
  <2>4. SituationTells(c)'
    <3>1. SituationTells(Context(s))
      BY <1>1, <2>1, ContextFacts
    <3>2. SituationTells(c)
      BY <2>2, <3>1
    <3> QED
      BY <1>1, <1>2, <3>2, TellsStay
  <2>5. RequestTells'
    <3>1. considered' \in Seq(OutcomeType) /\ Range(considered') = {}
      BY <1>1 DEF Range
    <3>2. c \in Range(context')
      BY <2>3 DEF Range
    <3>3. request' # <<>>
      BY <1>10
    <3> QED
      BY <1>10, <2>3, <2>4, <3>1, <3>2, <3>3 DEF RequestTells
  <2>6. \A res \in Range(results'), mem \in {economics'} : ResultTells(res, mem)'
    BY <1>1, <1>2, <1>10, TellsStay DEF ScenarioInv
  <2> QED
    BY <1>1, <1>3, <1>4, <1>10, <2>5, <2>6 DEF ScenarioInv
<1> QED
  BY <1>8, <1>9, <1>10

(* An outcome that tells joins those considered.                            *)
LEMMA ConsideredGrow ==
    ASSUME ScenarioInv, request # <<>>, past' = past, time' = time, request' = request, context' = context,
           NEW c, context = <<c>>, NEW o, NEW mem \in {economics'}, OutcomeTells(o, c, mem),
           considered' = Append(considered, o), economics # <<>> => economics' = economics
    PROVE  RequestTells'
<1>1. /\ PastTells /\ PastStep
      /\ \E r \in Requests : request = <<r>>
      /\ considered \in Seq(OutcomeType)
  BY DEF ScenarioInv, RequestTells, PastStep
<1>2. PICK d \in Range(context), had \in {economics} :
        context = <<d>> /\ SituationTells(d) /\ \A p \in Range(considered) : OutcomeTells(p, d, had)
  BY DEF ScenarioInv, RequestTells
<1>3. c = d
  BY <1>2
<1>4. o \in OutcomeType
  BY DEF OutcomeTells
<1>5. considered' \in Seq(OutcomeType)
  BY Zenon, <1>1, <1>4, AppendProperties
<1>6. ASSUME NEW p \in Range(considered') PROVE p \in Range(considered) \/ p = o
  <2>1. considered \in Seq(Range(considered))
    <3>1. considered \in [1 .. Len(considered) -> OutcomeType] /\ Len(considered) \in Nat
            /\ DOMAIN considered = 1 .. Len(considered)
      BY Zenon, <1>1, LenProperties
    <3>2. \A i \in DOMAIN considered : considered[i] \in Range(considered)
      BY DEF Range
    <3>3. considered \in [1 .. Len(considered) -> Range(considered)]
      BY <3>1, <3>2
    <3> QED
      BY <3>1, <3>3, MapIsSeq
  <2> QED
    BY <2>1, Appended
<1>7. ASSUME NEW p \in Range(considered') PROVE OutcomeTells(p, d, mem)'
  <2>1. CASE p = o
    BY <1>1, <1>2, <1>3, <2>1, TellsStay
  <2>2. CASE p \in Range(considered)
    <3>1. had # <<>> => mem = had
      BY <1>2
    <3>2. OutcomeTells(p, d, mem)
      BY <1>2, <2>2, <3>1 DEF OutcomeTells, Settled
    <3> QED
      BY <1>1, <1>2, <3>2, TellsStay
  <2> QED
    BY <1>6, <2>1, <2>2
<1>8. SituationTells(d)'
  BY <1>1, <1>2, TellsStay
<1> QED
  BY <1>1, <1>2, <1>5, <1>7, <1>8 DEF RequestTells

LEMMA ExcludedFacts ==
    ASSUME time \in Nat, NEW item \in Item, NEW c, NEW mem
    PROVE  OutcomeTells(Excluded(item), c, mem)
<1> DEFINE o == Excluded(item)
<1>1. item.action \in Actions /\ item.shift \in ShiftName
  BY DEF Item
<1>2. "UNAVAILABLE" \in Grades
  BY DEF Grades, GradeRank
<1>3. o = [key |-> item.action, magnitude |-> 0, shift |-> item.shift, delta |-> Unstated,
           mode |-> "INSUFFICIENT_DATA", checks |-> {}, grade |-> "UNAVAILABLE", cost |-> Unstated, risk |-> 0,
           rejected |-> TRUE, at |-> time]
  BY Zenon DEF Excluded
<1> HIDE DEF o
<1>4. o \in OutcomeType /\ o.at <= time
  BY <1>1, <1>2, <1>3 DEF OutcomeType, Unstated
<1>5. ~Available(o)
  BY <1>3 DEF Available
<1> QED
  BY <1>4, <1>5 DEF OutcomeTells, o

LEMMA EvaluateStep ==
    ASSUME ScenarioInv, EvaluateNext
    PROVE  ScenarioInv'
<1>1. /\ PastTells /\ AskedTells /\ request # <<>> /\ time \in Nat
      /\ past' = past /\ time' = time /\ request' = request /\ context' = context /\ results' = results
  BY DEF ScenarioInv, EvaluateNext, PastTells
<1>2. PastStep
  BY <1>1 DEF PastStep
<1>3. PICK r \in Requests : request = <<r>>
  BY <1>1 DEF ScenarioInv, RequestTells
<1>4. considered \in Seq(OutcomeType)
  BY <1>1 DEF ScenarioInv, RequestTells
<1>5. PICK c \in Range(context) : context = <<c>> /\ SituationTells(c)
  BY <1>1 DEF ScenarioInv, RequestTells
<1>6. PICK item \in Item : item = Worklist(r)[Len(considered) + 1]
  <2>1. Worklist(r) \in Seq(Item)
    BY WorklistFacts
  <2>2. Len(considered) < Len(Worklist(r))
    BY <1>3 DEF EvaluateNext
  <2>3. Len(considered) \in Nat
    BY <1>4
  <2> QED
    BY <2>1, <2>2, <2>3
<1>7. request[1] = r /\ context[1] = c /\ item.action \in Actions /\ item.magnitude \in Nat /\ item.shift \in ShiftName
  BY <1>3, <1>5 DEF Item
<1>11. economics # <<>> => economics' = economics
  <2>1. economics' = economics \/ economics' = <<Economics>>
    BY DEF EvaluateNext
  <2>2. economics # <<>> => economics = <<Economics>>
    BY DEF ScenarioInv, Economics
  <2> QED
    BY <2>1, <2>2
<1>8. PastTells' /\ \A res \in Range(results'), mem \in {economics'} : ResultTells(res, mem)'
  <2>1. ASSUME NEW res \in Range(results'), NEW mem \in {economics'} PROVE ResultTells(res, mem)'
    <3>1. PICK had \in {economics} : ResultTells(res, had)
      BY <1>1 DEF ScenarioInv
    <3>2. had # <<>> => mem = had
      BY <1>11
    <3>3. ResultTells(res, mem)
      BY <3>1, <3>2 DEF ResultTells, Settled
    <3> QED
      BY <1>1, <1>2, <3>3, TellsStay
  <2> QED
    BY <1>1, <1>2, <2>1, PastStays
<1>9. CASE r.kind = "controls" /\ item.magnitude = 0
  <2>1. /\ considered' = Append(considered, Excluded(item)) /\ asked' = asked /\ economics' = economics
    BY <1>6, <1>7, <1>9 DEF EvaluateNext
  <2>2. PICK o : o = Excluded(item)
    OBVIOUS
  <2>3. \A mem : OutcomeTells(o, c, mem)
    BY <1>1, <2>2, ExcludedFacts
  <2>4. considered' = Append(considered, o)
    BY <2>1, <2>2
  <2>5. RequestTells'
    BY <1>1, <1>5, <1>11, <2>3, <2>4, ConsideredGrow
  <2>6. AskedTells'
    BY <1>1, <1>2, <2>1, TellsStay DEF AskedTells
  <2> QED
    BY <1>1, <1>8, <2>1, <2>5, <2>6 DEF ScenarioInv
<1>10. CASE ~(r.kind = "controls" /\ item.magnitude = 0)
  <2> DEFINE answersAt(mem) == [q \in Queries |-> IF q \in DOMAIN mem THEN mem[q].answer ELSE <<>>]
  <2>1. /\ asked' = Remember(Asks(item.action)) /\ economics' = <<Economics>>
        /\ \E route \in Routes(item.action) :
             LET checks == ChecksOf(item.action, item.magnitude, item.shift, route, answersAt(asked'))
                 outcome == Evaluated(c, item, checks, economics'[1], time)
             IN considered' = Append(considered, [outcome EXCEPT !.rejected = @ \/ TooRisky(r, outcome)])
    BY <1>6, <1>7, <1>10 DEF EvaluateNext
  <2>2. PICK answers : answers = answersAt(asked')
    OBVIOUS
  <2>3. PICK e : e = Economics
    OBVIOUS
  <2>4. PICK route \in Routes(item.action) :
             LET checks == ChecksOf(item.action, item.magnitude, item.shift, route, answers)
                 outcome == Evaluated(c, item, checks, e, time)
             IN considered' = Append(considered, [outcome EXCEPT !.rejected = @ \/ TooRisky(r, outcome)])
    BY <2>1, <2>2, <2>3
  <2>5. e \in EconomicsType
    BY <1>1, <2>3, EconomicsFacts DEF ScenarioInv
  <2>6. /\ AskedTells'
        /\ \A q \in Asks(item.action) : q \in DOMAIN asked' /\ asked'[q] = Answer(q)
        /\ \A q \in DOMAIN asked' : \E s \in ScenarioRecord : TellsOf(q, s, asked'[q].answer)
    BY <1>1, <2>1, RememberFacts
  <2>7. \A q \in Queries : answers[q] = <<>> \/ \E s \in ScenarioRecord : answers[q] = <<s>>
    BY <2>2, <2>6 DEF TellsOf
  <2>8. ASSUME NEW q \in Asks(item.action) PROVE \E s \in SaidBefore(time) : TellsOf(q, s, answers[q])
    <3>1. q \in Queries
      BY <1>7, ActionsAre DEF Asks, Queries
    <3>2. answers[q] = Answer(q).answer
      BY <2>2, <2>6, <3>1
    <3> QED
      BY <1>1, <3>2, AnswerFacts
  <2> DEFINE checks == ChecksOf(item.action, item.magnitude, item.shift, route, answers)
             outcome == Evaluated(c, item, checks, e, time)
  <2>9. IsFiniteSet(checks) /\ checks # {} /\ checks \in SUBSET CheckType
    BY <1>7, ChecksFacts
  <2>10. c \in ContextType
    BY <1>5 DEF SituationTells
  <2>11. considered' = Append(considered, [outcome EXCEPT !.rejected = @ \/ TooRisky(r, outcome)])
    BY <2>4
  <2> HIDE DEF checks
  <2>12. /\ outcome \in OutcomeType
         /\ outcome.key = item.action /\ outcome.magnitude = item.magnitude /\ outcome.shift = item.shift
         /\ outcome.at = time
         /\ Available(outcome) => Feasible(checks)
         /\ Available(outcome) /\ outcome.grade = "HIGH" =>
              /\ outcome.mode = "MODEL_BACKED" /\ \A k \in outcome.checks : k.outcome # "NOT_EVALUATED"
              /\ c.age < 120 /\ 100 * c.found >= 75 * c.needed
    BY <1>1, <2>5, <2>9, <2>10, EvaluatedFacts
  <2> HIDE DEF outcome
  <2>13. Available(outcome) => \E s \in SaidBefore(time) : Permits(s, outcome)
    <3>1. Feasible(checks) => \E s \in SaidBefore(time) : Permits(s, outcome)
      BY <1>1, <1>7, <2>7, <2>8, <2>12, PermittedInTime DEF checks
    <3> QED
      BY <2>12, <3>1
  <2>20. economics' = <<e>> /\ e \in Range(economics')
    BY <2>1, <2>3 DEF Range
  <2>21. PICK mem \in {economics'} : mem = <<e>>
    BY <2>20
  <2>22. ASSUME Available(outcome) PROVE Settled(outcome, c.at, mem)
    <3>1. ASSUME NEW s, SaidBefore(c.at) \cup SaidBefore(outcome.at) = {s}
          PROVE  ScoresAs(outcome, OutcomeOf(outcome.key, outcome.magnitude, outcome.shift, s, e))
      <4>1. SaidBefore(c.at) = {s} /\ SaidBefore(time) = {s}
        BY <1>1, <1>5, <2>12, <3>1, SaidNow DEF SituationTells
      <4>2. Alike(c, SituationOf(s))
        BY <1>5, <4>1 DEF SituationTells
      <4>3. ASSUME NEW q \in Asks(item.action) PROVE answers[q] = AnswersOf(s)[q]
        <5>1. q \in Queries
          BY <1>7, ActionsAre DEF Asks, Queries
        <5>2. TellsOf(q, s, answers[q])
          BY <2>8, <4>1
        <5> QED
          BY <5>1, <5>2 DEF TellsOf, AnswersOf
      <4>4. Feasible(checks)
        BY <2>12, <2>22
      <4>5. checks = ChecksOf(item.action, item.magnitude, item.shift, "exists", AnswersOf(s))
        BY <1>7, <2>7, <4>3, <4>4, ChecksAlike DEF checks
      <4>6. PICK other : other = Proposed(item.action, item.magnitude, item.shift)
        OBVIOUS
      <4>7. item.action = other.action /\ item.magnitude = other.magnitude
        BY <4>6 DEF Proposed
      <4>8. ScoresAs(Evaluated(c, item, checks, e, time), Evaluated(SituationOf(s), other, checks, e, 0))
        BY <4>2, <4>7, EvaluatedAlike
      <4>9. OutcomeOf(outcome.key, outcome.magnitude, outcome.shift, s, e)
              = Evaluated(SituationOf(s), other, checks, e, 0)
        BY <2>12, <4>5, <4>6 DEF OutcomeOf
      <4> QED
        BY <4>8, <4>9 DEF outcome
    <3> QED
      BY <2>21, <3>1 DEF Settled
  <2>14. OutcomeTells(outcome, c, mem)
    <3>1. outcome.at <= time
      BY <1>1, <2>12
    <3> QED
      BY <2>12, <2>13, <2>22, <3>1 DEF OutcomeTells
  <2>15. TooRisky(r, outcome) \in BOOLEAN
    BY DEF TooRisky
  <2>16. PICK p : p = [outcome EXCEPT !.rejected = @ \/ TooRisky(r, outcome)]
    OBVIOUS
  <2>17. OutcomeTells(p, c, mem)
    BY <2>12, <2>14, <2>15, <2>16, DeclinedFacts
  <2>18. considered' = Append(considered, p)
    BY <2>11, <2>16
  <2>19. RequestTells'
    BY <1>1, <1>5, <1>11, <2>17, <2>18, ConsideredGrow
  <2> QED
    BY <1>1, <1>8, <2>5, <2>6, <2>19, <2>20 DEF ScenarioInv
<1> QED
  BY <1>9, <1>10

(* A HIGH response has actions, every one of them HIGH.                      *)
LEMMA GradeIsHigh ==
    ASSUME NEW selected \in Seq(OutcomeType), Grade(selected) = "HIGH"
    PROVE  selected # <<>> /\ \A o \in Range(selected) : o.grade = "HIGH"
<1>1. "UNAVAILABLE" \in Grades /\ "UNAVAILABLE" # "HIGH"
  BY DEF Grades, GradeRank
<1>2. CASE selected = <<>>
  <2>1. Weakest({"UNAVAILABLE"}) = "HIGH"
    BY <1>2 DEF Grade
  <2> QED
    BY <1>1, <2>1, WeakestHigh
<1>3. CASE selected # <<>>
  <2> DEFINE S == {o.grade : o \in Range(selected)}
  <2>1. DOMAIN selected = 1 .. Len(selected) /\ \A i \in DOMAIN selected : selected[i] \in OutcomeType
    OBVIOUS
  <2>2. \A o \in Range(selected) : o \in OutcomeType
    BY <2>1 DEF Range
  <2>3. S \in SUBSET Grades
    BY <2>2 DEF OutcomeType
  <2>4. 1 \in DOMAIN selected
    BY <1>3
  <2>5. S # {}
    BY <2>4 DEF Range
  <2>6. Weakest(S) = "HIGH"
    BY <1>3 DEF Grade
  <2> HIDE DEF S
  <2>7. S = {"HIGH"}
    BY <2>3, <2>5, <2>6, WeakestHigh
  <2> QED
    BY <1>3, <2>7 DEF S
<1> QED
  BY <1>2, <1>3

LEMMA RespondStep ==
    ASSUME ScenarioInv, Respond
    PROVE  ScenarioInv'
<1>1. /\ PastTells /\ AskedTells /\ request # <<>> /\ time \in Nat
      /\ past' = past /\ time' = time /\ asked' = asked /\ economics' = economics
      /\ request' = <<>> /\ considered' = <<>>
  BY DEF ScenarioInv, Respond, PastTells
<1>2. PastStep
  BY <1>1 DEF PastStep
<1>3. PICK r \in Requests : request = <<r>>
  BY <1>1 DEF ScenarioInv, RequestTells
<1>4. considered \in Seq(OutcomeType)
  BY <1>1 DEF ScenarioInv, RequestTells
<1>5. PICK c \in Range(context), mem \in {economics} :
        context = <<c>> /\ SituationTells(c) /\ \A o \in Range(considered) : OutcomeTells(o, c, mem)
  BY <1>1 DEF ScenarioInv, RequestTells
<1>6. PICK selected : selected = Selected(r)
  OBVIOUS
<1>7. Ordered(selected, considered, r.objective)
  BY <1>4, <1>6, SelectedFacts
<1>8. PICK x : /\ results' = Append(results, x) /\ x.objective = r.objective /\ x.at = c.at
               /\ x.selected = selected /\ x.mode = Mode(selected) /\ x.grade = Grade(selected)
  <2>1. request[1] = r /\ context[1] = c
    BY <1>3, <1>5
  <2>2. \E saved \in BOOLEAN : results' = Append(results,
            [kind |-> r.kind, objective |-> r.objective, at |-> c.at,
             considered |-> considered, selected |-> selected,
             mode |-> Mode(selected), grade |-> Grade(selected),
             projected |-> c.baseline + Total([i \in DOMAIN selected |-> selected[i].delta]),
             filed |-> saved /\ (r.kind = "plan" => selected # <<>>)])
    BY <1>6, <2>1 DEF Respond
  <2>3. PICK total, filed : results' = Append(results,
            [kind |-> r.kind, objective |-> r.objective, at |-> c.at,
             considered |-> considered, selected |-> selected,
             mode |-> Mode(selected), grade |-> Grade(selected), projected |-> total, filed |-> filed])
    BY Zenon, <2>2
  <2>4. PICK x : x = [kind |-> r.kind, objective |-> r.objective, at |-> c.at,
                      considered |-> considered, selected |-> selected,
                      mode |-> Mode(selected), grade |-> Grade(selected), projected |-> total, filed |-> filed]
    OBVIOUS
  <2>5. /\ x.objective = r.objective /\ x.at = c.at
        /\ x.selected = selected /\ x.mode = Mode(selected) /\ x.grade = Grade(selected)
    BY <2>4
  <2> QED
    BY <2>3, <2>4, <2>5
<1>9. /\ selected \in Seq(OutcomeType)
      /\ \A n \in DOMAIN selected : OutcomeTells(selected[n], c, mem) /\ Available(selected[n])
  BY <1>5, <1>7 DEF Ordered
<1>10. ResultTells(x, mem)
  <2>1. x.at \in 0 .. time
    <3>1. c.at \in Nat /\ c.at <= time
      BY <1>5 DEF SituationTells, ContextType
    <3> QED
      BY <1>1, <1>8, <3>1
  <2>2. \A n \in DOMAIN selected :
            selected[n].at <= time /\ \E s \in SaidBefore(selected[n].at) : Permits(s, selected[n])
    BY <1>9 DEF OutcomeTells
  <2>3. \A m, n \in DOMAIN selected : m < n => ~Better(selected[n], selected[m], r.objective)
    BY <1>7 DEF Ordered
  <2>4. ASSUME Grade(selected) = "HIGH"
        PROVE  /\ Mode(selected) = "MODEL_BACKED"
               /\ \A n \in DOMAIN selected : \A k \in selected[n].checks : k.outcome # "NOT_EVALUATED"
               /\ \E s \in SaidBefore(c.at) : s.row /\ s.age < 120 /\ 100 * s.found >= 75 * s.needed
    <3>1. selected # <<>> /\ \A o \in Range(selected) : o.grade = "HIGH"
      BY <1>9, <2>4, GradeIsHigh
    <3>2. \A n \in DOMAIN selected : selected[n].grade = "HIGH"
      BY <3>1 DEF Range
    <3>3. \A n \in DOMAIN selected :
             /\ selected[n].mode = "MODEL_BACKED" /\ \A k \in selected[n].checks : k.outcome # "NOT_EVALUATED"
             /\ c.age < 120 /\ 100 * c.found >= 75 * c.needed
      BY <1>9, <3>2 DEF OutcomeTells
    <3>4. Mode(selected) = "MODEL_BACKED"
      BY <3>1, <3>3 DEF Mode, Range
    <3>5. 1 \in DOMAIN selected
      BY <1>9, <3>1
    <3>6. c.age < 120 /\ 100 * c.found >= 75 * c.needed
      BY <3>3, <3>5
    <3>7. PICK s \in SaidBefore(c.at) : s.row /\ c.age = s.age /\ c.found = s.found /\ c.needed = s.needed
      BY <1>5 DEF SituationTells
    <3> QED
      BY <3>3, <3>4, <3>6, <3>7
  <2>5. \A n \in DOMAIN selected : Settled(selected[n], c.at, mem)
    BY <1>9 DEF OutcomeTells
  <2> QED
    BY <1>8, <1>9, <2>1, <2>2, <2>3, <2>4, <2>5 DEF ResultTells
<1>11. ResultTells(x, mem)'
  BY <1>1, <1>2, <1>10, TellsStay
<1>12. /\ results' \in Seq(Range(results'))
       /\ \A res \in Range(results'), had \in {economics'} : ResultTells(res, had)'
  BY <1>1, <1>2, <1>5, <1>8, <1>11, ResultsGrow
<1>13. AskedTells'
  BY <1>1, <1>2, TellsStay DEF AskedTells
<1>14. PastTells' /\ RequestTells'
  BY <1>1, <1>2, PastStays DEF RequestTells
<1> QED
  BY <1>1, <1>12, <1>13, <1>14 DEF ScenarioInv

LEMMA ScenarioKept == ScenarioInv /\ [ScenarioNext]_scenarioVars => ScenarioInv'
<1> SUFFICES ASSUME ScenarioInv, [ScenarioNext]_scenarioVars PROVE ScenarioInv'
  OBVIOUS
<1>1. CASE ScenarioTick
  BY <1>1, TickStep
<1>2. CASE RecordsChange
  BY <1>2, RecordsStep
<1>3. ASSUME NEW r \in Requests, Ask(r) PROVE ScenarioInv'
  BY <1>3, AskStep
<1>4. CASE EvaluateNext
  BY <1>4, EvaluateStep
<1>5. CASE Respond
  BY <1>5, RespondStep
<1>6. CASE UNCHANGED scenarioVars
  <2>1. PastStep /\ Same
    BY <1>6 DEF scenarioVars, PastStep, Same
  <2> QED
    BY <2>1, TimeAndRecordsStep
<1> QED
  BY <1>1, <1>2, <1>3, <1>4, <1>5, <1>6 DEF ScenarioNext

(* What tells is sound: what two pages say of one proposal is what an           *)
(* evaluation on the one record says of it.                                 *)
LEMMA ScenarioInvSound == ScenarioInv => OffersSound
<1> SUFFICES ASSUME ScenarioInv PROVE OffersSound
  OBVIOUS
<1>1. PICK mem \in {economics} : \A i \in DOMAIN results : ResultTells(results[i], mem)
  BY DEF ScenarioInv, Range
<1>2. SelectedWasPermitted
  BY <1>1 DEF SelectedWasPermitted, ResultTells, Range
<1>3. HighIsEarned
  BY <1>1 DEF HighIsEarned, ResultTells, Range
<1>4. PagesAgree
  <2> DEFINE same(o, p) == o.key = p.key /\ o.magnitude = p.magnitude /\ o.shift = p.shift
  <2> SUFFICES ASSUME NEW i \in DOMAIN results, NEW j \in DOMAIN results,
                      results[i].objective = results[j].objective,
                      NEW r, r \in StoodStill(results[i]), r \in StoodStill(results[j]),
                      NEW a \in DOMAIN results[i].selected, NEW b \in DOMAIN results[i].selected,
                      NEW x \in DOMAIN results[j].selected, NEW y \in DOMAIN results[j].selected,
                      a < b, y < x,
                      same(results[i].selected[a], results[j].selected[x]),
                      same(results[i].selected[b], results[j].selected[y])
               PROVE  ~Better(results[i].selected[a], results[i].selected[b], results[i].objective)
    BY DEF PagesAgree
  <2>1. ~Better(results[j].selected[x], results[j].selected[y], results[j].objective)
    BY <1>1 DEF ResultTells
  <2>2. ASSUME NEW k \in {i, j}, NEW n \in DOMAIN results[k].selected, NEW o, o = results[k].selected[n]
        PROVE  ScoresAs(o, OutcomeOf(o.key, o.magnitude, o.shift, r, mem[1]))
    <3>1. o \in Range(results[k].selected)
      BY <2>2 DEF Range
    <3>2. SaidBefore(results[k].at) \cup SaidBefore(o.at) = {r}
      BY <3>1 DEF StoodStill
    <3>3. Settled(o, results[k].at, mem)
      BY <1>1, <2>2 DEF ResultTells
    <3> QED
      BY <3>2, <3>3 DEF Settled
  <2>3. PICK o, p, q, t, objective :
           /\ o = results[i].selected[a] /\ p = results[i].selected[b]
           /\ q = results[j].selected[x] /\ t = results[j].selected[y] /\ objective = results[i].objective
    OBVIOUS
  <2>4. same(o, q) /\ same(p, t)
    BY <2>3
  <2>5. /\ ScoresAs(o, OutcomeOf(o.key, o.magnitude, o.shift, r, mem[1]))
        /\ ScoresAs(p, OutcomeOf(p.key, p.magnitude, p.shift, r, mem[1]))
        /\ ScoresAs(q, OutcomeOf(q.key, q.magnitude, q.shift, r, mem[1]))
        /\ ScoresAs(t, OutcomeOf(t.key, t.magnitude, t.shift, r, mem[1]))
    BY <2>2, <2>3
  <2>6. ScoresAs(o, q) /\ ScoresAs(p, t)
    BY <2>4, <2>5 DEF ScoresAs
  <2>7. ScoreFor(o, objective) = ScoreFor(q, objective) /\ ScoreFor(p, objective) = ScoreFor(t, objective)
    BY <2>6, SameScore DEF ScoresAs
  <2>8. ~Better(q, t, objective)
    BY <2>1, <2>3
  <2> QED
    BY <2>3, <2>7, <2>8 DEF Better
<1> QED
  BY <1>2, <1>3, <1>4 DEF OffersSound

(* Whatever is recorded, changed, asked and remembered, an action that is      *)
(* offered was permitted by records less than twenty seconds old               *)
(* (constraints.py:64, :221), a HIGH grade was earned (evidence.py:315), and    *)
(* two pages on records that stood still order the same proposals alike         *)
(* (recommendations.py:265).                                                *)
THEOREM OffersAreSound == ScenarioSpec => []OffersSound
<1>1. ScenarioInit => ScenarioInv
  BY ScenarioBegins
<1>2. ScenarioInv /\ [ScenarioNext]_scenarioVars => ScenarioInv'
  BY ScenarioKept
<1>3. ScenarioInv => OffersSound
  BY ScenarioInvSound
<1> QED
  BY <1>1, <1>2, <1>3, PTL DEF ScenarioSpec

-----------------------------------------------------------------------------
(***************************************************************************)
(* Decisions, their audit log and their outcomes agree, for any number of    *)
(* requests and decisions.                                                  *)
(*                                                                         *)
(* The argument: a request at work holds the lock of its decision, so the    *)
(* state it was begun in is still the state of the decision when it commits; *)
(* and a transaction whose audit entry failed leaves nothing but the lock.   *)
(***************************************************************************)

USE NobodyAssumption, RolesAssumption, MaxDecisionsAssumption

(* What a request at work may rely on until it commits.                     *)
LockHeld ==
    \A r \in DecisionRequests :
        deciding[r].op # "none" =>
            /\ deciding[r].decision \in DOMAIN decisions
            /\ decisions[deciding[r].decision].lock = r
            /\ decisions[deciding[r].decision].state \in Demands[deciding[r].op]
            /\ deciding[r].role \in AllowedTo[deciding[r].op]

DecisionInv ==
    /\ DecisionTypeOK
    /\ LockHeld
    /\ DecisionsAudited
    /\ OneOutcomeWhenMeasured
    /\ AuthorityOfApproved

LEMMA NoRequestType == NoDecisionRequest \in DecisionRequest
BY DEF NoDecisionRequest, DecisionRequest

LEMMA DecisionInvInit == DecisionInit => DecisionInv
<1> SUFFICES ASSUME DecisionInit PROVE DecisionInv
  OBVIOUS
<1>1. decisions \in Seq(Decision) /\ DOMAIN decisions = {}
  BY DEF DecisionInit
<1>2. DecisionTypeOK
  BY <1>1, NoRequestType DEF DecisionInit, DecisionTypeOK
<1>3. LockHeld
  BY DEF DecisionInit, LockHeld, NoDecisionRequest
<1> QED BY <1>1, <1>2, <1>3 DEF DecisionInv, DecisionsAudited, OneOutcomeWhenMeasured, AuthorityOfApproved

(* A new decision is one nobody has locked, measured or given an outcome.   *)
LEMMA CreatedState ==
    ASSUME NEW wanted \in LifecycleStates, NEW role \in Roles
    PROVE  /\ Created(wanted, role) \in Reviewable \cup {"APPROVED"}
           /\ Created(wanted, role) = "APPROVED" => role \in Approvers
BY DEF Created, Reviewable, Approvers

LEMMA RecordStep == DecisionInv /\ RecordDecision => DecisionInv'
<1> SUFFICES ASSUME DecisionInv, RecordDecision PROVE DecisionInv'
  OBVIOUS
<1>1. CASE UNCHANGED decisionVars
  BY <1>1 DEF decisionVars, DecisionInv, DecisionTypeOK, LockHeld, DecisionsAudited, OneOutcomeWhenMeasured, AuthorityOfApproved
<1>2. CASE \E wanted \in LifecycleStates, role \in Roles :
              decisions' = Append(decisions,
                  [state |-> Created(wanted, role), audited |-> Created(wanted, role),
                   authority |-> role, outcomes |-> 0, lock |-> Nobody])
  <2>1. PICK wanted \in LifecycleStates, role \in Roles :
              decisions' = Append(decisions,
                  [state |-> Created(wanted, role), audited |-> Created(wanted, role),
                   authority |-> role, outcomes |-> 0, lock |-> Nobody])
    BY <1>2
  <2> DEFINE new == [state |-> Created(wanted, role), audited |-> Created(wanted, role),
                     authority |-> role, outcomes |-> 0, lock |-> Nobody]
  <2>2. /\ Created(wanted, role) \in LifecycleStates
        /\ Created(wanted, role) # "MEASURED"
        /\ Created(wanted, role) \in {"APPROVED", "COMPLETED", "MEASURED"} => role \in Approvers
    BY CreatedState DEF LifecycleStates, Reviewable
  <2>3. new \in Decision
    BY <2>2 DEF Decision
  <2>4. decisions \in Seq(Decision) /\ deciding \in [DecisionRequests -> DecisionRequest]
    BY DEF DecisionInv, DecisionTypeOK
  <2>5. /\ decisions' \in Seq(Decision) /\ deciding' = deciding
        /\ DOMAIN decisions' = DOMAIN decisions \cup {Len(decisions) + 1}
        /\ \A d \in DOMAIN decisions : decisions'[d] = decisions[d]
        /\ decisions'[Len(decisions) + 1] = new
    BY <2>1, <2>3, <2>4 DEF RecordDecision
  <2>6. DecisionTypeOK'
    BY <2>4, <2>5 DEF DecisionTypeOK
  <2>7. LockHeld'
    BY <2>5 DEF LockHeld, DecisionInv
  <2>8. DecisionsAudited'
    BY <2>5 DEF DecisionsAudited, DecisionInv
  <2>9. OneOutcomeWhenMeasured'
    BY <2>2, <2>5 DEF OneOutcomeWhenMeasured, DecisionInv
  <2>10. AuthorityOfApproved'
    BY <2>2, <2>5 DEF AuthorityOfApproved, DecisionInv
  <2> QED BY <2>6, <2>7, <2>8, <2>9, <2>10 DEF DecisionInv
<1> QED BY <1>1, <1>2 DEF RecordDecision, decisionVars

LEMMA BeginStep ==
    ASSUME NEW r \in DecisionRequests, DecisionInv, DecisionBegin(r)
    PROVE  DecisionInv'
<1>1. PICK op \in DOMAIN Demands, d \in DOMAIN decisions, role \in Roles :
        /\ role \in AllowedTo[op]
        /\ decisions[d].lock = Nobody
        /\ decisions[d].state \in Demands[op]
        /\ deciding' = [deciding EXCEPT ![r] = [op |-> op, decision |-> d, role |-> role]]
        /\ decisions' = [decisions EXCEPT ![d].lock = r]
  BY DEF DecisionBegin
<1>2. decisions \in Seq(Decision) /\ deciding \in [DecisionRequests -> DecisionRequest]
  BY DEF DecisionInv, DecisionTypeOK
<1>3. op \in {"review", "execute", "outcome"} /\ op # "none" /\ d \in Nat /\ decisions[d] \in Decision
  BY <1>2 DEF Demands
<1>4. [op |-> op, decision |-> d, role |-> role] \in DecisionRequest
  BY <1>3 DEF DecisionRequest
<1>5. [decisions[d] EXCEPT !.lock = r] \in Decision
  BY <1>3 DEF Decision
<1>6. /\ decisions' \in Seq(Decision) /\ DOMAIN decisions' = DOMAIN decisions
      /\ decisions'[d] = [decisions[d] EXCEPT !.lock = r]
      /\ \A e \in DOMAIN decisions : e # d => decisions'[e] = decisions[e]
  BY <1>1, <1>2, <1>5
<1>7. \A e \in DOMAIN decisions :
        /\ decisions'[e].state = decisions[e].state /\ decisions'[e].audited = decisions[e].audited
        /\ decisions'[e].authority = decisions[e].authority /\ decisions'[e].outcomes = decisions[e].outcomes
  BY <1>3, <1>6 DEF Decision
<1>8. DecisionTypeOK'
  BY <1>1, <1>2, <1>4, <1>6 DEF DecisionTypeOK
<1>9. LockHeld'
  <2> SUFFICES ASSUME NEW q \in DecisionRequests, deciding'[q].op # "none"
               PROVE  /\ deciding'[q].decision \in DOMAIN decisions'
                      /\ decisions'[deciding'[q].decision].lock = q
                      /\ decisions'[deciding'[q].decision].state \in Demands[deciding'[q].op]
                      /\ deciding'[q].role \in AllowedTo[deciding'[q].op]
    BY DEF LockHeld
  <2>1. CASE q = r
    <3>1. deciding'[q] = [op |-> op, decision |-> d, role |-> role]
      BY <1>1, <1>2, <2>1
    <3>2. decisions'[d].lock = r
      BY <1>3, <1>6 DEF Decision
    <3> QED BY <1>1, <1>6, <1>7, <2>1, <3>1, <3>2
  <2>2. CASE q # r
    <3>1. deciding'[q] = deciding[q]
      BY <1>1, <1>2, <2>2
    <3>2. deciding[q].decision # d
      BY <1>1, <3>1 DEF DecisionInv, LockHeld
    <3> QED BY <1>6, <3>1, <3>2 DEF DecisionInv, LockHeld
  <2> QED BY <2>1, <2>2
<1>10. DecisionsAudited' /\ OneOutcomeWhenMeasured' /\ AuthorityOfApproved'
  BY <1>6, <1>7 DEF DecisionInv, DecisionsAudited, OneOutcomeWhenMeasured, AuthorityOfApproved
<1> QED BY <1>8, <1>9, <1>10 DEF DecisionInv

(* What a request leaves when it commits, from what it found.               *)
LEMMA DecidedRow ==
    ASSUME NEW d \in Decision, NEW op \in DOMAIN Demands, NEW role \in Roles, NEW state \in LeadsTo[op],
           d.state \in Demands[op], role \in AllowedTo[op],
           d.outcomes = (IF d.state = "MEASURED" THEN 1 ELSE 0),
           d.state \in {"APPROVED", "COMPLETED", "MEASURED"} => d.authority \in Approvers
    PROVE  LET e == Decided(d, op, role, state) IN
           /\ e \in Decision
           /\ e.state = e.audited
           /\ e.outcomes = IF e.state = "MEASURED" THEN 1 ELSE 0
           /\ e.state \in {"APPROVED", "COMPLETED", "MEASURED"} => e.authority \in Approvers
<1>1. op \in {"review", "execute", "outcome"}
  BY DEF Demands
<1>2. state \in LifecycleStates
  BY <1>1 DEF LeadsTo, LifecycleStates
<1>3. d.outcomes = 0
  BY <1>1 DEF Demands, Reviewable
<1> DEFINE e == Decided(d, op, role, state)
<1>4. /\ e.state = state /\ e.audited = state /\ e.lock = Nobody
      /\ e.authority = (IF op = "review" THEN role ELSE d.authority)
      /\ e.outcomes = (IF op = "outcome" THEN 1 ELSE 0)
  BY <1>3 DEF Decided, Decision
<1>5. e \in Decision
  <2> DEFINE authority == IF op = "review" THEN role ELSE d.authority
             outcomes == IF op = "outcome" THEN d.outcomes + 1 ELSE d.outcomes
  <2>1. authority \in Roles /\ outcomes \in Nat
    BY DEF Decision
  <2>2. e = [d EXCEPT !.state = state, !.audited = state, !.authority = authority,
                      !.outcomes = outcomes, !.lock = Nobody]
    BY DEF Decided, Decision
  <2> QED BY <1>2, <2>1, <2>2 DEF Decision
<1>6. state = "MEASURED" <=> op = "outcome"
  BY <1>1 DEF LeadsTo
<1>7. op # "review" => d.state \in {"APPROVED", "COMPLETED"}
  BY <1>1 DEF Demands
<1>8. op = "review" => role \in Approvers
  BY DEF AllowedTo
<1> QED BY <1>4, <1>5, <1>6, <1>7, <1>8

LEMMA CommitStep ==
    ASSUME NEW r \in DecisionRequests, DecisionInv, DecisionCommit(r)
    PROVE  DecisionInv'
<1> DEFINE d == deciding[r].decision
           op == deciding[r].op
           role == deciding[r].role
<1>1. decisions \in Seq(Decision) /\ deciding \in [DecisionRequests -> DecisionRequest]
  BY DEF DecisionInv, DecisionTypeOK
<1>2. /\ op # "none" /\ deciding' = [deciding EXCEPT ![r] = NoDecisionRequest]
      /\ d \in DOMAIN decisions /\ decisions[d].lock = r
      /\ decisions[d].state \in Demands[op] /\ role \in AllowedTo[op]
  BY DEF DecisionCommit, DecisionInv, LockHeld
<1>3. op \in DOMAIN Demands /\ role \in Roles /\ decisions[d] \in Decision
  BY <1>1, <1>2 DEF DecisionRequest
<1>4. \E e \in Decision :
        /\ decisions' = [decisions EXCEPT ![d] = e]
        /\ e.state = e.audited
        /\ e.outcomes = IF e.state = "MEASURED" THEN 1 ELSE 0
        /\ e.state \in {"APPROVED", "COMPLETED", "MEASURED"} => e.authority \in Approvers
  <2>1. /\ decisions[d].state = decisions[d].audited
        /\ decisions[d].outcomes = (IF decisions[d].state = "MEASURED" THEN 1 ELSE 0)
        /\ decisions[d].state \in {"APPROVED", "COMPLETED", "MEASURED"} => decisions[d].authority \in Approvers
    BY <1>2 DEF DecisionInv, DecisionsAudited, OneOutcomeWhenMeasured, AuthorityOfApproved
  <2>2. CASE \E state \in LeadsTo[op] : decisions' = [decisions EXCEPT ![d] = Decided(decisions[d], op, role, state)]
    <3>1. PICK state \in LeadsTo[op] : decisions' = [decisions EXCEPT ![d] = Decided(decisions[d], op, role, state)]
      BY <2>2
    <3> QED BY <1>2, <1>3, <2>1, <3>1, DecidedRow
  <2>3. CASE decisions' = [decisions EXCEPT ![d].lock = Nobody]
    <3>1. [decisions[d] EXCEPT !.lock = Nobody] \in Decision
      BY <1>3 DEF Decision
    <3>2. decisions' = [decisions EXCEPT ![d] = [decisions[d] EXCEPT !.lock = Nobody]]
      BY <2>3
    <3> QED BY <1>3, <2>1, <3>1, <3>2 DEF Decision
  <2> QED BY <2>2, <2>3 DEF DecisionCommit
<1>5. PICK e \in Decision :
        /\ decisions' = [decisions EXCEPT ![d] = e]
        /\ e.state = e.audited
        /\ e.outcomes = IF e.state = "MEASURED" THEN 1 ELSE 0
        /\ e.state \in {"APPROVED", "COMPLETED", "MEASURED"} => e.authority \in Approvers
  BY <1>4
<1>6. /\ decisions' \in Seq(Decision) /\ DOMAIN decisions' = DOMAIN decisions /\ decisions'[d] = e
      /\ \A f \in DOMAIN decisions : f # d => decisions'[f] = decisions[f]
  BY <1>1, <1>2, <1>5
<1>7. DecisionTypeOK'
  BY <1>1, <1>2, <1>6, NoRequestType DEF DecisionTypeOK
<1>8. LockHeld'
  <2> SUFFICES ASSUME NEW q \in DecisionRequests, deciding'[q].op # "none"
               PROVE  deciding'[q] = deciding[q] /\ deciding[q].decision # d
    BY <1>6 DEF DecisionInv, LockHeld
  <2>1. q # r
    BY <1>1, <1>2 DEF NoDecisionRequest
  <2>2. deciding'[q] = deciding[q]
    BY <1>1, <1>2, <2>1
  <2> QED BY <1>2, <2>1, <2>2 DEF DecisionInv, LockHeld
<1>9. DecisionsAudited' /\ OneOutcomeWhenMeasured' /\ AuthorityOfApproved'
  BY <1>5, <1>6 DEF DecisionInv, DecisionsAudited, OneOutcomeWhenMeasured, AuthorityOfApproved
<1> QED BY <1>7, <1>8, <1>9 DEF DecisionInv

LEMMA DecisionInvNext == DecisionInv /\ [DecisionNext]_decisionVars => DecisionInv'
<1>1. DecisionInv /\ UNCHANGED decisionVars => DecisionInv'
  BY DEF decisionVars, DecisionInv, DecisionTypeOK, LockHeld, DecisionsAudited, OneOutcomeWhenMeasured, AuthorityOfApproved
<1> QED BY <1>1, RecordStep, BeginStep, CommitStep DEF DecisionNext

LEMMA DecisionInvariant == DecisionSpec => []DecisionInv
<1> QED BY DecisionInvInit, DecisionInvNext, PTL DEF DecisionSpec

(* Decisions, requests and locks are well typed.                            *)
THEOREM DecisionTypeCorrect == DecisionSpec => []DecisionTypeOK
<1>1. DecisionInv => DecisionTypeOK
  BY DEF DecisionInv
<1> QED BY <1>1, DecisionInvariant, PTL

(* However audit INSERTs fail, the audit log names the state of a decision.  *)
THEOREM DecisionsAreAudited == DecisionSpec => []DecisionsAudited
<1>1. DecisionInv => DecisionsAudited
  BY DEF DecisionInv
<1> QED BY <1>1, DecisionInvariant, PTL

(* A measured decision has one outcome, any other none.                     *)
THEOREM OutcomesMeasuredOnce == DecisionSpec => []OneOutcomeWhenMeasured
<1>1. DecisionInv => OneOutcomeWhenMeasured
  BY DEF DecisionInv
<1> QED BY <1>1, DecisionInvariant, PTL

(* Approval, execution and measurement rest on an approver.                 *)
THEOREM ApprovalsAuthorised == DecisionSpec => []AuthorityOfApproved
<1>1. DecisionInv => AuthorityOfApproved
  BY DEF DecisionInv
<1> QED BY <1>1, DecisionInvariant, PTL

(* Operational decisions are sound, however requests race and audit        *)
(* INSERTs fail.                                                           *)
THEOREM DecisionsAreSound == DecisionSpec => []DecisionsSound
<1>1. (/\ DecisionTypeOK
       /\ DecisionsAudited
       /\ OneOutcomeWhenMeasured
       /\ AuthorityOfApproved) => DecisionsSound
  BY DEF DecisionsSound
<1>2. QED
  BY <1>1, DecisionTypeCorrect, DecisionsAreAudited, OutcomesMeasuredOnce, ApprovalsAuthorised, PTL

-----------------------------------------------------------------------------
(***************************************************************************)
(* What the status of an artifact is worth, for any number of readers, saves *)
(* and changes.                                                             *)
(*                                                                         *)
(* The argument of the first theorem: whatever is compared with the file was  *)
(* in the file when a save computed its checksum, right after a dump, and a   *)
(* late change is never there then; a new change is a content that nothing    *)
(* has seen yet.  Of the second: in the first save every checksum there is    *)
(* is the one of the content it dumped, and the file still has it.            *)
(***************************************************************************)

ChangedUpTo(n) == {<<"changed", m>> : m \in 1 .. n}
Contents == {Absent, Torn} \cup {<<"saved", n>> : n \in Nat} \cup ChangedUpTo(changes)
Loader == [pc : {"idle", "loaded", "manifest", "told"}, loaded : Contents, since : Nat, expected : Contents, actual : Contents,
           status : {"unverified", "no_manifest", "failed", "passed"}]

ArtifactTypes ==
    /\ artifact \in Contents /\ manifest \in Contents /\ checksum \in Contents
    /\ saver \in {"idle", "dumping", "dumped", "writing", "renaming"}
    /\ saves \in Nat /\ changes \in Nat
    /\ late \subseteq ChangedUpTo(changes)
    /\ loader \in [Loaders -> Loader]

(* Nothing that counts as right was changed late.                           *)
NothingLate ==
    /\ saver \in {"dumping", "dumped"} => artifact \notin late
    /\ checksum \notin late /\ manifest \notin late
    /\ \A l \in Loaders : loader[l].expected \notin late

(* As long as no save was begun since it was read, a late change that was     *)
(* loaded is still in the file or another late change is.                   *)
LoadedLate ==
    \A l \in Loaders :
        /\ loader[l].since <= saves
        /\ loader[l].status = "passed" => loader[l].pc = "told"
        /\ (/\ loader[l].pc \in {"loaded", "manifest"}
            /\ loader[l].loaded \in late /\ loader[l].since = saves)
             => artifact \in late /\ saver \notin {"dumping", "dumped"}

LateInv == ArtifactTypes /\ NothingLate /\ LoadedLate /\ LateChangeNeverPasses

USE ArtifactAssumption

(* A change makes a content that was not there before.                      *)
LEMMA ChangesAreNew ==
    ASSUME NEW n \in Nat
    PROVE  /\ <<"changed", n + 1>> \notin {Absent, Torn} \cup {<<"saved", m>> : m \in Nat} \cup ChangedUpTo(n)
           /\ ChangedUpTo(n + 1) = ChangedUpTo(n) \cup {<<"changed", n + 1>>}
<1>1. \A m \in 1 .. n : <<"changed", n + 1>> # <<"changed", m>>
  OBVIOUS
<1>2. <<"changed", n + 1>> \notin {Absent, Torn} \cup {<<"saved", m>> : m \in Nat}
  BY DEF Absent, Torn
<1>3. 1 .. n + 1 = (1 .. n) \cup {n + 1}
  OBVIOUS
<1> QED BY <1>1, <1>2, <1>3 DEF ChangedUpTo

(* The fixed contents are none of the changes.                              *)
LEMMA FixedContents ==
    ASSUME NEW n \in Nat
    PROVE  /\ Absent \notin ChangedUpTo(n) /\ Torn \notin ChangedUpTo(n)
           /\ \A m \in Nat : <<"saved", m>> \notin ChangedUpTo(n)
BY DEF ChangedUpTo, Absent, Torn

LEMMA LateInit == ArtifactInit => LateInv
BY DEF ArtifactInit, LateInv, ArtifactTypes, NothingLate, LoadedLate, LateChangeNeverPasses, Loader, Contents,
       ChangedUpTo, NotLoading, Absent

LEMMA LateNext == LateInv /\ [ArtifactNext]_artifactVars => LateInv'
<1> SUFFICES ASSUME LateInv, [ArtifactNext]_artifactVars PROVE LateInv'
  OBVIOUS
<1> USE DEF LateInv
<1>1. CASE DumpBegin
  <2>1. Torn \in Contents /\ Torn \notin late
    BY FixedContents DEF ArtifactTypes, Contents
  <2>2. ArtifactTypes'
    BY <1>1, <2>1 DEF DumpBegin, ArtifactTypes, Contents, Loader
  <2>3. saves \in Nat /\ saves' = saves + 1 /\ UNCHANGED <<late, loader>>
    BY <1>1 DEF DumpBegin, ArtifactTypes
  <2>4. \A l \in Loaders : loader[l].since \in Nat /\ loader[l].since <= saves
    BY DEF ArtifactTypes, Loader, LoadedLate
  <2>5. \A l \in Loaders : loader'[l].since < saves'
    BY <2>3, <2>4
  <2>6. LoadedLate'
    BY <2>3, <2>4, <2>5 DEF LoadedLate
  <2>7. LateChangeNeverPasses'
    BY <2>3, <2>5 DEF LateChangeNeverPasses
  <2> QED BY <1>1, <2>1, <2>2, <2>6, <2>7 DEF DumpBegin, NothingLate
<1>2. CASE DumpEnd
  <2>1. saves \in Nat /\ changes \in Nat /\ late \subseteq ChangedUpTo(changes)
    BY DEF ArtifactTypes
  <2>2. <<"saved", saves>> \in Contents /\ <<"saved", saves>> \notin late
    BY <2>1, FixedContents DEF Contents
  <2>3. ArtifactTypes'
    BY <1>2, <2>2 DEF DumpEnd, ArtifactTypes, Contents, Loader
  <2> QED BY <1>2, <2>2, <2>3 DEF DumpEnd, NothingLate, LoadedLate, LateChangeNeverPasses
<1>3. CASE DumpFails
  BY <1>3 DEF DumpFails, ArtifactTypes, NothingLate, LoadedLate, LateChangeNeverPasses, Contents, Loader
<1>4. CASE ComputeChecksum
  <2>1. ArtifactTypes'
    BY <1>4 DEF ComputeChecksum, ArtifactTypes, Contents, Loader
  <2> QED BY <1>4, <2>1 DEF ComputeChecksum, NothingLate, LoadedLate, LateChangeNeverPasses
<1>5. CASE WriteTemporary
  BY <1>5 DEF WriteTemporary, ManifestMeanwhile, ArtifactTypes, NothingLate, LoadedLate, LateChangeNeverPasses,
              Contents, Loader
<1>6. CASE RenameManifest
  <2>1. ArtifactTypes'
    BY <1>6 DEF RenameManifest, ArtifactTypes, Contents, Loader
  <2>2. Absent \notin late
    BY FixedContents DEF ArtifactTypes
  <2> QED BY <1>6, <2>1, <2>2 DEF RenameManifest, NothingLate, LoadedLate, LateChangeNeverPasses
<1>7. CASE SaverDies
  <2>1. ArtifactTypes'
    BY <1>7 DEF SaverDies, ArtifactTypes, Contents, Loader
  <2>2. Absent \notin late
    BY FixedContents DEF ArtifactTypes
  <2> QED BY <1>7, <2>1, <2>2 DEF SaverDies, NothingLate, LoadedLate, LateChangeNeverPasses
<1>8. CASE SomebodyChanges
  <2> DEFINE new == <<"changed", changes + 1>>
  <2>1. changes \in Nat /\ changes' = changes + 1 /\ artifact' = new /\ changes' \in Nat
    BY <1>8 DEF SomebodyChanges, ArtifactTypes
  <2>2. new \notin Contents /\ ChangedUpTo(changes + 1) = ChangedUpTo(changes) \cup {new}
    BY <2>1, ChangesAreNew DEF Contents
  <2>3. Contents' = Contents \cup {new}
    BY <2>1, <2>2 DEF Contents
  <2>4. late' \subseteq late \cup {new} /\ (saver = "dumped" => late' = late)
    BY <1>8, <2>1 DEF SomebodyChanges
  <2>5. UNCHANGED <<manifest, saver, checksum, saves, loader>>
    BY <1>8 DEF SomebodyChanges
  <2>6. /\ loader \in [Loaders -> Loader']
        /\ \A l \in Loaders : {loader[l].loaded, loader[l].expected, loader[l].actual} \subseteq Contents
    BY <2>3 DEF ArtifactTypes, Loader
  <2>7. ArtifactTypes'
    BY <2>1, <2>2, <2>3, <2>4, <2>5, <2>6 DEF ArtifactTypes
  <2>8. manifest \in Contents /\ checksum \in Contents /\ late \subseteq Contents
    BY DEF ArtifactTypes, Contents
  <2>9. saver # "dumping"
    BY <1>8 DEF SomebodyChanges
  <2>10. NothingLate'
    BY <2>1, <2>2, <2>4, <2>5, <2>6, <2>8, <2>9 DEF NothingLate
  <2>11. LateChangeNeverPasses'
    BY <2>2, <2>4, <2>5, <2>6 DEF LateChangeNeverPasses
  <2>12. saver # "dumping" /\ (saver # "dumped" => new \in late')
    BY <1>8, <2>1 DEF SomebodyChanges
  <2>13. LoadedLate'
    <3>1. CASE saver = "dumped"
      BY <2>4, <2>5, <3>1 DEF LoadedLate
    <3>2. CASE saver # "dumped"
      BY <2>1, <2>5, <2>12, <3>2 DEF LoadedLate
    <3> QED BY <3>1, <3>2
  <2> QED BY <2>7, <2>10, <2>11, <2>13
<1>9. ASSUME NEW l \in Loaders, LoadArtifact(l) PROVE LateInv'
  <2> DEFINE one == [loader[l] EXCEPT !.pc = "loaded", !.loaded = artifact, !.since = saves]
  <2>1. /\ artifact \in Contents /\ saves \in Nat /\ loader \in [Loaders -> Loader]
        /\ UNCHANGED <<artifact, manifest, saver, checksum, saves, changes, late>>
    BY <1>9 DEF LoadArtifact, ArtifactTypes
  <2>2. loader' = [loader EXCEPT ![l] = one]
    BY <1>9 DEF LoadArtifact
  <2>3. /\ one \in Loader /\ one.loaded = artifact /\ one.since = saves
        /\ one.expected = loader[l].expected /\ one.status = loader[l].status /\ one.actual = loader[l].actual
    BY <2>1 DEF Loader
  <2>4. loader[l].status # "passed"
    BY <1>9 DEF LoadArtifact, LoadedLate
  <2> HIDE DEF one
  <2>5. /\ loader'[l] = one /\ \A m \in Loaders \ {l} : loader'[m] = loader[m]
        /\ loader' \in [Loaders -> Loader]
    BY <2>1, <2>2, <2>3
  <2>6. ArtifactTypes'
    BY <2>1, <2>5 DEF ArtifactTypes, Loader, Contents
  <2>7. NothingLate'
    BY <2>1, <2>3, <2>5, Zenon DEF NothingLate
  <2>8. LoadedLate'
    BY <2>1, <2>3, <2>4, <2>5 DEF LoadedLate, NothingLate
  <2>9. LateChangeNeverPasses'
    BY <2>1, <2>3, <2>4, <2>5 DEF LateChangeNeverPasses
  <2> QED BY <2>6, <2>7, <2>8, <2>9
<1>10. ASSUME NEW l \in Loaders, ReadManifest(l) PROVE LateInv'
  BY <1>10 DEF ReadManifest, WithoutManifest, ArtifactTypes, NothingLate, LoadedLate, LateChangeNeverPasses, Contents, Loader
<1>11. ASSUME NEW l \in Loaders, CompareChecksum(l) PROVE LateInv'
  BY <1>11 DEF CompareChecksum, ArtifactTypes, NothingLate, LoadedLate, LateChangeNeverPasses, Contents, Loader
<1>12. ASSUME NEW l \in Loaders, FinishLoad(l) PROVE LateInv'
  <2>1. Absent \in Contents /\ Absent \notin late
    BY FixedContents DEF ArtifactTypes, Contents
  <2>2. NotLoading \in Loader
    BY <2>1 DEF NotLoading, Loader
  <2>3. ArtifactTypes'
    BY <1>12, <2>2 DEF FinishLoad, ArtifactTypes, Contents, Loader
  <2> QED BY <1>12, <2>1, <2>3 DEF FinishLoad, NotLoading, NothingLate, LoadedLate, LateChangeNeverPasses, ArtifactTypes
<1>13. CASE UNCHANGED artifactVars
  BY <1>13 DEF artifactVars, ArtifactTypes, NothingLate, LoadedLate, LateChangeNeverPasses, Contents, Loader
<1> QED BY <1>1, <1>2, <1>3, <1>4, <1>5, <1>6, <1>7, <1>8, <1>9, <1>10, <1>11, <1>12, <1>13 DEF ArtifactNext

(* A file changed behind the manifest's back never verifies (checker.py:121,  *)
(* inference/engine.py:217).                                                *)
THEOREM ChangedNeverVerifies == ArtifactSpec => []LateChangeNeverPasses
<1>1. LateInv => LateChangeNeverPasses
  BY DEF LateInv
<1> QED BY <1>1, LateInit, LateNext, PTL DEF ArtifactSpec

-----------------------------------------------------------------------------
FirstContent == <<"saved", 1>>

(* As long as nobody changes the file, the first save leaves only its own     *)
(* content behind.                                                          *)
FirstSave ==
    saves <= 1 /\ changes = 0 =>
        /\ {manifest, checksum} \subseteq {Absent, FirstContent}
        /\ saves = 0 => artifact = Absent /\ saver = "idle" /\ manifest = Absent /\ checksum = Absent
        /\ (FirstContent \in {manifest, checksum} \/ saver \in {"dumped", "writing", "renaming"})
             => artifact = FirstContent
        /\ \A l \in Loaders :
             /\ loader[l].status # "failed"
             /\ loader[l].pc = "manifest" => loader[l].expected = FirstContent /\ artifact = FirstContent

AlarmInv == LateInv /\ FirstSave

LEMMA FirstIsWhole == FirstContent # Absent /\ FirstContent # Torn /\ Absent # Torn
BY DEF FirstContent, Absent, Torn

LEMMA AlarmInit == ArtifactInit => AlarmInv
BY LateInit, FirstIsWhole DEF ArtifactInit, AlarmInv, FirstSave, NotLoading

LEMMA AlarmNext == AlarmInv /\ [ArtifactNext]_artifactVars => AlarmInv'
<1> SUFFICES ASSUME AlarmInv, [ArtifactNext]_artifactVars, saves' <= 1, changes' = 0
             PROVE  FirstSave'
  BY LateNext DEF AlarmInv, FirstSave
<1> USE FirstIsWhole
<1>0. saves \in Nat /\ changes \in Nat /\ loader \in [Loaders -> Loader]
  BY DEF AlarmInv, LateInv, ArtifactTypes
<1>1. CASE DumpBegin
  BY <1>0, <1>1 DEF DumpBegin, AlarmInv, FirstSave
<1>2. CASE DumpEnd
  <2>1. saves = 1
    BY <1>0, <1>2 DEF DumpEnd, AlarmInv, FirstSave
  <2> QED BY <1>0, <1>2, <2>1 DEF DumpEnd, AlarmInv, FirstSave, FirstContent
<1>3. CASE DumpFails
  BY <1>0, <1>3 DEF DumpFails, AlarmInv, FirstSave
<1>4. CASE ComputeChecksum
  BY <1>0, <1>4 DEF ComputeChecksum, AlarmInv, FirstSave
<1>5. CASE WriteTemporary
  BY <1>0, <1>5 DEF WriteTemporary, ManifestMeanwhile, AlarmInv, FirstSave
<1>6. CASE RenameManifest
  BY <1>0, <1>6 DEF RenameManifest, AlarmInv, FirstSave
<1>7. CASE SaverDies
  BY <1>0, <1>7 DEF SaverDies, AlarmInv, FirstSave
<1>8. CASE SomebodyChanges
  BY <1>0, <1>8 DEF SomebodyChanges
<1>9. ASSUME NEW l \in Loaders, LoadArtifact(l) PROVE FirstSave'
  BY <1>0, <1>9 DEF LoadArtifact, AlarmInv, FirstSave, Loader
<1>10. ASSUME NEW l \in Loaders, ReadManifest(l) PROVE FirstSave'
  BY <1>0, <1>10 DEF ReadManifest, WithoutManifest, AlarmInv, FirstSave, Loader
<1>11. ASSUME NEW l \in Loaders, CompareChecksum(l) PROVE FirstSave'
  BY <1>0, <1>11 DEF CompareChecksum, AlarmInv, FirstSave, Loader
<1>12. ASSUME NEW l \in Loaders, FinishLoad(l) PROVE FirstSave'
  BY <1>0, <1>12 DEF FinishLoad, NotLoading, AlarmInv, FirstSave, Loader
<1>13. CASE UNCHANGED artifactVars
  BY <1>13 DEF artifactVars, AlarmInv, FirstSave
<1> QED BY <1>1, <1>2, <1>3, <1>4, <1>5, <1>6, <1>7, <1>8, <1>9, <1>10, <1>11, <1>12, <1>13 DEF ArtifactNext

(* A reader of an artifact that was saved once, and whose file nobody changed,  *)
(* is never told that it was modified (checker.py:424).                      *)
THEOREM SavedOnceNeverFails == ArtifactSpec => []NoFalseAlarm
<1>1. ASSUME AlarmInv, saves = 1, changes = 0, NEW l \in Loaders
      PROVE  loader[l].status # "failed"
  <2>1. saves <= 1 /\ changes = 0
    BY <1>1
  <2> QED BY <1>1, <2>1, Zenon DEF AlarmInv, FirstSave
<1>2. AlarmInv => NoFalseAlarm
  BY <1>1 DEF NoFalseAlarm
<1> QED BY <1>2, AlarmInit, AlarmNext, PTL DEF ArtifactSpec

(* The check of an artifact tells the truth, for any readers, saves,       *)
(* changes and crashes.                                                    *)
THEOREM ArtifactIsSound == ArtifactSpec => []ArtifactSound
<1>1. LateChangeNeverPasses /\ NoFalseAlarm => ArtifactSound
  BY DEF ArtifactSound
<1>2. QED
  BY <1>1, ChangedNeverVerifies, SavedOnceNeverFails, PTL

(***************************************************************************)
(* The memo of the reads of a response, for any callers, keys and sizes.    *)
(*                                                                         *)
(* The argument: an entry is dated by the beginning of the call that read   *)
(* it, so what it holds is no older than its date, whoever stored it last.  *)
(***************************************************************************)

USE MemoSizeAssumption, UnmemoisedAssumption

(* No entry was read before its date, and no call holds a value older than *)
(* its beginning, unless it found the value in the memo.                   *)
MemoInv ==
    /\ MemoTypeOK
    /\ IsFiniteSet(DOMAIN memo)
    /\ \A k \in DOMAIN memo : memo[k].at <= memo[k].value
    /\ \A c \in MemoCallers : call[c].pc # "idle" => call[c].key \in MemoKeys
    /\ \A c \in MemoCallers : call[c].began <= memoNow
    /\ \A c \in MemoCallers :
          call[c].pc = "put" => call[c].began <= call[c].value /\ call[c].value <= memoNow
    /\ MemoAgeBounded

(* Evicting the oldest entry of a full memo makes room for one more.       *)
LEMMA RoomForOne ==
    ASSUME IsFiniteSet(DOMAIN memo), DOMAIN memo \subseteq MemoKeys,
           Cardinality(DOMAIN memo) <= MEMO_SIZE, NEW K \in Kept(StoreFull), NEW k \in MemoKeys
    PROVE  /\ K \subseteq DOMAIN memo
           /\ K \cup {k} \subseteq MemoKeys
           /\ IsFiniteSet(K \cup {k}) /\ Cardinality(K \cup {k}) <= MEMO_SIZE
<1>1. Cardinality(DOMAIN memo) \in Nat
  BY FS_CardinalityType
<1>2. K \subseteq DOMAIN memo
  BY DEF Kept
<1>3. IsFiniteSet(K) /\ Cardinality(K) \in Nat /\ Cardinality(K) <= MEMO_SIZE - 1
  <2>1. CASE ~StoreFull
    BY <1>1, <2>1 DEF Kept, StoreFull
  <2>2. CASE StoreFull
    <3>1. PICK oldest \in DOMAIN memo : K = DOMAIN memo \ {oldest}
      BY <2>2 DEF Kept
    <3>2. IsFiniteSet(K) /\ Cardinality(K) = Cardinality(DOMAIN memo) - 1
      BY <3>1, FS_RemoveElement
    <3> QED
      BY <1>1, <2>2, <3>2 DEF StoreFull
  <2> QED
    BY <2>1, <2>2
<1>4. IsFiniteSet(K \cup {k}) /\ Cardinality(K \cup {k}) <= Cardinality(K) + 1
  <2>1. /\ IsFiniteSet(K \cup {k})
        /\ Cardinality(K \cup {k}) = IF k \in K THEN Cardinality(K) ELSE Cardinality(K) + 1
    BY <1>3, FS_AddElement
  <2> QED
    BY <1>3, <2>1
<1>5. Cardinality(K \cup {k}) \in Nat
  BY <1>4, FS_CardinalityType
<1> QED
  BY <1>2, <1>3, <1>4, <1>5

LEMMA MemoBegins == MemoInit => MemoInv
<1> SUFFICES ASSUME MemoInit PROVE MemoInv
  OBVIOUS
<1>1. memo = EmptyStore /\ DOMAIN memo = {}
  BY DEF MemoInit, EmptyStore
<1>2. IsFiniteSet(DOMAIN memo) /\ Cardinality(DOMAIN memo) = 0
  BY <1>1, FS_EmptySet
<1>3. NoCall \in MemoCall
  BY DEF NoCall, MemoCall
<1>4. memoNow = 0 /\ call = [c \in MemoCallers |-> NoCall]
  BY DEF MemoInit
<1> QED
  BY <1>1, <1>2, <1>3, <1>4 DEF MemoInv, MemoTypeOK, MemoAgeBounded, NoCall

LEMMA MemoStep == MemoInv /\ [MemoNext]_memoVars => MemoInv'
<1> SUFFICES ASSUME MemoInv, [MemoNext]_memoVars PROVE MemoInv'
  OBVIOUS
<1>0. /\ memoNow \in 0..MaxMemoTime /\ memoNow \in Nat
      /\ DOMAIN memo \subseteq MemoKeys
      /\ \A k \in DOMAIN memo : memo[k] \in [at : 0..memoNow, value : 0..memoNow]
      /\ call \in [MemoCallers -> MemoCall]
      /\ Cardinality(DOMAIN memo) <= MEMO_SIZE
      /\ IsFiniteSet(DOMAIN memo)
  BY DEF MemoInv, MemoTypeOK
<1>1. CASE MemoTick
  <2>1. /\ memoNow' = memoNow + 1 /\ memoNow' \in 0..MaxMemoTime
        /\ UNCHANGED <<memo, call>>
    BY <1>0, <1>1 DEF MemoTick
  <2>2. \A k \in DOMAIN memo : memo[k] \in [at : 0..memoNow', value : 0..memoNow']
    BY <1>0, <2>1
  <2>3. \A c \in MemoCallers : call[c].began \in Nat /\ call[c].value \in Nat
    BY <1>0 DEF MemoCall
  <2> QED
    BY <1>0, <2>1, <2>2, <2>3 DEF MemoInv, MemoTypeOK, MemoAgeBounded
<1>2. CASE ClearAll
  <2>1. memo' = EmptyStore /\ DOMAIN memo' = {} /\ UNCHANGED <<memoNow, call>>
    BY <1>2 DEF ClearAll, EmptyStore
  <2>2. IsFiniteSet(DOMAIN memo') /\ Cardinality(DOMAIN memo') = 0
    BY <2>1, FS_EmptySet
  <2> QED
    BY <1>0, <2>1, <2>2 DEF MemoInv, MemoTypeOK, MemoAgeBounded
<1>3. ASSUME NEW c \in MemoCallers,
             MemoEnter(c) \/ MemoLookup(c) \/ MemoRead(c) \/ MemoPut(c) \/ MemoReturn(c)
      PROVE  MemoInv'
  <2>0. call[c] \in MemoCall /\ call[c].key \in MemoKeys \cup {Unmemoised}
        /\ call[c].began \in Nat /\ call[c].value \in Nat
    BY <1>0 DEF MemoCall
  <2> DEFINE new == call'[c]
  <2>1. /\ new \in MemoCall
        /\ call' = [call EXCEPT ![c] = new]
        /\ new.pc # "idle" => new.key \in MemoKeys
        /\ new.began <= memoNow
        /\ new.pc = "put" => new.began <= new.value /\ new.value <= memoNow
        /\ new.pc = "got" => new.began - new.value < MEMO_TTL
    <3>1. CASE MemoEnter(c)
      <4>1. PICK k \in MemoKeys : call' = [call EXCEPT ![c] =
                [pc |-> "lookup", key |-> k, began |-> memoNow, value |-> 0]]
        BY <3>1 DEF MemoEnter
      <4> QED
        BY <1>0, <4>1 DEF MemoCall
    <3>2. CASE MemoLookup(c)
      <4>1. call[c].pc = "lookup" /\ call[c].key \in MemoKeys /\ call[c].began <= memoNow
        BY <3>2 DEF MemoLookup, MemoInv
      <4>2. CASE MemoHit(call[c].key, call[c].began)
        <5>1. call' = [call EXCEPT ![c].pc = "got", ![c].value = memo[call[c].key].value]
          BY <3>2, <4>2 DEF MemoLookup
        <5>2. /\ call[c].key \in DOMAIN memo
              /\ call[c].began - memo[call[c].key].at < MEMO_TTL
              /\ memo[call[c].key] \in [at : 0..memoNow, value : 0..memoNow]
              /\ memo[call[c].key].at <= memo[call[c].key].value
          BY <1>0, <4>2 DEF MemoHit, MemoInv
        <5>3. new = [call[c] EXCEPT !.pc = "got", !.value = memo[call[c].key].value]
          BY <1>0, <5>1
        <5>4. /\ memo[call[c].key].value \in Nat /\ memo[call[c].key].at \in Nat
              /\ memo[call[c].key].value <= memoNow
          BY <1>0, <5>2
        <5>5. new \in MemoCall
          BY <2>0, <5>3, <5>4 DEF MemoCall
        <5>6. call' = [call EXCEPT ![c] = new]
          BY <1>0, <5>1, <5>3
        <5>7. /\ new.pc = "got" /\ new.key = call[c].key /\ new.began = call[c].began
              /\ new.value = memo[call[c].key].value
          BY <2>0, <5>3 DEF MemoCall
        <5> HIDE DEF new
        <5>8. call[c].began - memo[call[c].key].value < MEMO_TTL
          BY <2>0, <5>2, <5>4
        <5> QED
          BY <4>1, <5>5, <5>6, <5>7, <5>8
      <4>3. CASE ~MemoHit(call[c].key, call[c].began)
        <5>1. call' = [call EXCEPT ![c].pc = "read"]
          BY <3>2, <4>3 DEF MemoLookup
        <5> QED
          BY <1>0, <2>0, <4>1, <5>1 DEF MemoCall
      <4> QED
        BY <4>2, <4>3
    <3>3. CASE MemoRead(c)
      <4>1. call[c].pc = "read" /\ call[c].key \in MemoKeys /\ call[c].began <= memoNow
        BY <3>3 DEF MemoRead, MemoInv
      <4>2. call' = [call EXCEPT ![c].pc = "put", ![c].value = memoNow]
        BY <3>3 DEF MemoRead
      <4>3. new = [call[c] EXCEPT !.pc = "put", !.value = memoNow]
        BY <1>0, <4>2
      <4>4. new \in MemoCall
        BY <1>0, <2>0, <4>3 DEF MemoCall
      <4>5. /\ call' = [call EXCEPT ![c] = new]
            /\ new.pc = "put" /\ new.key = call[c].key /\ new.began = call[c].began
            /\ new.value = memoNow
        BY <1>0, <2>0, <4>2, <4>3 DEF MemoCall
      <4> HIDE DEF new
      <4> QED
        BY <1>0, <4>1, <4>4, <4>5
    <3>4. CASE MemoPut(c)
      <4>1. /\ call[c].pc = "put" /\ call[c].key \in MemoKeys /\ call[c].began <= memoNow
            /\ call[c].began <= call[c].value
        BY <3>4 DEF MemoPut, MemoInv
      <4>2. call' = [call EXCEPT ![c].pc = "got"]
        BY <3>4 DEF MemoPut
      <4> QED
        BY <1>0, <2>0, <4>1, <4>2 DEF MemoCall
    <3>5. CASE MemoReturn(c)
      <4>1. call' = [call EXCEPT ![c] = NoCall]
        BY <3>5 DEF MemoReturn
      <4> QED
        BY <1>0, <4>1 DEF MemoCall, NoCall
    <3> QED
      BY <1>3, <3>1, <3>2, <3>3, <3>4, <3>5
  <2> HIDE DEF new
  <2>2. /\ memoNow' = memoNow
        /\ IsFiniteSet(DOMAIN memo')
        /\ Cardinality(DOMAIN memo') <= MEMO_SIZE
        /\ DOMAIN memo' \subseteq MemoKeys
        /\ \A k \in DOMAIN memo' : memo'[k] \in [at : 0..memoNow, value : 0..memoNow]
        /\ \A k \in DOMAIN memo' : memo'[k].at <= memo'[k].value
    <3>1. CASE UNCHANGED <<memoNow, memo>>
      BY <1>0, <3>1 DEF MemoInv
    <3>2. CASE MemoPut(c)
      <4>1. /\ call[c].pc = "put" /\ call[c].key \in MemoKeys /\ call[c].began <= memoNow
            /\ call[c].began <= call[c].value /\ call[c].value <= memoNow
        BY <3>2 DEF MemoPut, MemoInv
      <4> DEFINE k0 == call[c].key
                 e0 == [at |-> call[c].began, value |-> call[c].value]
      <4>2. PICK K \in Kept(StoreFull) :
              memo' = [k \in K \cup {k0} |-> IF k = k0 THEN e0 ELSE memo[k]]
        BY <3>2 DEF MemoPut
      <4>3. e0 \in [at : 0..memoNow, value : 0..memoNow] /\ e0.at <= e0.value
        BY <1>0, <2>0, <4>1
      <4> HIDE DEF k0, e0
      <4>4. /\ K \subseteq DOMAIN memo /\ K \cup {k0} \subseteq MemoKeys
            /\ IsFiniteSet(K \cup {k0}) /\ Cardinality(K \cup {k0}) <= MEMO_SIZE
        BY <1>0, <4>1, RoomForOne DEF k0
      <4>5. DOMAIN memo' = K \cup {k0}
        BY <4>2
      <4>6. \A k \in DOMAIN memo' : memo'[k] = e0 \/ (k \in DOMAIN memo /\ memo'[k] = memo[k])
        BY <4>2, <4>4
      <4>7. \A k \in DOMAIN memo' : memo'[k] \in [at : 0..memoNow, value : 0..memoNow]
        BY <1>0, <4>3, <4>6
      <4>8. \A k \in DOMAIN memo' : memo'[k].at <= memo'[k].value
        BY <4>3, <4>6 DEF MemoInv
      <4>9. memoNow' = memoNow
        BY <3>2 DEF MemoPut
      <4> QED
        BY <4>4, <4>5, <4>7, <4>8, <4>9
    <3> QED
      BY <1>3, <3>1, <3>2 DEF MemoEnter, MemoLookup, MemoRead, MemoReturn
  <2>3. call' \in [MemoCallers -> MemoCall]
        /\ \A d \in MemoCallers : call'[d] = IF d = c THEN new ELSE call[d]
    BY <1>0, <2>1
  <2>4. MemoTypeOK'
    BY <1>0, <2>2, <2>3 DEF MemoTypeOK
  <2>5. /\ \A d \in MemoCallers : call'[d].pc # "idle" => call'[d].key \in MemoKeys
        /\ \A d \in MemoCallers : call'[d].began <= memoNow
        /\ \A d \in MemoCallers :
              call'[d].pc = "put" => call'[d].began <= call'[d].value /\ call'[d].value <= memoNow
        /\ \A d \in MemoCallers :
              call'[d].pc = "got" => call'[d].began - call'[d].value < MEMO_TTL
    BY <2>1, <2>3 DEF MemoInv, MemoAgeBounded
  <2> QED
    BY <2>2, <2>4, <2>5 DEF MemoInv, MemoAgeBounded
<1>4. CASE UNCHANGED memoVars
  BY <1>4 DEF MemoInv, MemoTypeOK, MemoAgeBounded, memoVars
<1> QED
  BY <1>1, <1>2, <1>3, <1>4 DEF MemoNext

(* The memo is sound for any callers, keys and sizes: its entries stay     *)
(* within maxsize, and no call is answered with what had left its lifetime *)
(* before the call began, however the reads outside the lock overtake each *)
(* other (ttl_cache).                                                      *)
THEOREM MemoIsSound == MemoSpec => []MemoSound
<1>1. MemoInv => MemoSound
  BY DEF MemoInv, MemoSound
<1> QED
  BY <1>1, MemoBegins, MemoStep, PTL DEF MemoSpec

(***************************************************************************)
(* The state of the platform, for any requests and thresholds.              *)
(*                                                                         *)
(* The argument: the resolution a request has read may be old, but the age  *)
(* of its observation is taken when the state is told, and a state is as    *)
(* bad as its worst signal.                                                *)
(***************************************************************************)

(* The worst severity is among them, and none of them is worse.            *)
LEMMA WorstOf ==
    ASSUME NEW S \in SUBSET Severity, S # {}
    PROVE  Worst(S) \in S /\ \A t \in S : Rank[t] <= Rank[Worst(S)]
<1>1. \A s \in Severity : Rank[s] \in Nat
  BY DEF Severity, Rank
<1>2. \E s \in S : \A t \in S : Rank[t] <= Rank[s]
  <2>1. CASE "CRITICAL" \in S
    BY <2>1 DEF Severity, Rank
  <2>2. CASE "CRITICAL" \notin S /\ "DISRUPTION" \in S
    BY <2>2 DEF Severity, Rank
  <2>3. CASE "CRITICAL" \notin S /\ "DISRUPTION" \notin S /\ "WATCH" \in S
    BY <2>3 DEF Severity, Rank
  <2>4. CASE "CRITICAL" \notin S /\ "DISRUPTION" \notin S /\ "WATCH" \notin S
    <3>1. PICK s \in S : TRUE
      OBVIOUS
    <3>2. \A t \in S : t = "NONE"
      BY <2>4 DEF Severity
    <3> QED
      BY <3>1, <3>2 DEF Rank
  <2> QED
    BY <2>1, <2>2, <2>3, <2>4
<1> QED
  BY <1>2 DEF Worst

(* A state is NORMAL only if every signal in it is NONE.                   *)
LEMMA NormalIsAllNone ==
    ASSUME NEW S \in SUBSET Severity, StateFrom(S) = "NORMAL"
    PROVE  \A t \in S : t = "NONE"
<1>1. S # {} /\ Worst(S) = "NONE"
  <2>1. S # {}
    BY DEF StateFrom
  <2>2. Worst(S) # "NONE" => StateFrom(S) = Worst(S)
    BY <2>1 DEF StateFrom
  <2>3. Worst(S) \in Severity
    BY <2>1, WorstOf
  <2> QED
    BY <2>1, <2>2, <2>3 DEF Severity
<1>2. \A t \in S : Rank[t] <= Rank["NONE"]
  BY <1>1, WorstOf
<1> QED
  BY <1>2 DEF Severity, Rank

Modes == {"LIVE", "BENCHMARK", "UNKNOWN"}
Fields == {"pc", "began", "found", "clock", "state"}

(* A request has told a state only at its end, and a resolution has one of *)
(* the three modes.                                                        *)
ClockInv ==
    /\ clockCache.mode \in Modes
    /\ DOMAIN asking = ClockRequests
    /\ \A r \in ClockRequests : DOMAIN asking[r] = Fields
    /\ \A r \in ClockRequests : asking[r].clock.mode \in Modes
    /\ \A r \in ClockRequests : asking[r].pc # "told" => asking[r].state = "none"
    /\ NormalPlatformIsRecent

LEMMA ClockBegins == ClockInit => ClockInv
<1> SUFFICES ASSUME ClockInit PROVE ClockInv
  OBVIOUS
<1>1. clockCache = Unresolved /\ asking = [r \in ClockRequests |-> NoAsking]
  BY DEF ClockInit
<1>2. /\ Unresolved.mode \in Modes
      /\ NoAsking.clock = Unresolved /\ NoAsking.pc = "idle" /\ NoAsking.state = "none"
      /\ DOMAIN NoAsking = Fields
  BY DEF Unresolved, NoAsking, Modes, Fields
<1> QED
  BY <1>1, <1>2 DEF ClockInv, NormalPlatformIsRecent

(* A platform is called NORMAL when its freshness was not evaluated or the *)
(* newest observation is recent at that moment.                            *)
LEMMA NormalSignals ==
    ASSUME NEW clock, clock.mode \in Modes, NEW missing \in SUBSET Tasks,
           StateFrom(FreshnessSignal(clock) \cup {ModelSignal(missing)}) = "NORMAL"
    PROVE  clock.mode = "UNKNOWN" \/ wall - clock.epoch \in 0..RECENT - 1
<1>1. /\ FreshnessSignal(clock) \in SUBSET Severity
      /\ clock.mode = "BENCHMARK" => FreshnessSignal(clock) = {"WATCH"}
      /\ clock.mode = "LIVE" => FreshnessSignal(clock) = {SeverityOfAge(wall - clock.epoch)}
  BY DEF FreshnessSignal, Modes, SeverityOfAge, Severity
<1>2. ModelSignal(missing) \in Severity
  BY DEF ModelSignal, Severity
<1>3. \A t \in FreshnessSignal(clock) : t = "NONE"
  BY <1>1, <1>2, NormalIsAllNone
<1>4. CASE clock.mode = "LIVE"
  <2>1. SeverityOfAge(wall - clock.epoch) = "NONE"
    BY <1>1, <1>3, <1>4
  <2> QED
    BY <2>1 DEF SeverityOfAge
<1> QED
  BY <1>1, <1>3, <1>4 DEF Modes

LEMMA ClockStep == ClockInv /\ [ClockNext]_clockVars => ClockInv'
<1> SUFFICES ASSUME ClockInv, [ClockNext]_clockVars PROVE ClockInv'
  OBVIOUS
<1>1. CASE UNCHANGED <<clockCache, asking>>
  BY <1>1 DEF ClockInv, NormalPlatformIsRecent
<1>2. ASSUME NEW r \in ClockRequests, NEW new, asking' = [asking EXCEPT ![r] = new],
             clockCache'.mode \in Modes, new.clock.mode \in Modes,
             DOMAIN new = Fields,
             new.pc # "told" => new.state = "none",
             new.state = "NORMAL" =>
                new.clock.mode = "UNKNOWN" \/ new.began - new.clock.epoch \in 0..RECENT - 1
      PROVE  ClockInv'
  <2>1. \A s \in ClockRequests : asking'[s] = IF s = r THEN new ELSE asking[s]
    BY <1>2 DEF ClockInv
  <2>2. DOMAIN asking' = ClockRequests
    BY <1>2 DEF ClockInv
  <2> QED
    BY <1>2, <2>1, <2>2 DEF ClockInv, NormalPlatformIsRecent
<1>3. ASSUME NEW r \in ClockRequests PROVE
        /\ DOMAIN asking[r] = Fields
        /\ asking[r].clock.mode \in Modes
        /\ DOMAIN asking = ClockRequests
  BY DEF ClockInv
<1>4. ASSUME NEW r \in ClockRequests, ResolveCached(r) PROVE ClockInv'
  <2> DEFINE new == [asking[r] EXCEPT !.pc = "signals", !.clock = clockCache]
  <2>1. asking' = [asking EXCEPT ![r] = new] /\ UNCHANGED clockCache /\ asking[r].state = "none"
    BY <1>4 DEF ResolveCached, ClockInv
  <2>2. /\ new.pc = "signals" /\ new.clock = clockCache /\ new.state = asking[r].state
        /\ DOMAIN new = Fields
    BY <1>3 DEF Fields
  <2> HIDE DEF new
  <2> QED
    BY <1>2, <2>1, <2>2 DEF ClockInv
<1>5. ASSUME NEW r \in ClockRequests, ResolveBegin(r) PROVE ClockInv'
  <2> DEFINE new == [asking[r] EXCEPT !.pc = "telemetry", !.began = wall]
  <2>1. asking' = [asking EXCEPT ![r] = new] /\ UNCHANGED clockCache /\ asking[r].state = "none"
    BY <1>5 DEF ResolveBegin, ClockInv
  <2>2. /\ new.pc = "telemetry" /\ new.clock = asking[r].clock /\ new.state = asking[r].state
        /\ DOMAIN new = Fields
    BY <1>3 DEF Fields
  <2> HIDE DEF new
  <2> QED
    BY <1>2, <1>3, <2>1, <2>2 DEF ClockInv
<1>6. ASSUME NEW r \in ClockRequests, NEW s \in Sources, NewestOf(r, s) PROVE ClockInv'
  <2>1. PICK found : asking' = [asking EXCEPT ![r].pc = After[s], ![r].found = found]
    BY <1>6 DEF NewestOf
  <2> DEFINE new == [asking[r] EXCEPT !.pc = After[s], !.found = found]
  <2>2. asking' = [asking EXCEPT ![r] = new] /\ UNCHANGED clockCache /\ asking[r].state = "none"
    BY <1>6, <2>1 DEF NewestOf, ClockInv, Sources
  <2>3. /\ new.clock = asking[r].clock /\ new.state = asking[r].state
        /\ DOMAIN new = Fields
    BY <1>3 DEF Fields
  <2> HIDE DEF new
  <2> QED
    BY <1>2, <1>3, <2>2, <2>3 DEF ClockInv
<1>7. ASSUME NEW r \in ClockRequests, ResolveStore(r) PROVE ClockInv'
  <2> DEFINE new == [NoAsking EXCEPT !.pc = "signals", !.clock = clockCache']
  <2>1. asking' = [asking EXCEPT ![r] = new]
    BY <1>7 DEF ResolveStore
  <2>2. /\ new.pc = "signals" /\ new.clock = clockCache' /\ new.state = "none"
        /\ DOMAIN new = Fields
    BY DEF NoAsking, Fields
  <2>3. clockCache'.mode \in Modes
    BY <1>7 DEF ResolveStore, Resolved, Modes
  <2> HIDE DEF new
  <2> QED
    BY <1>2, <2>1, <2>2, <2>3
<1>8. ASSUME NEW r \in ClockRequests, PlatformState(r) PROVE ClockInv'
  <2>1. PICK missing \in SUBSET Tasks :
          asking' = [asking EXCEPT ![r].pc = "told", ![r].began = wall,
            ![r].state = StateFrom(FreshnessSignal(asking[r].clock) \cup {ModelSignal(missing)})]
    BY <1>8 DEF PlatformState
  <2> DEFINE state == StateFrom(FreshnessSignal(asking[r].clock) \cup {ModelSignal(missing)})
             new == [asking[r] EXCEPT !.pc = "told", !.began = wall, !.state = state]
  <2>2. asking' = [asking EXCEPT ![r] = new] /\ UNCHANGED clockCache
    BY <1>8, <2>1 DEF PlatformState
  <2>3. state = "NORMAL" =>
          \/ asking[r].clock.mode = "UNKNOWN"
          \/ wall - asking[r].clock.epoch \in 0..RECENT - 1
    BY <1>3, NormalSignals
  <2> HIDE DEF state
  <2>4. /\ new.pc = "told" /\ new.clock = asking[r].clock /\ new.state = state /\ new.began = wall
        /\ DOMAIN new = Fields
    BY <1>3 DEF Fields
  <2> HIDE DEF new
  <2> QED
    BY <1>2, <1>3, <2>2, <2>3, <2>4 DEF ClockInv
<1>9. ASSUME NEW r \in ClockRequests, ToldState(r) PROVE ClockInv'
  <2>1. asking' = [asking EXCEPT ![r] = NoAsking] /\ UNCHANGED clockCache
    BY <1>9 DEF ToldState
  <2>2. /\ NoAsking.clock.mode \in Modes /\ NoAsking.pc = "idle" /\ NoAsking.state = "none"
        /\ DOMAIN NoAsking = Fields
    BY DEF NoAsking, Unresolved, Modes, Fields
  <2> QED
    BY <1>2, <2>1, <2>2 DEF ClockInv
<1>10. CASE UNCHANGED clockVars
  BY <1>1, <1>10 DEF clockVars
<1>11. CASE ClockTick \/ Observe
  BY <1>1, <1>11 DEF ClockTick, Observe
<1> QED
  BY <1>4, <1>5, <1>6, <1>7, <1>8, <1>9, <1>10, <1>11 DEF ClockNext

(* A platform that calls itself NORMAL has a recent observation, for any   *)
(* requests, thresholds and order of the queries, although the resolution  *)
(* it relies on may come from the cache (platform_state).                  *)
THEOREM NormalIsRecent == ClockSpec => []NormalPlatformIsRecent
<1>1. ClockInv => NormalPlatformIsRecent
  BY DEF ClockInv
<1> QED
  BY <1>1, ClockBegins, ClockStep, PTL DEF ClockSpec

(***************************************************************************)
(* The micro-cache of a process on its own, for any keys and sizes.         *)
(*                                                                         *)
(* The argument: the store is in the order of use.  So when the first of    *)
(* max_entries + 1 entries is evicted, max_entries other keys have been     *)
(* used since its own; and an entry has the monotonic deadline it was       *)
(* written with, so that the wall clock can only shorten its life.          *)
(***************************************************************************)

USE TtlAssumption, MaxEntriesAssumption

L1Entries ==
    {e \in [key : L1Keys, value : L1Keys, created : Int, expires : Int, stale : Int, mono : Nat] :
        e.created <= e.expires /\ e.expires <= e.stale}

(* An entry nearer to the recent end was used after those before it.       *)
InOrderOfUse(entries, used) ==
    \A i, j \in DOMAIN entries : i < j => entries[j].key \in used[entries[i].key]

(* The store is in the order of use, each entry has the deadline of the    *)
(* moment it was written, and fewer keys than there is room for were used  *)
(* after a key only if it is stored.                                       *)
L1Inv ==
    /\ mono \in 0..MaxTime /\ epoch \in 0..MaxTime
    /\ store \in Seq(L1Entries) /\ Len(store) <= MaxEntries
    /\ KeysDistinct(store)
    /\ written \in [L1Keys -> Nat]
    /\ \A i \in DOMAIN store : store[i].mono = written[store[i].key] + L1Ttl
    /\ since \in [L1Keys -> SUBSET L1Keys]
    /\ \A k \in L1Keys : k \notin since[k] => IsFiniteSet(since[k])
    /\ InOrderOfUse(store, since)
    /\ RecentlyUsedKept
    /\ FreshDespiteClockSteps

(* A store has as many keys as entries.                                    *)
LEMMA KeysCounted ==
    ASSUME NEW E, NEW entries \in Seq(E), KeysDistinct(entries)
    PROVE  LET keys == {entries[i].key : i \in DOMAIN entries}
           IN  IsFiniteSet(keys) /\ Cardinality(keys) = Len(entries)
<1> DEFINE keys == {entries[i].key : i \in DOMAIN entries}
           f == [i \in 1..Len(entries) |-> entries[i].key]
<1>1. Len(entries) \in Nat /\ DOMAIN entries = 1..Len(entries)
  OBVIOUS
<1>2. f \in Surjection(1..Len(entries), keys) /\ f \in Injection(1..Len(entries), keys)
  BY <1>1 DEF KeysDistinct, Surjection, Injection, IsInjective
<1>3. IsFiniteSet(1..Len(entries)) /\ Cardinality(1..Len(entries)) = Len(entries)
  BY <1>1, FS_Interval
<1> HIDE DEF f, keys
<1>4. IsFiniteSet(keys) /\ Cardinality(keys) = Cardinality(1..Len(entries))
  BY <1>2, <1>3, FS_Surjection
<1> QED
  BY <1>3, <1>4 DEF keys

(* Using a key keeps the order of a store in which it moved to the end.    *)
LEMMA UseKeepsOrder ==
    ASSUME NEW entries \in Seq(L1Entries), NEW after \in Seq(L1Entries), NEW e \in L1Entries,
           NEW used \in [L1Keys -> SUBSET L1Keys], InOrderOfUse(entries, used),
           MovedLast(after, entries, e)
    PROVE  InOrderOfUse(after, [j \in L1Keys |-> IF j = e.key THEN {} ELSE used[j] \cup {e.key}])
<1> DEFINE used2 == [j \in L1Keys |-> IF j = e.key THEN {} ELSE used[j] \cup {e.key}]
           last == Len(after)
<1>1. /\ last \in Nat \ {0} /\ after[last] = e
      /\ \A n \in 1..last - 1 : after[n].key # e.key
      /\ \A m, n \in 1..last - 1 : m < n =>
            \E i, j \in DOMAIN entries : i < j /\ after[m] = entries[i] /\ after[n] = entries[j]
  BY DEF MovedLast
<1>2. \A n \in DOMAIN after : after[n].key \in L1Keys
  BY DEF L1Entries
<1>3. SUFFICES ASSUME NEW m \in DOMAIN after, NEW n \in DOMAIN after, m < n
               PROVE  after[n].key \in used2[after[m].key]
  BY DEF InOrderOfUse
<1>4. m \in 1..last - 1 /\ (n = last \/ n \in 1..last - 1)
  BY <1>1, <1>3
<1>5. used2[after[m].key] = used[after[m].key] \cup {e.key}
  BY <1>1, <1>2, <1>4
<1> HIDE DEF used2
<1>6. CASE n = last
  BY <1>1, <1>5, <1>6
<1>7. CASE n \in 1..last - 1
  <2>1. PICK i \in DOMAIN entries, j \in DOMAIN entries :
              i < j /\ after[m] = entries[i] /\ after[n] = entries[j]
    BY <1>1, <1>3, <1>4, <1>7
  <2>2. entries[j].key \in used[entries[i].key]
    BY <2>1 DEF InOrderOfUse
  <2> QED
    BY <1>5, <2>1, <2>2
<1> QED
  BY <1>4, <1>6, <1>7

LEMMA L1Begins == L1Init => L1Inv
<1> SUFFICES ASSUME L1Init PROVE L1Inv
  OBVIOUS
<1>1. store = <<>> /\ since = [k \in L1Keys |-> L1Keys] /\ mono = 0 /\ epoch = 0
      /\ written = [k \in L1Keys |-> 0] /\ reply.outcome = "none"
  BY DEF L1Init, Gone, NoReply
<1>2. store \in Seq(L1Entries) /\ Len(store) = 0 /\ DOMAIN store = {}
  BY <1>1
<1> QED
  BY <1>1, <1>2 DEF L1Inv, KeysDistinct, InOrderOfUse, RecentlyUsedKept, FreshDespiteClockSteps

(* A key moves to the recent end: by a hit or by a set.                    *)
LEMMA UseStep ==
    ASSUME L1Inv, NEW e \in L1Entries, NEW grown \in Seq(L1Entries), KeysDistinct(grown),
           MovedLast(grown, store, e), Use(e.key)
    PROVE  /\ since' \in [L1Keys -> SUBSET L1Keys]
           /\ \A k \in L1Keys : k \notin since'[k] => IsFiniteSet(since'[k])
           /\ InOrderOfUse(grown, since')
           /\ \A k \in L1Keys :
                 k \notin since'[k] /\ Cardinality(since'[k]) < MaxEntries => Holds(grown, k)
<1>0. e.key \in L1Keys
  BY DEF L1Entries
<1>1. since' = [j \in L1Keys |-> IF j = e.key THEN {} ELSE since[j] \cup {e.key}]
  BY DEF Use
<1>2. since \in [L1Keys -> SUBSET L1Keys] /\ InOrderOfUse(store, since) /\ store \in Seq(L1Entries)
  BY DEF L1Inv
<1>3. InOrderOfUse(grown, since')
  BY <1>1, <1>2, UseKeepsOrder
<1>4. ASSUME NEW k \in L1Keys, k \notin since'[k]
      PROVE  /\ IsFiniteSet(since'[k])
             /\ Cardinality(since'[k]) < MaxEntries => Holds(grown, k)
  <2>1. CASE k = e.key
    <3>1. since'[k] = {}
      BY <1>1, <2>1
    <3>2. Holds(grown, k)
      BY <2>1 DEF MovedLast, Holds
    <3> QED
      BY <3>1, <3>2, FS_EmptySet
  <2>2. CASE k # e.key
    <3>1. since'[k] = since[k] \cup {e.key} /\ k \notin since[k]
      BY <1>1, <1>4, <2>2
    <3>2. IsFiniteSet(since[k])
      BY <3>1 DEF L1Inv
    <3>3. /\ IsFiniteSet(since[k] \cup {e.key})
          /\ Cardinality(since[k] \cup {e.key}) =
                IF e.key \in since[k] THEN Cardinality(since[k]) ELSE Cardinality(since[k]) + 1
          /\ Cardinality(since[k]) \in Nat
      BY <3>2, FS_AddElement, FS_CardinalityType
    <3>4. ASSUME Cardinality(since'[k]) < MaxEntries PROVE Holds(grown, k)
      <4>1. Cardinality(since[k]) < MaxEntries
        BY <3>1, <3>3, <3>4
      <4>2. Holds(store, k)
        BY <3>1, <4>1 DEF L1Inv, RecentlyUsedKept
      <4>3. PICK i \in DOMAIN store : store[i].key = k
        BY <4>2 DEF Holds
      <4>4. PICK n \in 1..Len(grown) - 1 : grown[n] = store[i]
        BY <2>2, <4>3 DEF MovedLast
      <4>5. n \in DOMAIN grown
        BY <4>4
      <4> QED
        BY <4>3, <4>4, <4>5 DEF Holds
    <3> QED
      BY <3>1, <3>3, <3>4
  <2> QED
    BY <2>1, <2>2
<1>5. since' \in [L1Keys -> SUBSET L1Keys]
  BY <1>0, <1>1, <1>2
<1> QED
  BY <1>3, <1>4, <1>5

(* What the eviction of the least recently used entry leaves.              *)
LEMMA EvictStep ==
    ASSUME NEW grown \in Seq(L1Entries), KeysDistinct(grown), Len(grown) = MaxEntries + 1,
           NEW used \in [L1Keys -> SUBSET L1Keys], InOrderOfUse(grown, used),
           \A k \in L1Keys : k \notin used[k] => IsFiniteSet(used[k]),
           \A k \in L1Keys :
              k \notin used[k] /\ Cardinality(used[k]) < MaxEntries => Holds(grown, k)
    PROVE  LET after == Tail(grown)
           IN  /\ after \in Seq(L1Entries) /\ KeysDistinct(after) /\ Len(after) = MaxEntries
               /\ InOrderOfUse(after, used)
               /\ \A n \in DOMAIN after : \E m \in DOMAIN grown : after[n] = grown[m]
               /\ \A k \in L1Keys :
                     k \notin used[k] /\ Cardinality(used[k]) < MaxEntries => Holds(after, k)
<1> DEFINE after == Tail(grown)
           keys == {after[n].key : n \in DOMAIN after}
<1>1. /\ after \in Seq(L1Entries) /\ Len(after) = MaxEntries
      /\ DOMAIN after = 1..MaxEntries /\ DOMAIN grown = 1..MaxEntries + 1
      /\ \A n \in DOMAIN after : n \in Nat /\ n + 1 \in DOMAIN grown /\ after[n] = grown[n + 1]
  OBVIOUS
<1> HIDE DEF after
<1>2. KeysDistinct(after)
  <2> SUFFICES ASSUME NEW m \in DOMAIN after, NEW n \in DOMAIN after,
                      after[m].key = after[n].key
               PROVE  m = n
    BY DEF KeysDistinct
  <2>1. /\ m \in Nat /\ m + 1 \in DOMAIN grown /\ after[m] = grown[m + 1]
        /\ n \in Nat /\ n + 1 \in DOMAIN grown /\ after[n] = grown[n + 1]
    BY <1>1
  <2>2. m + 1 = n + 1
    BY <2>1 DEF KeysDistinct
  <2> QED
    BY <2>1, <2>2
<1>3. InOrderOfUse(after, used)
  <2> SUFFICES ASSUME NEW m \in DOMAIN after, NEW n \in DOMAIN after, m < n
               PROVE  after[n].key \in used[after[m].key]
    BY DEF InOrderOfUse
  <2>1. /\ m \in Nat /\ m + 1 \in DOMAIN grown /\ after[m] = grown[m + 1]
        /\ n \in Nat /\ n + 1 \in DOMAIN grown /\ after[n] = grown[n + 1]
        /\ m + 1 < n + 1
    BY <1>1
  <2> QED
    BY <2>1 DEF InOrderOfUse
<1>4. ASSUME NEW k \in L1Keys, k \notin used[k], Cardinality(used[k]) < MaxEntries
      PROVE  Holds(after, k)
  <2>1. PICK i \in DOMAIN grown : grown[i].key = k
    BY <1>4 DEF Holds
  <2>2. IsFiniteSet(used[k])
    BY <1>4
  <2>3. CASE i = 1
    <3>1. keys \subseteq used[k]
      <4> SUFFICES ASSUME NEW n \in DOMAIN after PROVE after[n].key \in used[k]
        OBVIOUS
      <4>1. n + 1 \in DOMAIN grown /\ after[n] = grown[n + 1] /\ 1 < n + 1
        BY <1>1
      <4> QED
        BY <2>1, <2>3, <4>1 DEF InOrderOfUse
    <3>2. IsFiniteSet(keys) /\ Cardinality(keys) = Len(after)
      BY <1>1, <1>2, KeysCounted
    <3>3. Cardinality(keys) <= Cardinality(used[k])
      BY <2>2, <3>1, FS_Subset
    <3>4. Cardinality(used[k]) \in Nat
      BY <2>2, FS_CardinalityType
    <3> QED
      BY <1>1, <1>4, <3>2, <3>3, <3>4
  <2>4. CASE i # 1
    <3>1. i - 1 \in DOMAIN after /\ (i - 1) + 1 = i
      BY <1>1, <2>4
    <3>2. after[i - 1] = grown[i]
      BY <1>1, <3>1
    <3> QED
      BY <2>1, <3>1, <3>2 DEF Holds
  <2> QED
    BY <2>3, <2>4
<1>5. \A n \in DOMAIN after : \E m \in DOMAIN grown : after[n] = grown[m]
  BY <1>1
<1> QED
  BY <1>1, <1>2, <1>3, <1>4, <1>5 DEF after
(* What a lookup that finds nothing, or a deletion, does.                  *)
LEMMA ForgetStep ==
    ASSUME L1Inv, NEW pattern \in SUBSET L1Keys, store' = AfterDelete(store, pattern),
           since' = [k \in L1Keys |-> IF k \in pattern THEN L1Keys ELSE since[k]]
    PROVE  /\ store' \in Seq(L1Entries) /\ Len(store') <= MaxEntries /\ KeysDistinct(store')
           /\ \A n \in DOMAIN store' : \E i \in DOMAIN store : store'[n] = store[i]
           /\ since' \in [L1Keys -> SUBSET L1Keys]
           /\ \A k \in L1Keys : k \notin since'[k] => IsFiniteSet(since'[k])
           /\ InOrderOfUse(store', since')
           /\ \A k \in L1Keys :
                 k \notin since'[k] /\ Cardinality(since'[k]) < MaxEntries => Holds(store', k)
<1>1. /\ store \in Seq(L1Entries) /\ Len(store) <= MaxEntries /\ KeysDistinct(store)
      /\ since \in [L1Keys -> SUBSET L1Keys] /\ InOrderOfUse(store, since)
      /\ \A k \in L1Keys : k \notin since[k] => IsFiniteSet(since[k])
  BY DEF L1Inv
<1> DEFINE rest == AfterDelete(store, pattern)
<1> HIDE DEF rest
<1>2. /\ rest \in Seq(L1Entries) /\ KeysDistinct(rest) /\ Len(rest) <= Len(store)
      /\ \A n \in DOMAIN rest :
            rest[n].key \notin pattern /\ \E i \in DOMAIN store : rest[n] = store[i]
  BY <1>1, DeleteKeeps DEF rest
<1>3. PICK origin : Remains(rest, store, pattern, origin)
  BY <1>1, DeleteFacts DEF rest
<1>4. store' = rest
  BY DEF rest
<1>5. Len(rest) \in Nat /\ Len(store) \in Nat
  BY <1>1, <1>2
<1>6. \A n \in DOMAIN rest : rest[n].key \in L1Keys
  BY <1>2 DEF L1Entries
<1>7. \A k \in L1Keys : since'[k] = IF k \in pattern THEN L1Keys ELSE since[k]
  OBVIOUS
<1>8. InOrderOfUse(rest, since')
  <2> SUFFICES ASSUME NEW m \in DOMAIN rest, NEW n \in DOMAIN rest, m < n
               PROVE  rest[n].key \in since'[rest[m].key]
    BY DEF InOrderOfUse
  <2>1. /\ origin[m] \in DOMAIN store /\ origin[n] \in DOMAIN store /\ origin[m] < origin[n]
        /\ rest[m] = store[origin[m]] /\ rest[n] = store[origin[n]] /\ rest[m].key \notin pattern
    BY <1>3 DEF Remains
  <2>2. rest[n].key \in since[rest[m].key]
    BY <1>1, <2>1 DEF InOrderOfUse
  <2> QED
    BY <1>6, <1>7, <2>1, <2>2
<1>9. ASSUME NEW k \in L1Keys, k \notin since'[k]
      PROVE  /\ IsFiniteSet(since'[k])
             /\ Cardinality(since'[k]) < MaxEntries => Holds(rest, k)
  <2>1. k \notin pattern /\ since'[k] = since[k] /\ k \notin since[k]
    BY <1>7, <1>9
  <2>2. ASSUME Cardinality(since[k]) < MaxEntries PROVE Holds(rest, k)
    <3>1. PICK i \in DOMAIN store : store[i].key = k
      BY <2>1, <2>2 DEF L1Inv, RecentlyUsedKept, Holds
    <3>2. PICK n \in DOMAIN rest : origin[n] = i
      BY <1>3, <2>1, <3>1 DEF Remains
    <3>3. rest[n].key = k
      BY <1>3, <3>1, <3>2 DEF Remains
    <3> QED
      BY <3>3 DEF Holds
  <2> QED
    BY <1>1, <2>1, <2>2
<1>10. since' \in [L1Keys -> SUBSET L1Keys]
  BY <1>1
<1> QED
  BY <1>1, <1>2, <1>4, <1>5, <1>8, <1>9, <1>10

LEMMA GetStep ==
    ASSUME L1Inv, NEW k \in L1Keys, NEW allow_stale \in BOOLEAN, GetDetailed(k, allow_stale)
    PROVE  L1Inv'
<1> DEFINE outcome == Outcome(store, k, allow_stale, mono, epoch)
<1>0. /\ store \in Seq(L1Entries) /\ Len(store) <= MaxEntries /\ KeysDistinct(store)
      /\ Len(store) \in Nat
  BY DEF L1Inv
<1>1. /\ UNCHANGED <<mono, epoch, written>>
      /\ store' = AfterGet(store, k, allow_stale, mono, epoch)
      /\ reply' = [outcome |-> outcome, age |-> mono - written[k]]
      /\ IF outcome = "miss" THEN since' = [since EXCEPT ![k] = Gone] ELSE Use(k)
  BY DEF GetDetailed
<1>2. /\ store' \in Seq(L1Entries) /\ Len(store') <= MaxEntries /\ KeysDistinct(store')
      /\ \A n \in DOMAIN store' : \E i \in DOMAIN store : store'[n] = store[i]
      /\ since' \in [L1Keys -> SUBSET L1Keys]
      /\ \A j \in L1Keys : j \notin since'[j] => IsFiniteSet(since'[j])
      /\ InOrderOfUse(store', since')
      /\ \A j \in L1Keys :
            j \notin since'[j] /\ Cardinality(since'[j]) < MaxEntries => Holds(store', j)
  <2>1. CASE outcome = "miss"
    <3>1. store' = AfterDelete(store, {k})
      BY <1>1, <2>1 DEF AfterGet, Without
    <3>2. since' = [j \in L1Keys |-> IF j \in {k} THEN L1Keys ELSE since[j]]
      BY <1>1, <2>1 DEF Gone, L1Inv
    <3> QED
      BY <3>1, <3>2, ForgetStep
  <2>2. CASE outcome # "miss"
    <3> DEFINE e == EntryOf(store, k)
    <3>1. Holds(store, k)
      BY <2>2 DEF Outcome
    <3>2. e \in L1Entries /\ e.key = k
      BY <1>0, <3>1, EntryFacts
    <3>3. store' = Append(Without(store, e.key), e)
      BY <1>1, <2>2, <3>2 DEF AfterGet, MoveToEnd
    <3> HIDE DEF e
    <3>4. store' \in Seq(L1Entries) /\ KeysDistinct(store') /\ MovedLast(store', store, e)
      BY <1>0, <3>2, <3>3, AppendFacts
    <3>5. Len(store') <= Len(store)
      BY <3>1, <3>2, <3>4 DEF MovedLast
    <3>6. Len(store') <= MaxEntries
      BY <1>0, <3>4, <3>5
    <3>7. \A n \in DOMAIN store' : \E i \in DOMAIN store : store'[n] = store[i]
      <4>1. \A n \in DOMAIN store' : n = Len(store') \/ n \in 1..Len(store') - 1
        BY <3>4
      <4>2. \E i \in DOMAIN store : e = store[i]
        BY <1>0, <3>1, EntryFacts DEF e
      <4> QED
        BY <3>4, <4>1, <4>2 DEF MovedLast
    <3>8. Use(e.key)
      BY <1>1, <2>2, <3>2
    <3> QED
      BY <3>2, <3>4, <3>6, <3>7, <3>8, UseStep
  <2> QED
    BY <2>1, <2>2
<1>3. \A n \in DOMAIN store' : store'[n].mono = written'[store'[n].key] + L1Ttl
  BY <1>1, <1>2 DEF L1Inv
<1>4. FreshDespiteClockSteps'
  <2> SUFFICES ASSUME outcome = "fresh" PROVE mono - written[k] < L1Ttl
    BY <1>1 DEF FreshDespiteClockSteps
  <2>1. Holds(store, k) /\ Fresh(EntryOf(store, k), mono, epoch)
    BY DEF Outcome
  <2>2. PICK i \in DOMAIN store : EntryOf(store, k) = store[i] /\ store[i].key = k
    BY <1>0, <2>1, EntryFacts
  <2>3. mono < written[k] + L1Ttl /\ mono \in Nat /\ written[k] \in Nat
    BY <2>1, <2>2 DEF Fresh, L1Inv
  <2> QED
    BY <2>3
<1> QED
  BY <1>1, <1>2, <1>3, <1>4 DEF L1Inv, RecentlyUsedKept

LEMMA SetStep ==
    ASSUME L1Inv, NEW k \in L1Keys, NEW created \in 0..epoch, Set(k, created)
    PROVE  L1Inv'
<1> DEFINE expires == created + Ttl
           e == L1Entry(k, k, created, expires, expires + StaleWindow, mono + L1Ttl)
           grown == Append(Without(store, e.key), e)
<1>0. /\ store \in Seq(L1Entries) /\ Len(store) <= MaxEntries /\ KeysDistinct(store)
      /\ Len(store) \in Nat /\ mono \in Nat /\ created \in Nat
  BY DEF L1Inv
<1>1. /\ UNCHANGED <<mono, epoch>> /\ store' = AfterSet(store, e)
      /\ written' = [written EXCEPT ![k] = mono] /\ Use(k) /\ reply' = NoReply
  BY DEF Set
<1>2. e \in L1Entries /\ e.key = k /\ e.mono = mono + L1Ttl
  BY <1>0 DEF L1Entry, L1Entries
<1>3. store' = IF Len(grown) > MaxEntries THEN Tail(grown) ELSE grown
  BY <1>1 DEF AfterSet
<1> HIDE DEF e
<1>4. grown \in Seq(L1Entries) /\ KeysDistinct(grown) /\ MovedLast(grown, store, e)
  BY <1>0, <1>2, AppendFacts
<1> HIDE DEF grown
<1>5. /\ since' \in [L1Keys -> SUBSET L1Keys]
      /\ \A j \in L1Keys : j \notin since'[j] => IsFiniteSet(since'[j])
      /\ InOrderOfUse(grown, since')
      /\ \A j \in L1Keys :
            j \notin since'[j] /\ Cardinality(since'[j]) < MaxEntries => Holds(grown, j)
  BY <1>1, <1>2, <1>4, UseStep
<1>6. /\ store' \in Seq(L1Entries) /\ Len(store') <= MaxEntries /\ KeysDistinct(store')
      /\ \A n \in DOMAIN store' : \E m \in DOMAIN grown : store'[n] = grown[m]
      /\ InOrderOfUse(store', since')
      /\ \A j \in L1Keys :
            j \notin since'[j] /\ Cardinality(since'[j]) < MaxEntries => Holds(store', j)
  <2>1. Len(grown) \in Nat /\ Len(grown) <= MaxEntries + 1
    BY <1>0, <1>4 DEF MovedLast
  <2>2. CASE Len(grown) > MaxEntries
    <3>1. Len(grown) = MaxEntries + 1 /\ store' = Tail(grown)
      BY <1>3, <2>1, <2>2
    <3> DEFINE used == since'
    <3>2. used \in [L1Keys -> SUBSET L1Keys]
      BY <1>5
    <3>3. \A j \in L1Keys : j \notin used[j] => IsFiniteSet(used[j])
      BY <1>5
    <3>4. InOrderOfUse(grown, used)
      BY <1>5
    <3>5. \A j \in L1Keys :
              j \notin used[j] /\ Cardinality(used[j]) < MaxEntries => Holds(grown, j)
      BY <1>5
    <3>6. used = since'
      OBVIOUS
    <3> HIDE DEF used
    <3>7. /\ Tail(grown) \in Seq(L1Entries) /\ KeysDistinct(Tail(grown))
          /\ Len(Tail(grown)) = MaxEntries /\ InOrderOfUse(Tail(grown), used)
          /\ \A n \in DOMAIN Tail(grown) : \E m \in DOMAIN grown : Tail(grown)[n] = grown[m]
          /\ \A j \in L1Keys :
                j \notin used[j] /\ Cardinality(used[j]) < MaxEntries => Holds(Tail(grown), j)
      BY <1>4, <3>1, <3>2, <3>3, <3>4, <3>5, EvictStep
    <3> QED
      BY <3>1, <3>6, <3>7
  <2>3. CASE ~(Len(grown) > MaxEntries)
    <3>1. store' = grown /\ Len(grown) <= MaxEntries
      BY <1>3, <2>1, <2>3
    <3> QED
      BY <1>4, <1>5, <3>1
  <2> QED
    BY <2>2, <2>3
<1>7. \A n \in DOMAIN store' : store'[n].mono = written'[store'[n].key] + L1Ttl
  <2>1. \A m \in DOMAIN grown : m = Len(grown) \/ m \in 1..Len(grown) - 1
    BY <1>4
  <2>2. ASSUME NEW m \in DOMAIN grown PROVE grown[m].mono = written'[grown[m].key] + L1Ttl
    <3>0. written \in [L1Keys -> Nat]
      BY DEF L1Inv
    <3>1. CASE m = Len(grown)
      BY <1>1, <1>2, <1>4, <3>0, <3>1 DEF MovedLast
    <3>2. CASE m \in 1..Len(grown) - 1
      <4>1. PICK i \in DOMAIN store : grown[m] = store[i] /\ grown[m].key # k
        BY <1>2, <1>4, <3>2 DEF MovedLast
      <4>2. store[i].mono = written[store[i].key] + L1Ttl
        BY DEF L1Inv
      <4>3. store[i] \in L1Entries
        BY <1>0
      <4>4. store[i].key \in L1Keys
        BY <4>3 DEF L1Entries
      <4> QED
        BY <1>1, <3>0, <4>1, <4>2, <4>4
    <3> QED
      BY <2>1, <3>1, <3>2
  <2> QED
    BY <1>6, <2>2
<1>8. written' \in [L1Keys -> Nat]
  BY <1>0, <1>1 DEF L1Inv
<1>9. FreshDespiteClockSteps'
  BY <1>1 DEF FreshDespiteClockSteps, NoReply
<1> QED
  BY <1>1, <1>5, <1>6, <1>7, <1>8, <1>9 DEF L1Inv, RecentlyUsedKept

LEMMA L1Step == L1Inv /\ [L1Next]_l1Vars => L1Inv'
<1> SUFFICES ASSUME L1Inv, [L1Next]_l1Vars PROVE L1Inv'
  OBVIOUS
<1>1. CASE \E k \in L1Keys, allow_stale \in BOOLEAN : GetDetailed(k, allow_stale)
  BY <1>1, GetStep
<1>2. CASE \E k \in L1Keys, created \in 0..epoch : Set(k, created)
  BY <1>2, SetStep
<1>3. ASSUME NEW pattern \in SUBSET L1Keys, Delete(pattern) PROVE L1Inv'
  <2>1. /\ store' = AfterDelete(store, pattern)
        /\ since' = [k \in L1Keys |-> IF k \in pattern THEN L1Keys ELSE since[k]]
        /\ reply' = NoReply /\ UNCHANGED <<mono, epoch, written>>
    BY <1>3 DEF Delete, Gone
  <2>2. /\ store' \in Seq(L1Entries) /\ Len(store') <= MaxEntries /\ KeysDistinct(store')
        /\ \A n \in DOMAIN store' : \E i \in DOMAIN store : store'[n] = store[i]
        /\ since' \in [L1Keys -> SUBSET L1Keys]
        /\ \A k \in L1Keys : k \notin since'[k] => IsFiniteSet(since'[k])
        /\ InOrderOfUse(store', since')
        /\ \A k \in L1Keys :
              k \notin since'[k] /\ Cardinality(since'[k]) < MaxEntries => Holds(store', k)
    BY <2>1, ForgetStep
  <2>3. \A n \in DOMAIN store' : store'[n].mono = written'[store'[n].key] + L1Ttl
    BY <2>1, <2>2 DEF L1Inv
  <2>4. FreshDespiteClockSteps'
    BY <2>1 DEF FreshDespiteClockSteps, NoReply
  <2> QED
    BY <2>1, <2>2, <2>3, <2>4 DEF L1Inv, RecentlyUsedKept
<1>4. CASE L1Tick \/ StepClock
  <2>1. /\ mono' \in 0..MaxTime /\ epoch' \in 0..MaxTime /\ UNCHANGED <<store, written, since>>
    BY <1>4 DEF L1Tick, StepClock, L1Inv
  <2>2. FreshDespiteClockSteps'
    BY <1>4 DEF L1Tick, StepClock, FreshDespiteClockSteps, NoReply
  <2> QED
    BY <2>1, <2>2 DEF L1Inv, RecentlyUsedKept, InOrderOfUse
<1>5. CASE UNCHANGED l1Vars
  BY <1>5 DEF l1Vars, L1Inv, RecentlyUsedKept, InOrderOfUse, FreshDespiteClockSteps
<1> QED
  BY <1>1, <1>2, <1>3, <1>4, <1>5 DEF L1Next

(* The layer of a process is sound for any keys, sizes and lifetimes: it   *)
(* keeps to max_entries, evicts the entry whose last use is longest ago,   *)
(* and no step of the wall clock makes an entry look fresh for longer than *)
(* its lifetime (L1Cache).                                                 *)
THEOREM L1IsSound == L1Spec => []L1Sound
<1>1. L1Inv => L1Sound
  <2> SUFFICES ASSUME L1Inv PROVE L1Sound
    OBVIOUS
  <2>1. /\ store \in Seq(L1Entries) /\ Len(store) <= MaxEntries /\ KeysDistinct(store)
        /\ mono \in 0..MaxTime /\ epoch \in 0..MaxTime
    BY DEF L1Inv
  <2>2. \A i \in DOMAIN store :
           /\ store[i].key \in L1Keys
           /\ store[i].created <= store[i].expires
           /\ store[i].expires <= store[i].stale
    BY <2>1 DEF L1Entries
  <2>3. Cardinality(StoredKeys) = Len(store)
    BY <2>1, KeysCounted DEF StoredKeys
  <2> QED
    BY <2>1, <2>2, <2>3 DEF L1Sound, L1TypeOK, L1Inv
<1> QED
  BY <1>1, L1Begins, L1Step, PTL DEF L1Spec

(***************************************************************************)
(* The security audit log and the responses, for any number of failures,    *)
(* torn lines and checkpoints.                                              *)
(*                                                                         *)
(* The argument: a line that is cut off costs its own event and at most the *)
(* one that is written behind it, and the second only while the line is     *)
(* open, so that what a replay cannot find stays within two for each torn   *)
(* line, whether the log opens with the file or not; until the first of them the file says exactly what is in memory,   *)
(* and each step of a response finds its earlier events there.              *)
(***************************************************************************)

Events == [kind : {"failed", "quarantined", "decided", "cut off"}, failure : Nat]
Logs == Events \ {CutOff}

(* The events that a replay of the lines finds.                            *)
Legible(lines) == {lines[i][1] : i \in {j \in DOMAIN lines : Readable(lines[j])}}

(* An event is lost when its own line was cut off or when it was written   *)
(* behind such a line; an open line has not taken its second one yet.      *)
LostSoFar == Cardinality(returned \ Legible(file)) + (IF open THEN 1 ELSE 0)

LogKept ==
    /\ memory \in Seq(Logs) /\ file \in Seq(Seq(Events)) /\ open \in BOOLEAN /\ torn \in Nat
    /\ returned \in SUBSET Logs /\ IsFiniteSet(returned)
    /\ \A i \in DOMAIN file : Len(file[i]) # 0
    /\ decodable \in BOOLEAN /\ opened \in BOOLEAN
    /\ open => Len(file) # 0 /\ file[Len(file)][Len(file[Len(file)])] = CutOff
    /\ opened => Legible(file) \subseteq Range(memory)
    /\ LostSoFar <= 2 * torn

(* As long as no line is cut off, the file says what is in memory.         *)
FileIsMemory ==
    torn = 0 =>
        /\ ~open /\ opened /\ decodable
        /\ Len(memory) = Len(file)
        /\ \A i \in DOMAIN file : Readable(file[i]) /\ memory[i] = file[i][1]

Handling ==
    [n : Nat, execution : AuditExecutions, status : Statuses, pc : {"record", "quarantine", "decide"}]

(* What the response at work has recorded so far.                          *)
Recorded ==
    /\ handling = <<>> \/ handling \in [1..1 -> Handling]
    /\ handling # <<>> => opened
    /\ torn = 0 /\ handling # <<>> /\ handling[1].pc = "quarantine" =>
          \E i \in DOMAIN memory : memory[i] = Event("failed", handling[1].n)
    /\ torn = 0 /\ handling # <<>> /\ handling[1].pc = "decide" =>
          \E i, j \in DOMAIN memory :
              /\ i < j
              /\ memory[i] = Event("failed", handling[1].n)
              /\ memory[j] = Event("quarantined", handling[1].n)

ResponseActions ==
    {"quarantine_and_rollback", "quarantine_manual_review", "rollback_to_trusted", "block_and_review"}

Response ==
    [n : Nat, execution : AuditExecutions, status : Statuses, checkpoint : Nat, action : ResponseActions]

Answers ==
    /\ checkpoints \in Seq(NewCheckpoints)
    /\ responses \in Seq(Response)
    /\ \A i \in DOMAIN responses :
          responses[i].action \in {"quarantine_and_rollback", "rollback_to_trusted"} =>
              responses[i].checkpoint \in DOMAIN checkpoints
    /\ RollbackIsTrusted

AuditInv == LogKept /\ FileIsMemory /\ Recorded /\ LogTellsTheWhole /\ failures \in Nat /\ Answers

(* Picking every position picks the sequence itself.                       *)
LEMMA PickedAll ==
    ASSUME NEW E, NEW s \in Seq(E)
    PROVE  Picked(s, DOMAIN s) = s
<1> DEFINE S == DOMAIN s
<1>1. S = 1..Len(s) /\ Len(s) \in Nat
  OBVIOUS
<1>2. Cardinality(S) = Len(s)
  <2> DEFINE m == Len(s)
  <2>1. m \in Nat
    BY <1>1
  <2> HIDE DEF m
  <2>2. Cardinality(1..m) = m
    BY <2>1, FS_Interval
  <2> QED
    BY <1>1, <2>2 DEF m
<1>3. ASSUME NEW i \in S PROVE Place(S, i) = i
  <2>1. {j \in S : j <= i} = 1..i
    BY <1>1
  <2>2. Cardinality(1..i) = i
    BY <1>1, FS_Interval
  <2> QED
    BY <2>1, <2>2 DEF Place
<1>4. ASSUME NEW n \in S PROVE (CHOOSE i \in S : Place(S, i) = n) = n
  BY <1>3
<1>5. Picked(s, S) = [n \in 1..Len(s) |-> s[CHOOSE i \in S : Place(S, i) = n]]
  BY <1>2 DEF Picked
<1>6. \A n \in 1..Len(s) : s[CHOOSE i \in S : Place(S, i) = n] = s[n]
  BY <1>1, <1>4
<1>7. [n \in 1..Len(s) |-> s[CHOOSE i \in S : Place(S, i) = n]] = [n \in 1..Len(s) |-> s[n]]
  BY <1>6, Zenon
<1>8. s = [n \in 1..Len(s) |-> s[n]]
  BY <1>1
<1> QED
  BY <1>5, <1>7, <1>8

(* A replay finds the legible events, and all in order when no line is bad.*)
LEMMA ReplayFacts ==
    ASSUME NEW lines \in Seq(Seq(Events))
    PROVE  /\ Replayed(lines) \in Seq(Logs)
           /\ Legible(lines) \subseteq Range(Replayed(lines))
           /\ (\A i \in DOMAIN lines : Readable(lines[i])) =>
                 /\ Len(Replayed(lines)) = Len(lines)
                 /\ \A i \in DOMAIN lines : Replayed(lines)[i] = lines[i][1]
<1> DEFINE S == {i \in DOMAIN lines : Readable(lines[i])}
           good == Picked(lines, S)
           replayed == Replayed(lines)
<1>1. good \in Seq(Seq(Events)) /\ \E origin : Follows(good, lines, S, origin)
  BY PickedFacts
<1>2. replayed = [i \in DOMAIN good |-> good[i][1]]
  BY DEF Replayed
<1>3. \A i \in DOMAIN lines : i \in S <=> Readable(lines[i])
  OBVIOUS
<1>4. \A i \in S : i \in DOMAIN lines
  OBVIOUS
<1>5. S = DOMAIN lines => good = lines
  BY PickedAll
<1>6. (\A i \in DOMAIN lines : Readable(lines[i])) => S = DOMAIN lines
  OBVIOUS
<1>7. Legible(lines) = {lines[i][1] : i \in S}
  BY DEF Legible
<1> HIDE DEF S, good, replayed
<1>8. PICK origin : Follows(good, lines, S, origin)
  BY <1>1
<1>9. \A n \in DOMAIN good : Readable(good[n]) /\ good[n] \in Seq(Events)
  BY <1>1, <1>3, <1>4, <1>8 DEF Follows
<1>10. \A n \in DOMAIN good : good[n][1] \in Logs
  BY <1>9 DEF Readable, Logs
<1>11. DOMAIN good = 1..Len(good) /\ Len(good) \in Nat
  BY <1>1
<1>12. replayed \in [1..Len(good) -> Logs]
  BY <1>2, <1>10, <1>11
<1>13. replayed \in Seq(Logs) /\ Len(replayed) = Len(good)
  <2> DEFINE m == Len(good)
  <2>1. m \in Nat /\ replayed \in [1..m -> Logs]
    BY <1>11, <1>12
  <2> HIDE DEF m
  <2>2. replayed \in Seq(Logs) /\ Len(replayed) = m
    BY <2>1
  <2> QED
    BY <2>2 DEF m
<1>14. ASSUME NEW i \in S PROVE lines[i][1] \in Range(replayed)
  <2>1. PICK n \in DOMAIN good : origin[n] = i
    BY <1>8 DEF Follows
  <2>2. replayed[n] = lines[i][1] /\ n \in DOMAIN replayed
    BY <1>2, <1>8, <2>1 DEF Follows
  <2> QED
    BY <2>2 DEF Range
<1>15. ASSUME S = DOMAIN lines
       PROVE  Len(replayed) = Len(lines) /\ \A i \in DOMAIN lines : replayed[i] = lines[i][1]
  BY <1>2, <1>5, <1>13, <1>15
<1> QED
  BY <1>6, <1>7, <1>13, <1>14, <1>15 DEF replayed

(* What a fragment written at the end of the file makes of it.             *)
LEMMA LineFacts ==
    ASSUME LogKept, NEW fragment \in Events
    PROVE  LET lines == WithLine(fragment)
           IN  /\ lines \in Seq(Seq(Events)) /\ Len(lines) # 0
               /\ \A i \in DOMAIN lines : Len(lines[i]) # 0
               /\ lines[Len(lines)][Len(lines[Len(lines)])] = fragment
               /\ fragment = CutOff \/ open => Legible(lines) = Legible(file)
               /\ fragment # CutOff /\ ~open => Legible(lines) = Legible(file) \cup {fragment}
               /\ ~open => /\ Len(lines) = Len(file) + 1
                           /\ lines[Len(lines)] = <<fragment>>
                           /\ \A i \in DOMAIN file : lines[i] = file[i]
<1> DEFINE lines == WithLine(fragment)
<1>1. file \in Seq(Seq(Events)) /\ Len(file) \in Nat /\ \A i \in DOMAIN file : Len(file[i]) # 0
  BY DEF LogKept
<1>2. CASE ~open
  <2>1. lines = Append(file, <<fragment>>)
    BY <1>2 DEF WithLine
  <2>2. <<fragment>> \in Seq(Events)
    OBVIOUS
  <2>3. /\ lines \in Seq(Seq(Events)) /\ Len(lines) = Len(file) + 1
        /\ lines[Len(lines)] = <<fragment>>
        /\ \A i \in DOMAIN file : lines[i] = file[i]
        /\ \A i \in DOMAIN lines : i \in DOMAIN file \/ i = Len(lines)
        /\ \A i \in DOMAIN file : i \in DOMAIN lines
        /\ Len(lines) \in DOMAIN lines
    BY <1>1, <2>1, <2>2
  <2> HIDE DEF lines
  <2>4. Readable(<<fragment>>) <=> fragment # CutOff
    BY DEF Readable
  <2>5. fragment = CutOff => Legible(lines) = Legible(file)
    BY <2>3, <2>4 DEF Legible
  <2>6. fragment # CutOff => Legible(lines) = Legible(file) \cup {fragment}
    <3> SUFFICES ASSUME fragment # CutOff, NEW e
                 PROVE  e \in Legible(lines) <=> e \in Legible(file) \cup {fragment}
      OBVIOUS
    <3>1. ASSUME e \in Legible(lines) PROVE e \in Legible(file) \cup {fragment}
      <4>1. PICK i \in DOMAIN lines : Readable(lines[i]) /\ e = lines[i][1]
        BY <3>1 DEF Legible
      <4> QED
        BY <2>3, <4>1 DEF Legible
    <3>2. ASSUME e \in Legible(file) PROVE e \in Legible(lines)
      <4>1. PICK i \in DOMAIN file : Readable(file[i]) /\ e = file[i][1]
        BY <3>2 DEF Legible
      <4> QED
        BY <2>3, <4>1 DEF Legible
    <3>3. fragment \in Legible(lines)
      <4>1. Len(lines) \in {j \in DOMAIN lines : Readable(lines[j])} /\ lines[Len(lines)][1] = fragment
        BY <2>3, <2>4
      <4> QED
        BY <4>1 DEF Legible
    <3> QED
      BY <3>1, <3>2, <3>3
  <2>7. \A i \in DOMAIN lines : Len(lines[i]) # 0
    <3> SUFFICES ASSUME NEW i \in DOMAIN lines PROVE Len(lines[i]) # 0
      OBVIOUS
    <3>1. Len(<<fragment>>) = 1
      OBVIOUS
    <3>2. CASE i \in DOMAIN file
      <4>1. lines[i] = file[i] /\ Len(file[i]) # 0
        BY <1>1, <2>3, <3>2
      <4> QED
        BY <4>1
    <3>3. CASE i = Len(lines)
      <4>1. lines[i] = <<fragment>>
        BY <2>3, <3>3
      <4> QED
        BY <3>1, <4>1
    <3>4. i \in DOMAIN file \/ i = Len(lines)
      BY <2>3
    <3> QED
      BY <3>2, <3>3, <3>4
  <2>8. lines[Len(lines)][Len(lines[Len(lines)])] = fragment
    <3>1. Len(<<fragment>>) = 1 /\ <<fragment>>[1] = fragment
      OBVIOUS
    <3> QED
      BY <2>3, <3>1
  <2>9. Len(lines) # 0
    BY <1>1, <2>3
  <2> QED
    BY <1>2, <2>3, <2>5, <2>6, <2>7, <2>8, <2>9 DEF lines
<1>3. CASE open
  <2> DEFINE n == Len(file)
             line == Append(file[n], fragment)
  <2>1. n \in Nat \ {0} /\ n \in DOMAIN file /\ file[n] \in Seq(Events) /\ file[n][Len(file[n])] = CutOff
        /\ Len(file[n]) \in Nat \ {0}
    BY <1>1, <1>3 DEF LogKept
  <2>2. lines = Append(SubSeq(file, 1, n - 1), line)
    BY <1>3 DEF WithLine, Front, Last
  <2>3. /\ line \in Seq(Events) /\ Len(line) = Len(file[n]) + 1 /\ line[Len(line)] = fragment
    BY <2>1
  <2>4. ~Readable(line) /\ ~Readable(file[n])
    BY <2>1, <2>3 DEF Readable
  <2>a. Len(line) # 0
    BY <2>1, <2>3
  <2> HIDE DEF line
  <2>5. /\ SubSeq(file, 1, n - 1) \in Seq(Seq(Events)) /\ Len(SubSeq(file, 1, n - 1)) = n - 1
        /\ \A i \in 1..n - 1 : SubSeq(file, 1, n - 1)[i] = file[i]
    <3> DEFINE part == SubSeq(file, 1, n - 1)
    <3>1. n - 1 \in Int /\ \A i \in 1..n - 1 : file[i] \in Seq(Events)
      BY <1>1, <2>1
    <3>2. /\ part \in Seq(Seq(Events))
          /\ Len(part) = IF 1 <= n - 1 THEN (n - 1) - 1 + 1 ELSE 0
          /\ \A i \in 1..(n - 1) - 1 + 1 : part[i] = file[1 + i - 1]
      BY <3>1, SubSeqProperties
    <3> HIDE DEF part
    <3>3. Len(part) = n - 1
      <4>1. Len(part) = IF 1 <= n - 1 THEN (n - 1) - 1 + 1 ELSE 0
        BY <3>2
      <4>2. n \in Nat \ {0}
        BY <2>1
      <4> HIDE DEF n
      <4> QED
        BY <4>1, <4>2
    <3>4. ASSUME NEW i \in 1..n - 1 PROVE part[i] = file[i]
      <4>1. i \in 1..(n - 1) - 1 + 1 /\ 1 + i - 1 = i
        <5>1. n \in Nat
          BY <2>1
        <5> HIDE DEF n
        <5> QED
          BY <5>1
      <4>2. part[i] = file[1 + i - 1]
        BY <3>2, <4>1
      <4> QED
        BY <4>1, <4>2
    <3> QED
      BY <3>2, <3>3, <3>4 DEF part
  <2>6. /\ lines \in Seq(Seq(Events)) /\ Len(lines) = n
        /\ lines[n] = line
        /\ \A i \in 1..n - 1 : lines[i] = file[i]
    BY <2>1, <2>2, <2>3, <2>5
  <2>7. /\ DOMAIN lines = DOMAIN file
        /\ \A i \in DOMAIN file : i = n \/ i \in 1..n - 1
    BY <1>1, <2>1, <2>6
  <2> HIDE DEF lines, n
  <2>8. \A i \in DOMAIN file :
            (Readable(lines[i]) <=> Readable(file[i])) /\ (Readable(file[i]) => lines[i] = file[i])
    BY <2>4, <2>6, <2>7
  <2>9. Legible(lines) = Legible(file)
    BY <2>7, <2>8 DEF Legible
  <2>10. \A i \in DOMAIN lines : Len(lines[i]) # 0
    BY <1>1, <2>a, <2>6, <2>7
  <2>11. Len(lines) # 0 /\ lines[Len(lines)][Len(lines[Len(lines)])] = fragment
    BY <2>1, <2>3, <2>6
  <2> QED
    BY <1>3, <2>6, <2>9, <2>10, <2>11 DEF lines
<1> QED
  BY <1>2, <1>3

(* A set has at most one element more for the one that is added to it.     *)
LEMMA OneMore ==
    ASSUME NEW S, IsFiniteSet(S), NEW e
    PROVE  /\ IsFiniteSet(S \cup {e}) /\ Cardinality(S \cup {e}) \in Nat
           /\ Cardinality(S \cup {e}) <= Cardinality(S) + 1
<1>1. Cardinality(S) \in Nat
  BY FS_CardinalityType
<1>2. IsFiniteSet(S \cup {e})
  BY FS_AddElement
<1>3. Cardinality(S \cup {e}) \in Nat
  BY <1>2, FS_CardinalityType
<1>4. Cardinality(S \cup {e}) = IF e \in S THEN Cardinality(S) ELSE Cardinality(S) + 1
  BY FS_AddElement
<1> QED
  BY <1>1, <1>2, <1>3, <1>4

(* Recording an event, whether the write of it succeeds or is cut off.     *)
LEMMA LoggedFacts ==
    ASSUME LogKept, FileIsMemory, opened, NEW event \in Logs, NEW wide, Logged(event, wide)
    PROVE  LogKept' /\ FileIsMemory' /\ memory' = Append(memory, event)
           /\ (torn' = 0 => torn = 0) /\ opened'
<1>0. /\ memory \in Seq(Logs) /\ file \in Seq(Seq(Events)) /\ open \in BOOLEAN /\ torn \in Nat
      /\ returned \in SUBSET Logs /\ IsFiniteSet(returned) /\ decodable \in BOOLEAN
      /\ Legible(file) \subseteq Range(memory)
      /\ LostSoFar <= 2 * torn
  BY DEF LogKept
<1>1. memory' = Append(memory, event) /\ returned' = returned \cup {event} /\ opened' = opened
  BY DEF Logged
<1>a. opened'
  BY <1>1
<1>b. decodable' \in BOOLEAN
  BY <1>0 DEF Logged, CutLine
<1>2. event \in Events /\ event # CutOff /\ CutOff \in Events
  BY DEF Logs, Events, CutOff, Event
<1>3. memory' \in Seq(Logs) /\ returned' \in SUBSET Logs /\ IsFiniteSet(returned')
  <2>1. IsFiniteSet(returned \cup {event})
    BY <1>0, FS_AddElement
  <2>2. memory' \in Seq(Logs)
    BY <1>0, <1>1
  <2> QED
    BY <1>0, <1>1, <2>1, <2>2
<1>4. Range(memory') = Range(memory) \cup {event}
  <2>1. /\ DOMAIN memory' = DOMAIN memory \cup {Len(memory) + 1}
        /\ memory'[Len(memory) + 1] = event
        /\ \A i \in DOMAIN memory : memory'[i] = memory[i]
    BY <1>0, <1>1
  <2> QED
    BY <2>1 DEF Range
<1>5. ASSUME NEW lines, returned \ Legible(lines) \subseteq returned
      PROVE  IsFiniteSet(returned \ Legible(lines)) /\ Cardinality(returned \ Legible(lines)) \in Nat
  BY <1>0, FS_Subset, FS_CardinalityType
<1>6. /\ Cardinality(returned \ Legible(file)) \in Nat
      /\ IsFiniteSet(returned \ Legible(file))
  BY <1>5
<1>7. CASE file' = WithLine(event) /\ open' = FALSE /\ decodable' = decodable /\ torn' = torn
  <2> DEFINE lines == WithLine(event)
  <2>1. /\ lines \in Seq(Seq(Events)) /\ Len(lines) # 0
        /\ \A i \in DOMAIN lines : Len(lines[i]) # 0
        /\ open => Legible(lines) = Legible(file)
        /\ ~open => Legible(lines) = Legible(file) \cup {event}
        /\ ~open => /\ Len(lines) = Len(file) + 1
                    /\ lines[Len(lines)] = <<event>>
                    /\ \A i \in DOMAIN file : lines[i] = file[i]
    BY <1>2, LineFacts
  <2>2. file' = lines
    BY <1>7
  <2> HIDE DEF lines
  <2>3. Legible(lines) \subseteq Range(memory')
    BY <1>0, <1>4, <2>1
  <2>4. Cardinality(returned' \ Legible(lines)) <= 2 * torn
    <3>1. CASE open
      <4> DEFINE before == returned \ Legible(file)
                 after == returned' \ Legible(lines)
      <4>1. after \subseteq before \cup {event}
        BY <1>1, <2>1, <3>1
      <4>2. IsFiniteSet(before) /\ Cardinality(before) \in Nat /\ Cardinality(before) + 1 <= 2 * torn
        BY <1>0, <1>6, <3>1 DEF LostSoFar
      <4> HIDE DEF before, after
      <4>3. IsFiniteSet(before \cup {event}) /\ Cardinality(before \cup {event}) <= Cardinality(before) + 1
            /\ Cardinality(before \cup {event}) \in Nat
        BY <4>2, OneMore
      <4>4. Cardinality(after) <= Cardinality(before \cup {event}) /\ Cardinality(after) \in Nat
        BY <4>1, <4>3, FS_Subset, FS_CardinalityType
      <4>5. Cardinality(after) <= 2 * torn
        BY <1>0, <4>2, <4>3, <4>4
      <4> QED
        BY <4>5 DEF after
    <3>2. CASE ~open
      <4> DEFINE before == returned \ Legible(file)
                 after == returned' \ Legible(lines)
      <4>1. after \subseteq before
        BY <1>1, <2>1, <3>2
      <4>2. IsFiniteSet(before) /\ Cardinality(before) \in Nat /\ Cardinality(before) <= 2 * torn
        BY <1>0, <1>6, <3>2 DEF LostSoFar
      <4> HIDE DEF before, after
      <4>3. Cardinality(after) <= Cardinality(before) /\ Cardinality(after) \in Nat
        BY <4>1, <4>2, FS_Subset, FS_CardinalityType
      <4>4. Cardinality(after) <= 2 * torn
        BY <1>0, <4>2, <4>3
      <4> QED
        BY <4>4 DEF after
    <3> QED
      BY <1>0, <3>1, <3>2
  <2>5. Cardinality(returned' \ Legible(lines)) \in Nat
    <3>1. IsFiniteSet(returned' \ Legible(lines))
      BY <1>3, FS_Subset
    <3> QED
      BY <3>1, FS_CardinalityType
  <2>6. LostSoFar' <= 2 * torn'
    <3>1. LostSoFar' = Cardinality(returned' \ Legible(lines)) + (IF open' THEN 1 ELSE 0)
      BY <2>2 DEF LostSoFar, Legible
    <3>2. LostSoFar' = Cardinality(returned' \ Legible(lines)) + 0
      BY <1>7, <3>1
    <3> QED
      BY <1>0, <1>7, <2>4, <2>5, <3>2
  <2>7. LogKept'
    <3>1. (open => Len(file) # 0 /\ file[Len(file)][Len(file[Len(file)])] = CutOff)'
      BY <1>7
    <3>2. (\A i \in DOMAIN file : Len(file[i]) # 0)'
      BY <2>1, <2>2
    <3>3. Legible(file)' \subseteq Range(memory)'
      BY <2>2, <2>3 DEF Legible, Range
    <3>4. file' \in Seq(Seq(Events)) /\ open' \in BOOLEAN /\ torn' \in Nat
      BY <1>0, <1>7, <2>1, <2>2
    <3> QED
      BY <1>3, <1>a, <1>b, <2>6, <3>1, <3>2, <3>3, <3>4 DEF LogKept
  <2>8. FileIsMemory'
    <3> SUFFICES ASSUME torn' = 0
                 PROVE  /\ ~open' /\ opened' /\ decodable' /\ Len(memory') = Len(file')
                        /\ \A i \in DOMAIN file' : Readable(file'[i]) /\ memory'[i] = file'[i][1]
      BY DEF FileIsMemory, Readable
    <3>1. /\ ~open /\ decodable /\ Len(memory) = Len(file)
          /\ \A i \in DOMAIN file : Readable(file[i]) /\ memory[i] = file[i][1]
      BY <1>7 DEF FileIsMemory
    <3>2. Readable(<<event>>) /\ <<event>>[1] = event
      BY <1>2 DEF Readable
    <3>3. Len(memory') = Len(memory) + 1 /\ memory'[Len(memory) + 1] = event
          /\ \A i \in DOMAIN memory : memory'[i] = memory[i]
      BY <1>0, <1>1
    <3>4. Len(lines) = Len(file) + 1 /\ lines[Len(lines)] = <<event>>
          /\ \A i \in DOMAIN file : lines[i] = file[i]
      BY <2>1, <3>1
    <3>5. ASSUME NEW i \in DOMAIN lines
          PROVE  Readable(lines[i]) /\ memory'[i] = lines[i][1]
      <4>1. (i \in DOMAIN file /\ i \in DOMAIN memory) \/ i = Len(file) + 1
        BY <1>0, <2>1, <3>1, <3>4
      <4>2. CASE i \in DOMAIN file /\ i \in DOMAIN memory
        BY <3>1, <3>3, <3>4, <4>2
      <4>3. CASE i = Len(file) + 1
        <5>1. lines[i] = <<event>> /\ memory'[i] = event
          BY <3>1, <3>3, <3>4, <4>3
        <5> QED
          BY <3>2, <5>1
      <4> QED
        BY <4>1, <4>2, <4>3
    <3>6. Len(memory') = Len(lines)
      BY <3>1, <3>3, <3>4
    <3> QED
      BY <1>7, <1>a, <2>2, <3>1, <3>5, <3>6
  <2> QED
    BY <1>1, <1>7, <1>a, <2>7, <2>8
<1>8. CASE torn' = torn + 1 /\ file' = WithLine(CutOff) /\ open' = TRUE
  <2> DEFINE lines == WithLine(CutOff)
  <2>1. /\ lines \in Seq(Seq(Events)) /\ Len(lines) # 0
        /\ \A i \in DOMAIN lines : Len(lines[i]) # 0
        /\ lines[Len(lines)][Len(lines[Len(lines)])] = CutOff
        /\ Legible(lines) = Legible(file)
    BY <1>2, LineFacts
  <2>2. file' = lines
    BY <1>8
  <2> HIDE DEF lines
  <2>3. Cardinality(returned' \ Legible(lines)) <= 2 * torn + 1
        /\ Cardinality(returned' \ Legible(lines)) \in Nat
    <3> DEFINE before == returned \ Legible(file)
               after == returned' \ Legible(lines)
    <3>1. after \subseteq before \cup {event}
      BY <1>1, <2>1
    <3>2. IsFiniteSet(before) /\ Cardinality(before) \in Nat /\ Cardinality(before) <= 2 * torn
      BY <1>0, <1>6 DEF LostSoFar
    <3> HIDE DEF before, after
    <3>3. IsFiniteSet(before \cup {event}) /\ Cardinality(before \cup {event}) <= Cardinality(before) + 1
          /\ Cardinality(before \cup {event}) \in Nat
      BY <3>2, OneMore
    <3>4. Cardinality(after) <= Cardinality(before \cup {event}) /\ Cardinality(after) \in Nat
      BY <3>1, <3>3, FS_Subset, FS_CardinalityType
    <3>5. Cardinality(after) <= 2 * torn + 1
      BY <1>0, <3>2, <3>3, <3>4
    <3> QED
      BY <3>4, <3>5 DEF after
  <2>4. LostSoFar' <= 2 * torn'
    <3>1. LostSoFar' = Cardinality(returned' \ Legible(lines)) + (IF open' THEN 1 ELSE 0)
      BY <2>2 DEF LostSoFar, Legible
    <3>2. LostSoFar' = Cardinality(returned' \ Legible(lines)) + 1
      BY <1>8, <3>1
    <3> QED
      BY <1>0, <1>8, <2>3, <3>2
  <2>5. LogKept'
    <3>1. Legible(file)' \subseteq Range(memory)'
      BY <1>0, <1>4, <2>1, <2>2 DEF Legible, Range
    <3>2. (open => Len(file) # 0 /\ file[Len(file)][Len(file[Len(file)])] = CutOff)'
      BY <2>1, <2>2 DEF CutOff, Event
    <3>3. (\A i \in DOMAIN file : Len(file[i]) # 0)'
      BY <2>1, <2>2
    <3>4. file' \in Seq(Seq(Events)) /\ open' \in BOOLEAN /\ torn' \in Nat
      BY <1>0, <1>8, <2>1, <2>2
    <3> QED
      BY <1>3, <1>a, <1>b, <2>4, <3>1, <3>2, <3>3, <3>4 DEF LogKept
  <2>6. torn' # 0
    BY <1>0, <1>8
  <2> QED
    BY <1>1, <1>a, <2>5, <2>6 DEF FileIsMemory
<1>9. CASE torn' = torn + 1 /\ UNCHANGED <<file, open, decodable>>
  <2>1. Legible(file)' = Legible(file)
    BY <1>9 DEF Legible
  <2>2. LostSoFar' <= 2 * torn'
    <3> DEFINE before == returned \ Legible(file)
               after == returned' \ Legible(file)
               left == IF open THEN 1 ELSE 0
    <3>1. after \subseteq before \cup {event} /\ left \in Nat
      BY <1>1
    <3>2. LostSoFar' = Cardinality(after) + left
      BY <1>9, <2>1 DEF LostSoFar
    <3>3. IsFiniteSet(before) /\ Cardinality(before) \in Nat /\ Cardinality(before) + left <= 2 * torn
      BY <1>0, <1>6 DEF LostSoFar
    <3> HIDE DEF before, after, left
    <3>4. IsFiniteSet(before \cup {event}) /\ Cardinality(before \cup {event}) <= Cardinality(before) + 1
          /\ Cardinality(before \cup {event}) \in Nat
      BY <3>3, OneMore
    <3>5. Cardinality(after) <= Cardinality(before \cup {event}) /\ Cardinality(after) \in Nat
      BY <3>1, <3>4, FS_Subset, FS_CardinalityType
    <3> QED
      BY <1>0, <1>9, <3>1, <3>2, <3>3, <3>4, <3>5
  <2>3. LogKept'
    <3>1. Legible(file)' \subseteq Range(memory)'
      BY <1>0, <1>4, <2>1 DEF Range
    <3>2. (open => Len(file) # 0 /\ file[Len(file)][Len(file[Len(file)])] = CutOff)'
      BY <1>9 DEF LogKept, CutOff, Event
    <3>3. (\A i \in DOMAIN file : Len(file[i]) # 0)'
      BY <1>9 DEF LogKept
    <3>4. file' \in Seq(Seq(Events)) /\ open' \in BOOLEAN /\ torn' \in Nat
      BY <1>0, <1>9
    <3> QED
      BY <1>3, <1>a, <1>b, <2>2, <3>1, <3>2, <3>3, <3>4 DEF LogKept
  <2>4. torn' # 0
    BY <1>0, <1>9
  <2> QED
    BY <1>1, <1>a, <2>3, <2>4 DEF FileIsMemory
<1> QED
  BY <1>7, <1>8, <1>9 DEF Logged, CutLine

(* Reading the log back after a crash.                                     *)
LEMMA RestartFacts ==
    ASSUME LogKept, FileIsMemory, AuditRestart
    PROVE  LogKept' /\ FileIsMemory' /\ (torn' = 0 => torn = 0 /\ memory' = memory /\ opened')
<1>0. /\ memory \in Seq(Logs) /\ file \in Seq(Seq(Events)) /\ open \in BOOLEAN /\ torn \in Nat
      /\ returned \in SUBSET Logs /\ IsFiniteSet(returned) /\ decodable \in BOOLEAN
      /\ \A i \in DOMAIN file : Len(file[i]) # 0
      /\ LostSoFar <= 2 * torn
  BY DEF LogKept
<1>1. /\ memory' = IF decodable' THEN Replayed(file') ELSE <<>>
      /\ opened' = decodable' /\ returned' = returned
  BY DEF AuditRestart
<1>2. Cardinality(returned \ Legible(file)) \in Nat
  BY <1>0, FS_Subset, FS_CardinalityType
<1>3. ASSUME file' \in Seq(Seq(Events)), decodable' \in BOOLEAN
      PROVE  /\ memory' \in Seq(Logs) /\ opened' \in BOOLEAN
             /\ opened' => memory' = Replayed(file') /\ Legible(file') \subseteq Range(memory')
  <2>1. Replayed(file') \in Seq(Logs) /\ Legible(file') \subseteq Range(Replayed(file'))
    BY <1>3, ReplayFacts
  <2>2. CASE decodable'
    BY <1>1, <2>1, <2>2
  <2>3. CASE ~decodable'
    <3>1. memory' = <<>> /\ opened' = FALSE
      BY <1>1, <1>3, <2>3
    <3>2. memory' \in Seq(Logs)
      BY <3>1
    <3>3. opened' \in BOOLEAN /\ ~opened'
      BY <3>1, Zenon
    <3> QED
      BY <3>2, <3>3, Zenon
  <2> QED
    BY <2>2, <2>3
<1>4. CASE file' = file /\ open' = open /\ decodable' = decodable /\ torn' = torn
  <2>1. /\ memory' \in Seq(Logs) /\ opened' \in BOOLEAN
        /\ opened' => memory' = Replayed(file) /\ Legible(file) \subseteq Range(memory')
    BY <1>0, <1>3, <1>4
  <2>2. LostSoFar' = LostSoFar /\ (opened' => Legible(file)' \subseteq Range(memory)')
    BY <1>1, <1>4, <2>1 DEF Legible, Range, LostSoFar
  <2>3. LogKept'
    BY <1>0, <1>1, <1>4, <2>1, <2>2 DEF LogKept
  <2>4. ASSUME torn' = 0 PROVE memory' = memory /\ opened'
    <3>1. /\ decodable /\ Len(memory) = Len(file)
          /\ \A i \in DOMAIN file : Readable(file[i]) /\ memory[i] = file[i][1]
      BY <1>4, <2>4 DEF FileIsMemory
    <3>a. opened' /\ memory' = Replayed(file)
      BY <1>1, <1>4, <3>1
    <3>b. Len(memory') = Len(file) /\ \A i \in DOMAIN file : memory'[i] = file[i][1]
      BY <1>0, <3>1, <3>a, ReplayFacts
    <3>2. Len(memory') = Len(memory) /\ \A i \in DOMAIN file : memory'[i] = memory[i]
      BY <3>1, <3>b
    <3>3. DOMAIN file = DOMAIN memory /\ DOMAIN memory' = DOMAIN memory
      BY <1>0, <2>1, <3>1, <3>2
    <3>4. memory \in [DOMAIN memory -> Logs] /\ memory' \in [DOMAIN memory -> Logs]
          /\ \A i \in DOMAIN memory : memory'[i] = memory[i]
      <4>1. memory \in [DOMAIN memory -> Logs]
        BY <1>0
      <4>2. memory' \in [DOMAIN memory' -> Logs]
        BY <2>1
      <4> QED
        BY <3>2, <3>3, <4>1, <4>2
    <3> QED
      BY <3>4, <3>a
  <2>5. FileIsMemory'
    BY <1>4, <2>4 DEF FileIsMemory, Readable
  <2> QED
    BY <1>4, <2>3, <2>4, <2>5
<1>5. CASE /\ torn' = torn + 1 /\ file' = WithLine(CutOff) /\ open' = TRUE
           /\ decodable' \in BOOLEAN
  <2> DEFINE lines == WithLine(CutOff)
  <2>0. CutOff \in Events
    BY DEF CutOff, Event, Events
  <2>1. /\ lines \in Seq(Seq(Events)) /\ Len(lines) # 0
        /\ \A i \in DOMAIN lines : Len(lines[i]) # 0
        /\ lines[Len(lines)][Len(lines[Len(lines)])] = CutOff
        /\ Legible(lines) = Legible(file)
    BY <2>0, LineFacts
  <2>2. file' = lines
    BY <1>5
  <2> HIDE DEF lines
  <2>3. /\ memory' \in Seq(Logs) /\ opened' \in BOOLEAN
        /\ opened' => Legible(lines) \subseteq Range(memory')
    BY <1>3, <1>5, <2>1, <2>2
  <2>4. LostSoFar' <= 2 * torn'
    <3>1. LostSoFar' = Cardinality(returned \ Legible(file)) + (IF open' THEN 1 ELSE 0)
      BY <1>1, <2>1, <2>2 DEF LostSoFar, Legible
    <3>2. LostSoFar' = Cardinality(returned \ Legible(file)) + 1
      BY <1>5, <3>1
    <3>3. Cardinality(returned \ Legible(file)) <= 2 * torn
      BY <1>0, <1>2 DEF LostSoFar
    <3> QED
      BY <1>0, <1>2, <1>5, <3>2, <3>3
  <2>5. LogKept'
    <3>1. opened' => Legible(file)' \subseteq Range(memory)'
      BY <2>2, <2>3 DEF Legible, Range
    <3>2. (open => Len(file) # 0 /\ file[Len(file)][Len(file[Len(file)])] = CutOff)'
      BY <2>1, <2>2 DEF CutOff, Event
    <3>3. (\A i \in DOMAIN file : Len(file[i]) # 0)'
      BY <2>1, <2>2
    <3>4. file' \in Seq(Seq(Events)) /\ open' \in BOOLEAN /\ torn' \in Nat
      BY <1>0, <1>5, <2>1, <2>2
    <3> QED
      BY <1>0, <1>1, <1>5, <2>3, <2>4, <3>1, <3>2, <3>3, <3>4 DEF LogKept
  <2>6. torn' # 0
    BY <1>0, <1>5
  <2> QED
    BY <2>5, <2>6 DEF FileIsMemory
<1>6. CutLine(Wide(handling[1])) =>
        /\ torn' = torn + 1 /\ file' = WithLine(CutOff) /\ open' = TRUE
        /\ decodable' \in BOOLEAN
  BY <1>0 DEF CutLine
<1> QED
  BY <1>4, <1>5, <1>6 DEF AuditRestart

(* The order in the log is kept by one more event that is not a decision,  *)
(* and by a decision that has its quarantine before it.                    *)
LEMMA TellsTheWhole ==
    ASSUME LogKept, LogTellsTheWhole, NEW event \in Logs, memory' = Append(memory, event),
           torn' = 0 => torn = 0, opened',
           torn = 0 /\ event.kind = "decided" =>
               \E i, j \in DOMAIN memory :
                   /\ i < j
                   /\ memory[i] = Event("failed", event.failure)
                   /\ memory[j] = Event("quarantined", event.failure)
    PROVE  LogTellsTheWhole'
<1>0. memory \in Seq(Logs)
  BY DEF LogKept
<1>1. /\ DOMAIN memory = 1..Len(memory) /\ Len(memory) \in Nat
      /\ DOMAIN memory' = 1..Len(memory) + 1
      /\ memory'[Len(memory) + 1] = event
      /\ \A i \in DOMAIN memory : memory'[i] = memory[i]
  BY <1>0
<1> SUFFICES ASSUME torn' = 0, NEW k \in DOMAIN memory', memory'[k].kind = "decided"
             PROVE  \E i, j \in 1..k : /\ i < j /\ j < k
                                       /\ memory'[i] = Event("failed", memory'[k].failure)
                                       /\ memory'[j] = Event("quarantined", memory'[k].failure)
  BY DEF LogTellsTheWhole, Event
<1>2. CASE k \in DOMAIN memory
  <2>1. memory'[k] = memory[k]
    BY <1>1, <1>2
  <2>2. PICK i \in 1..k, j \in 1..k : /\ i < j /\ j < k
                                      /\ memory[i] = Event("failed", memory[k].failure)
                                      /\ memory[j] = Event("quarantined", memory[k].failure)
    BY <1>2, <2>1 DEF LogTellsTheWhole
  <2>3. i \in DOMAIN memory /\ j \in DOMAIN memory
    BY <1>1, <1>2
  <2> QED
    BY <1>1, <2>1, <2>2, <2>3
<1>3. CASE k = Len(memory) + 1
  <2>1. memory'[k] = event /\ event.kind = "decided"
    BY <1>1, <1>3
  <2>2. PICK i \in DOMAIN memory, j \in DOMAIN memory : /\ i < j
                                      /\ memory[i] = Event("failed", event.failure)
                                      /\ memory[j] = Event("quarantined", event.failure)
    BY <2>1
  <2>3. i \in 1..k /\ j \in 1..k /\ j < k
    BY <1>1, <1>3
  <2> QED
    BY <1>1, <2>1, <2>2, <2>3
<1> QED
  BY <1>1, <1>2, <1>3

(* The checkpoint that a rollback is given.                                *)
LEMMA TrustedFacts ==
    ASSUME checkpoints \in Seq(NewCheckpoints), NEW execution
    PROVE  LET trusted == TrustedCheckpoint(execution)
           IN  trusted # 0 =>
                  /\ trusted \in DOMAIN checkpoints
                  /\ checkpoints[trusted].status = "passed" /\ checkpoints[trusted].hashed
                  /\ checkpoints[trusted].execution # execution =>
                       \A k \in DOMAIN checkpoints : checkpoints[k].execution # execution
<1> DEFINE own == {i \in DOMAIN checkpoints : checkpoints[i].execution = execution}
           candidates == IF own = {} THEN DOMAIN checkpoints ELSE own
           trusted == {i \in candidates : Trusted(checkpoints[i])}
<1>1. Len(checkpoints) \in Nat /\ DOMAIN checkpoints = 1..Len(checkpoints)
  OBVIOUS
<1>2. TrustedCheckpoint(execution) = IF trusted = {} THEN 0 ELSE CHOOSE i \in trusted : \A j \in trusted : j <= i
  BY DEF TrustedCheckpoint
<1>3. candidates \subseteq DOMAIN checkpoints
  OBVIOUS
<1>4. trusted # {} => \E i \in trusted : \A j \in trusted : j <= i
  <2>1. trusted \subseteq 1..Len(checkpoints)
    BY <1>1, <1>3
  <2> HIDE DEF trusted
  <2> QED
    BY <1>1, <2>1, Extremes
<1>5. SUFFICES ASSUME trusted # {}
               PROVE  LET i == CHOOSE i \in trusted : \A j \in trusted : j <= i
                      IN  /\ i \in DOMAIN checkpoints
                          /\ checkpoints[i].status = "passed" /\ checkpoints[i].hashed
                          /\ checkpoints[i].execution # execution =>
                               \A k \in DOMAIN checkpoints : checkpoints[k].execution # execution
  BY <1>2
<1> DEFINE newest == CHOOSE i \in trusted : \A j \in trusted : j <= i
<1>6. newest \in trusted
  BY <1>4, <1>5
<1> HIDE DEF newest
<1>7. newest \in candidates /\ Trusted(checkpoints[newest])
  BY <1>6
<1>8. checkpoints[newest].execution # execution =>
         \A k \in DOMAIN checkpoints : checkpoints[k].execution # execution
  BY <1>7
<1> QED
  BY <1>3, <1>7, <1>8 DEF newest, Trusted

LEMMA SameLog ==
    ASSUME LogKept, FileIsMemory, LogTellsTheWhole, UNCHANGED <<memory, file, open, decodable, opened, torn, returned>>
    PROVE  LogKept' /\ FileIsMemory' /\ LogTellsTheWhole'
<1>1. Legible(file)' = Legible(file)
  BY DEF Legible
<1>2. LostSoFar' = LostSoFar
  BY <1>1 DEF LostSoFar
<1>3. LogKept'
  <2>1. /\ memory' \in Seq(Logs) /\ file' \in Seq(Seq(Events)) /\ open' \in BOOLEAN /\ torn' \in Nat
        /\ returned' \in SUBSET Logs /\ IsFiniteSet(returned')
          /\ decodable' \in BOOLEAN /\ opened' \in BOOLEAN
    BY DEF LogKept
  <2>2. (\A i \in DOMAIN file : Len(file[i]) # 0)'
    BY DEF LogKept
  <2>3. (open => Len(file) # 0 /\ file[Len(file)][Len(file[Len(file)])] = CutOff)'
    BY DEF LogKept
  <2>4. (opened' => Legible(file)' \subseteq Range(memory)') /\ LostSoFar' <= 2 * torn'
    BY <1>1, <1>2 DEF LogKept, Range
  <2> QED
    BY <2>1, <2>2, <2>3, <2>4 DEF LogKept
<1>4. FileIsMemory'
  BY DEF FileIsMemory, Readable
<1>5. LogTellsTheWhole'
  BY DEF LogTellsTheWhole
<1> QED
  BY <1>3, <1>4, <1>5

LEMMA NewCheckpoint ==
    ASSUME Answers, AddCheckpoint
    PROVE  Answers'
<1>0. /\ checkpoints \in Seq(NewCheckpoints) /\ responses \in Seq(Response) /\ responses' = responses
      /\ \A i \in DOMAIN responses :
            responses[i].action \in {"quarantine_and_rollback", "rollback_to_trusted"} =>
                responses[i].checkpoint \in DOMAIN checkpoints
      /\ RollbackIsTrusted
  BY DEF Answers, AddCheckpoint
<1>1. PICK added \in NewCheckpoints : checkpoints' = Append(checkpoints, added)
  BY DEF AddCheckpoint
<1>2. /\ checkpoints' \in Seq(NewCheckpoints)
      /\ DOMAIN checkpoints = 1..Len(checkpoints) /\ Len(checkpoints) \in Nat
      /\ DOMAIN checkpoints \subseteq DOMAIN checkpoints'
      /\ \A i \in DOMAIN checkpoints : checkpoints'[i] = checkpoints[i]
  BY <1>0, <1>1
<1>3. \A i \in DOMAIN checkpoints : 1..i \subseteq DOMAIN checkpoints
  BY <1>2
<1>4. RollbackIsTrusted'
  <2> SUFFICES ASSUME NEW i \in DOMAIN responses,
                      responses[i].action \in {"quarantine_and_rollback", "rollback_to_trusted"}
               PROVE  LET c == checkpoints'[responses[i].checkpoint]
                      IN /\ responses[i].status \in {"failed", "no_manifest"}
                         /\ c.status = "passed" /\ c.hashed
                         /\ c.execution # responses[i].execution =>
                              \A k \in 1 .. responses[i].checkpoint :
                                   checkpoints'[k].execution # responses[i].execution
    BY <1>0 DEF RollbackIsTrusted
  <2>1. responses[i].checkpoint \in DOMAIN checkpoints
    BY <1>0
  <2>2. checkpoints'[responses[i].checkpoint] = checkpoints[responses[i].checkpoint]
        /\ \A k \in 1..responses[i].checkpoint : checkpoints'[k] = checkpoints[k]
    BY <1>2, <1>3, <2>1
  <2> QED
    BY <1>0, <2>2 DEF RollbackIsTrusted
<1> QED
  BY <1>0, <1>2, <1>4 DEF Answers

LEMMA ResponseDecided ==
    ASSUME Answers, handling \in [1..1 -> Handling], Decide
    PROVE  Answers'
<1>0. /\ checkpoints \in Seq(NewCheckpoints) /\ responses \in Seq(Response) /\ checkpoints' = checkpoints
      /\ \A i \in DOMAIN responses :
            responses[i].action \in {"quarantine_and_rollback", "rollback_to_trusted"} =>
                responses[i].checkpoint \in DOMAIN checkpoints
      /\ RollbackIsTrusted
  BY DEF Answers, Decide
<1> DEFINE h == handling[1]
           trusted == TrustedCheckpoint(h.execution)
           new == [n |-> h.n, execution |-> h.execution, status |-> h.status,
                   checkpoint |-> trusted, action |-> ActionFor(h.status, trusted)]
<1>1. responses' = Append(responses, new)
  BY DEF Decide
<1>2. trusted # 0 =>
        /\ trusted \in DOMAIN checkpoints
        /\ checkpoints[trusted].status = "passed" /\ checkpoints[trusted].hashed
        /\ checkpoints[trusted].execution # h.execution =>
             \A k \in DOMAIN checkpoints : checkpoints[k].execution # h.execution
  BY <1>0, TrustedFacts
<1>3. h \in Handling
  OBVIOUS
<1>4. trusted \in Nat /\ DOMAIN checkpoints = 1..Len(checkpoints) /\ Len(checkpoints) \in Nat
  BY <1>0, <1>2
<1>5. ActionFor(h.status, trusted) \in ResponseActions
      /\ (ActionFor(h.status, trusted) \in {"quarantine_and_rollback", "rollback_to_trusted"} =>
             trusted # 0 /\ h.status \in {"failed", "no_manifest"})
  <2>1. h.status = "failed" \/ h.status = "no_manifest" \/ h.status = "artifact_missing"
    BY <1>3 DEF Handling, Statuses
  <2> HIDE DEF h, trusted
  <2>2. CASE h.status = "failed"
    BY <2>2 DEF ActionFor, ResponseActions
  <2>3. CASE h.status = "no_manifest"
    BY <2>3 DEF ActionFor, ResponseActions
  <2>4. CASE h.status = "artifact_missing"
    BY <2>4 DEF ActionFor, ResponseActions
  <2> QED
    BY <2>1, <2>2, <2>3, <2>4
<1> HIDE DEF trusted, h
<1>6. new \in Response
  BY <1>3, <1>4, <1>5 DEF Response, Handling
<1>7. /\ new.status = h.status /\ new.execution = h.execution /\ new.checkpoint = trusted
      /\ new.action = ActionFor(h.status, trusted)
  OBVIOUS
<1> HIDE DEF new
<1>8. /\ responses' \in Seq(Response)
      /\ \A i \in DOMAIN responses' :
            (i \in DOMAIN responses /\ responses'[i] = responses[i]) \/ responses'[i] = new
  BY <1>0, <1>1, <1>6
<1>9. ASSUME NEW i \in DOMAIN responses',
             responses'[i].action \in {"quarantine_and_rollback", "rollback_to_trusted"}
      PROVE  /\ responses'[i].checkpoint \in DOMAIN checkpoints
             /\ responses'[i].status \in {"failed", "no_manifest"}
             /\ LET c == checkpoints[responses'[i].checkpoint]
                IN /\ c.status = "passed" /\ c.hashed
                   /\ c.execution # responses'[i].execution =>
                        \A k \in 1 .. responses'[i].checkpoint :
                             checkpoints[k].execution # responses'[i].execution
  <2>1. CASE i \in DOMAIN responses /\ responses'[i] = responses[i]
    <3>1. responses[i].action \in {"quarantine_and_rollback", "rollback_to_trusted"}
      BY <1>9, <2>1
    <3> QED
      BY <1>0, <2>1, <3>1 DEF RollbackIsTrusted
  <2>2. CASE responses'[i] = new
    <3>1. trusted # 0 /\ h.status \in {"failed", "no_manifest"}
      BY <1>5, <1>7, <1>9, <2>2
    <3>2. 1..trusted \subseteq DOMAIN checkpoints
      BY <1>2, <1>4, <3>1
    <3> QED
      BY <1>2, <1>7, <2>2, <3>1, <3>2
  <2> QED
    BY <1>8, <2>1, <2>2
<1>10. RollbackIsTrusted'
  BY <1>0, <1>9 DEF RollbackIsTrusted
<1> QED
  BY <1>0, <1>8, <1>9, <1>10 DEF Answers

LEMMA AuditStep ==
    ASSUME AuditInv, [AuditNext]_auditVars
    PROVE  AuditInv'
<1>0. /\ LogKept /\ FileIsMemory /\ Recorded /\ LogTellsTheWhole /\ failures \in Nat /\ Answers
      /\ memory \in Seq(Logs)
  BY DEF AuditInv, LogKept
<1>1. CASE AuditRestart
  <2>1. LogKept' /\ FileIsMemory' /\ (torn' = 0 => torn = 0 /\ memory' = memory /\ opened')
    BY <1>0, <1>1, RestartFacts
  <2>2. handling' = <<>> /\ UNCHANGED <<checkpoints, responses, failures>>
    BY <1>1 DEF AuditRestart
  <2>3. LogTellsTheWhole'
    BY <1>0, <2>1 DEF LogTellsTheWhole, Event
  <2>4. Answers'
    BY <1>0, <2>2 DEF Answers, RollbackIsTrusted
  <2>5. Recorded'
    BY <2>2 DEF Recorded
  <2> QED
    BY <1>0, <2>1, <2>2, <2>3, <2>4, <2>5 DEF AuditInv
<1>2. CASE AddCheckpoint
  <2>1. UNCHANGED <<memory, file, open, decodable, opened, torn, returned, handling, failures>>
    BY <1>2 DEF AddCheckpoint
  <2>2. LogKept' /\ FileIsMemory' /\ LogTellsTheWhole'
    BY <1>0, <2>1, SameLog
  <2>3. Recorded'
    BY <1>0, <2>1 DEF Recorded, Event
  <2> QED
    BY <1>0, <1>2, <2>1, <2>2, <2>3, NewCheckpoint DEF AuditInv
<1>3. CASE BeginHandling
  <2>1. UNCHANGED <<memory, file, open, decodable, opened, torn, returned, checkpoints, responses>>
        /\ opened /\ failures' = failures + 1
    BY <1>3 DEF BeginHandling
  <2>2. LogKept' /\ FileIsMemory' /\ LogTellsTheWhole'
    BY <1>0, <2>1, SameLog
  <2>3. Answers'
    BY <1>0, <2>1 DEF Answers, RollbackIsTrusted
  <2>4. failures' \in Nat
    BY <1>0, <2>1
  <2>5. PICK execution \in AuditExecutions, status \in Statuses :
            handling' = <<[n |-> failures', execution |-> execution, status |-> status, pc |-> "record"]>>
    BY <1>3 DEF BeginHandling
  <2>6. [n |-> failures', execution |-> execution, status |-> status, pc |-> "record"] \in Handling
    BY <2>4 DEF Handling
  <2>7. handling' \in [1..1 -> Handling] /\ handling'[1].pc = "record"
    BY <2>5, <2>6
  <2>8. Recorded'
    BY <2>1, <2>7 DEF Recorded
  <2> QED
    BY <2>2, <2>3, <2>4, <2>8 DEF AuditInv
<1>4. ASSUME handling # <<>>
      PROVE  /\ handling \in [1..1 -> Handling] /\ handling[1] \in Handling /\ handling[1].n \in Nat
             /\ \A kind \in {"failed", "quarantined", "decided"} : Event(kind, handling[1].n) \in Logs
  <2>1. handling \in [1..1 -> Handling]
    BY <1>0, <1>4 DEF Recorded
  <2>2. handling[1] \in Handling
    BY <2>1
  <2>3. handling[1].n \in Nat
    BY <2>2 DEF Handling
  <2>4. ASSUME NEW kind \in {"failed", "quarantined", "decided"} PROVE Event(kind, handling[1].n) \in Logs
    <3>1. Event(kind, handling[1].n) \in Events
      BY <2>3 DEF Event, Events
    <3>2. Event(kind, handling[1].n).kind # CutOff.kind
      BY DEF Event, CutOff
    <3> QED
      BY <3>1, <3>2 DEF Logs
  <2> QED
    BY <2>1, <2>2, <2>3, <2>4
<1>5. ASSUME NEW event \in Logs, memory' = Append(memory, event)
      PROVE  /\ DOMAIN memory = 1..Len(memory) /\ Len(memory) \in Nat
             /\ Len(memory) + 1 \in DOMAIN memory' /\ memory'[Len(memory) + 1] = event
             /\ \A i \in DOMAIN memory : i \in DOMAIN memory' /\ i < Len(memory) + 1 /\ memory'[i] = memory[i]
  BY <1>0, <1>5
<1>6. CASE RecordFailure
  <2> DEFINE event == Event("failed", handling[1].n)
  <2>1. /\ handling # <<>> /\ Logged(event, Wide(handling[1])) /\ handling' = [handling EXCEPT ![1].pc = "quarantine"]
        /\ UNCHANGED <<checkpoints, responses, failures>>
    BY <1>6 DEF RecordFailure
  <2>2. event \in Logs /\ event.kind = "failed"
    BY <1>4, <2>1 DEF Event
  <2> HIDE DEF event
  <2>3. LogKept' /\ FileIsMemory' /\ memory' = Append(memory, event) /\ (torn' = 0 => torn = 0) /\ opened'
    BY <1>0, <2>1, <2>2, LoggedFacts DEF Recorded
  <2>4. LogTellsTheWhole'
    BY <1>0, <2>2, <2>3, TellsTheWhole
  <2>5. handling' \in [1..1 -> Handling] /\ handling'[1].pc = "quarantine" /\ handling'[1].n = handling[1].n
    BY <1>4, <2>1 DEF Handling
  <2>6. Recorded'
    <3>1. \E i \in DOMAIN memory' : memory'[i] = Event("failed", handling'[1].n)
      BY <1>5, <2>2, <2>3, <2>5 DEF event
    <3> QED
      BY <2>3, <2>5, <3>1 DEF Recorded, Event
  <2>7. Answers' /\ failures' \in Nat
    BY <1>0, <2>1 DEF Answers, RollbackIsTrusted
  <2> QED
    BY <2>3, <2>4, <2>6, <2>7 DEF AuditInv
<1>7. CASE QuarantineArtifact
  <2> DEFINE event == Event("quarantined", handling[1].n)
  <2>1. /\ handling # <<>> /\ Logged(event, Wide(handling[1])) /\ handling' = [handling EXCEPT ![1].pc = "decide"]
        /\ handling[1].pc = "quarantine"
        /\ UNCHANGED <<checkpoints, responses, failures>>
    BY <1>7 DEF QuarantineArtifact
  <2>2. event \in Logs /\ event.kind = "quarantined"
    BY <1>4, <2>1 DEF Event
  <2> HIDE DEF event
  <2>3. LogKept' /\ FileIsMemory' /\ memory' = Append(memory, event) /\ (torn' = 0 => torn = 0) /\ opened'
    BY <1>0, <2>1, <2>2, LoggedFacts DEF Recorded
  <2>4. LogTellsTheWhole'
    BY <1>0, <2>2, <2>3, TellsTheWhole
  <2>5. handling' \in [1..1 -> Handling] /\ handling'[1].pc = "decide" /\ handling'[1].n = handling[1].n
    BY <1>4, <2>1 DEF Handling
  <2>6. ASSUME torn' = 0
        PROVE  \E i, j \in DOMAIN memory' : /\ i < j
                                            /\ memory'[i] = Event("failed", handling'[1].n)
                                            /\ memory'[j] = Event("quarantined", handling'[1].n)
    <3>1. PICK i \in DOMAIN memory : memory[i] = Event("failed", handling[1].n)
      BY <1>0, <2>1, <2>3, <2>6 DEF Recorded
    <3>2. /\ i \in DOMAIN memory' /\ memory'[i] = Event("failed", handling'[1].n)
          /\ Len(memory) + 1 \in DOMAIN memory' /\ i < Len(memory) + 1
          /\ memory'[Len(memory) + 1] = Event("quarantined", handling'[1].n)
      BY <1>5, <2>2, <2>3, <2>5, <3>1 DEF event
    <3> QED
      BY <3>2
  <2>7. Recorded'
    BY <2>3, <2>5, <2>6 DEF Recorded, Event
  <2>8. Answers' /\ failures' \in Nat
    BY <1>0, <2>1 DEF Answers, RollbackIsTrusted
  <2> QED
    BY <2>3, <2>4, <2>7, <2>8 DEF AuditInv
<1>8. CASE Decide
  <2> DEFINE event == Event("decided", handling[1].n)
  <2>1. handling # <<>> /\ Logged(event, Wide(handling[1])) /\ handling' = <<>> /\ handling[1].pc = "decide" /\ failures' = failures
    BY <1>8 DEF Decide
  <2>2. event \in Logs /\ event.kind = "decided" /\ event.failure = handling[1].n
    BY <1>4, <2>1 DEF Event
  <2> HIDE DEF event
  <2>3. LogKept' /\ FileIsMemory' /\ memory' = Append(memory, event) /\ (torn' = 0 => torn = 0) /\ opened'
    BY <1>0, <2>1, <2>2, LoggedFacts DEF Recorded
  <2>4. torn = 0 => \E i, j \in DOMAIN memory : /\ i < j
                                                /\ memory[i] = Event("failed", event.failure)
                                                /\ memory[j] = Event("quarantined", event.failure)
    BY <1>0, <2>1, <2>2 DEF Recorded
  <2>5. LogTellsTheWhole'
    BY <1>0, <2>2, <2>3, <2>4, TellsTheWhole
  <2>6. Recorded'
    BY <2>1 DEF Recorded
  <2>7. Answers'
    BY <1>0, <1>4, <1>8, <2>1, ResponseDecided
  <2> QED
    BY <1>0, <2>1, <2>3, <2>5, <2>6, <2>7 DEF AuditInv
<1>9. CASE UNCHANGED auditVars
  <2>1. UNCHANGED <<memory, file, open, decodable, opened, torn, returned, checkpoints, handling, responses, failures>>
    BY <1>9 DEF auditVars
  <2>2. LogKept' /\ FileIsMemory' /\ LogTellsTheWhole'
    BY <1>0, <2>1, SameLog
  <2>3. Recorded' /\ Answers'
    BY <1>0, <2>1 DEF Recorded, Event, Answers, RollbackIsTrusted
  <2> QED
    BY <1>0, <2>1, <2>2, <2>3 DEF AuditInv
<1> QED
  BY <1>1, <1>2, <1>3, <1>6, <1>7, <1>8, <1>9 DEF AuditNext

(* Whatever crashes and torn writes there were, no more events are missing *)
(* from the log, or from the file when the log does not open with it, than  *)
(* two for every line cut off or not written; a log without such a line     *)
(* opens and tells every response whole and in order; a rollback goes to a  *)
(* checkpoint that can be trusted.                                         *)
THEOREM AuditIsSound == AuditSpec => []AuditSound
<1>1. AuditInit => AuditInv
  <2> SUFFICES ASSUME AuditInit PROVE AuditInv
    OBVIOUS
  <2>1. memory = <<>> /\ file = <<>> /\ open = FALSE /\ decodable /\ opened /\ torn = 0 /\ returned = {}
        /\ checkpoints = <<>> /\ handling = <<>> /\ responses = <<>> /\ failures = 0
    BY DEF AuditInit
  <2>2. DOMAIN memory = {} /\ DOMAIN file = {} /\ DOMAIN responses = {} /\ Len(memory) = Len(file)
    BY <2>1
  <2>3. Legible(file) = {}
    BY <2>2 DEF Legible
  <2>4. LostSoFar = 0
    <3>1. returned \ Legible(file) = {}
      BY <2>1
    <3>2. Cardinality(returned \ Legible(file)) = 0
      BY <3>1, FS_EmptySet
    <3> QED
      BY <2>1, <3>2 DEF LostSoFar
  <2>5. LogKept
    <3>1. memory \in Seq(Logs) /\ file \in Seq(Seq(Events))
      BY <2>1
    <3>2. returned \in SUBSET Logs /\ IsFiniteSet(returned)
      BY <2>1, FS_EmptySet
    <3>3. Legible(file) \subseteq Range(memory) /\ LostSoFar <= 2 * torn
      BY <2>1, <2>3, <2>4
    <3>4. open \in BOOLEAN /\ torn \in Nat /\ ~open /\ decodable \in BOOLEAN /\ opened \in BOOLEAN
      BY <2>1
    <3>5. \A i \in DOMAIN file : Len(file[i]) # 0
      BY <2>2
    <3> QED
      BY <3>1, <3>2, <3>3, <3>4, <3>5 DEF LogKept
  <2>6. FileIsMemory /\ LogTellsTheWhole /\ Recorded
    BY <2>1, <2>2 DEF FileIsMemory, LogTellsTheWhole, Recorded
  <2>7. Answers
    <3>1. checkpoints \in Seq(NewCheckpoints) /\ responses \in Seq(Response)
      BY <2>1
    <3> QED
      BY <2>2, <3>1 DEF Answers, RollbackIsTrusted
  <2> QED
    BY <2>1, <2>5, <2>6, <2>7 DEF AuditInv
<1>2. AuditInv => AuditSound
  <2> SUFFICES ASSUME AuditInv PROVE EventsLostAreCounted
    BY DEF AuditInv, Answers, AuditSound
  <2> DEFINE missing == returned \ Found
             unread == returned \ Legible(file)
  <2>1. /\ IsFiniteSet(returned) /\ torn \in Nat /\ file \in Seq(Seq(Events))
        /\ opened => Legible(file) \subseteq Range(memory)
        /\ Cardinality(unread) + (IF open THEN 1 ELSE 0) <= 2 * torn
    BY DEF AuditInv, LogKept, LostSoFar
  <2>a. Legible(file) \subseteq Found
    BY <2>1, ReplayFacts DEF Found
  <2>2. IsFiniteSet(unread) /\ missing \subseteq unread
    BY <2>1, <2>a, FS_Subset
  <2> HIDE DEF missing, unread
  <2>3. /\ Cardinality(unread) \in Nat /\ Cardinality(missing) \in Nat
        /\ Cardinality(missing) <= Cardinality(unread)
    BY <2>2, FS_Subset, FS_CardinalityType
  <2>4. Cardinality(unread) <= 2 * torn
    BY <2>1, <2>3
  <2>5. Cardinality(missing) <= 2 * torn
    BY <2>1, <2>3, <2>4
  <2> QED
    BY <2>5 DEF missing, EventsLostAreCounted
<1> QED
  BY <1>1, <1>2, AuditStep, PTL DEF AuditSpec

-----------------------------------------------------------------------------
(***************************************************************************)
(* A trained model can be believed, for any datasets whose columns have       *)
(* names of their own.                                                       *)
(*                                                                         *)
(* The argument: the frame that is trained on has columns of the dataset      *)
(* only, and none whose name tells of the target; a name is that of one       *)
(* column, so what is known of a feature's name is known of the column; at    *)
(* least four rows leave both sides of every holdout at least one; and whole  *)
(* groups, of which at least one is left, share no value with the rest.       *)
(***************************************************************************)

TrainingPhases == {"dataset", "training", "fallback", "artifact", "serving", "failed"}

(* What the rules decided refers to the dataset.                            *)
PlanFits ==
    /\ plan.target \in Names(dataset)
    /\ plan.entity = "" \/ \E c \in Range(dataset) : c.name = plan.entity /\ c.name # plan.target

(* What the training left is of the plan, the dataset and a holdout.          *)
TrainedFits ==
    /\ PlanFits
    /\ trained.features = {c.name : c \in Encoded(WithoutIdentifiers(SafeFrame))}
    /\ trained.train = Labelled \ trained.test
    /\ trained.test \in Holdouts(trained.strategy, SafeFrame)
    /\ Cardinality(Labelled) >= 4

ModelInv ==
    /\ dataset \in Datasets
    /\ phase \in TrainingPhases
    /\ phase \notin {"dataset", "failed"} => PlanFits
    /\ trained = NoTraining \/ TrainedFits
    /\ phase \in {"dataset", "training", "fallback"} => trained = NoTraining
    /\ phase = "serving" => served.columns = ArtifactColumns
    /\ (prediction.success = TRUE) => phase = "serving" /\ ArtifactColumns \subseteq prediction.given

-----------------------------------------------------------------------------
(* A column is known by its name.                                           *)
LEMMA NamedFacts ==
    ASSUME NEW columns \in Datasets, NEW c \in Range(columns)
    PROVE  /\ c \in Column /\ Named(columns, c.name) = c
           /\ c.name \in Names(columns) /\ c.name # ""
<1>1. /\ columns \in Seq(Column)
      /\ \A i, j \in DOMAIN columns : columns[i].name = columns[j].name => i = j
  BY DatasetsAssumption
<1>2. PICK i \in DOMAIN columns : c = columns[i]
  BY DEF Range
<1>3. c \in Column
  BY <1>1, <1>2
<1>4. \A d \in Range(columns) : d.name = c.name => d = c
  BY <1>1, <1>2 DEF Range
<1>5. Named(columns, c.name) = c
  BY <1>4 DEF Named
<1> QED
  BY <1>1, <1>3, <1>5 DEF Names, Column

(* The frame has the columns of the dataset that tell nothing.               *)
LEMMA SafeColumns ==
    ASSUME NEW columns \in Datasets, NEW target
    PROVE  /\ Range(WithoutRisky(columns, target)) \subseteq Range(columns)
           /\ \A c \in Range(WithoutRisky(columns, target)) : ~RiskyFeature(c, target)
<1> DEFINE kept == {i \in DOMAIN columns : ~RiskyFeature(columns[i], target)}
           frame == Picked(columns, kept)
<1>1. columns \in Seq(Column) /\ kept \in SUBSET (DOMAIN columns)
  BY DatasetsAssumption
<1>a. \A i \in kept : ~RiskyFeature(columns[i], target)
  OBVIOUS
<1> HIDE DEF kept
<1>2. PICK origin : Follows(frame, columns, kept, origin)
  BY <1>1, PickedFacts
<1>3. \A n \in DOMAIN frame : origin[n] \in kept /\ frame[n] = columns[origin[n]]
  BY <1>2 DEF Follows
<1>4. ASSUME NEW c \in Range(frame) PROVE c \in Range(columns) /\ ~RiskyFeature(c, target)
  <2>1. PICK n \in DOMAIN frame : c = frame[n]
    BY DEF Range
  <2>2. origin[n] \in kept /\ c = columns[origin[n]]
    BY <1>3, <2>1
  <2> QED
    BY <1>1, <1>a, <2>2 DEF Range
<1> QED
  BY <1>4 DEF WithoutRisky, kept

(* The first column of a role that is not the target's is another column.    *)
LEMMA RoleColumns ==
    ASSUME NEW columns \in Datasets, NEW target, NEW role, role # "target"
    PROVE  LET first == FirstOr(InRole(columns, target, role), 1)
           IN  first = "" \/ \E c \in Range(columns) : c.name = first /\ c.name # target
<1> DEFINE names == [i \in DOMAIN columns |-> columns[i].name]
           kept == {i \in DOMAIN columns : RoleOf(columns[i], target) = role}
           chosen == Picked(names, kept)
<1>1. columns \in Seq(Column)
  BY DatasetsAssumption
<1>2. names \in Seq(STRING) /\ kept \in SUBSET (DOMAIN names)
  <2>1. \A i \in DOMAIN columns : columns[i].name \in STRING
    <3>1. \A i \in DOMAIN columns : columns[i] \in Column
      BY <1>1
    <3>2. \A c \in Column : c.name \in STRING \ {""}
      BY DEF Column
    <3> QED
      BY <3>1, <3>2
  <2>2. Len(columns) \in Nat /\ DOMAIN columns = 1..Len(columns)
    BY <1>1
  <2>3. names \in [1..Len(columns) -> STRING]
    BY <2>1, <2>2
  <2> QED
    BY <2>2, <2>3
<1>3. \A i \in kept : i \in DOMAIN columns /\ names[i] = columns[i].name /\ columns[i].name # target
  <2> SUFFICES ASSUME NEW i \in kept PROVE columns[i].name # target
    OBVIOUS
  <2>1. columns[i].name = target => RoleOf(columns[i], target) = "target"
    BY DEF RoleOf
  <2> QED
    BY <2>1
<1> HIDE DEF names, kept
<1>4. chosen \in Seq(STRING) /\ \E origin : Follows(chosen, names, kept, origin)
  BY <1>2, PickedFacts
<1>5. PICK origin : Follows(chosen, names, kept, origin)
  BY <1>4
<1>6. chosen = InRole(columns, target, role)
  BY DEF InRole, names, kept
<1> HIDE DEF chosen
<1>7. CASE 1 <= Len(chosen)
  <2>1. 1 \in DOMAIN chosen
    BY <1>4, <1>7
  <2>2. origin[1] \in kept /\ chosen[1] = names[origin[1]]
    BY <1>5, <2>1 DEF Follows
  <2>3. FirstOr(chosen, 1) = chosen[1]
    BY <1>7 DEF FirstOr
  <2> QED
    BY <1>3, <1>6, <2>2, <2>3 DEF Range
<1>8. CASE ~(1 <= Len(chosen))
  BY <1>6, <1>8 DEF FirstOr
<1> QED
  BY <1>7, <1>8

(* A share of at least one row is of some, and leaves some.                   *)
LEMMA Shares ==
    ASSUME NEW n \in Nat
    PROVE  /\ n >= 2 => FifthOf(n) \in 1 .. (n - 1)
           /\ n >= 4 => n - ((4 * n) \div 5) \in 1 .. (n - 1)
BY SMTT(30) DEF FifthOf

(* A part of a finite set that has some but not as many elements.            *)
LEMMA ProperPart ==
    ASSUME NEW all, IsFiniteSet(all), NEW size \in 1 .. (Cardinality(all) - 1), NEW some \in Of(size, all)
    PROVE  /\ some \in SUBSET all /\ some # {} /\ all \ some # {}
<1>1. some \in SUBSET all /\ Cardinality(some) = size
  BY DEF Of
<1>2. Cardinality(all) \in Nat /\ size # 0 /\ size # Cardinality(all)
  BY FS_CardinalityType
<1>3. some # {}
  BY <1>1, <1>2, FS_EmptySet
<1>4. some # all
  BY <1>1, <1>2
<1> QED
  BY <1>1, <1>3, <1>4

(* Two different members are two at least.                                   *)
LEMMA TwoAtLeast ==
    ASSUME NEW all, IsFiniteSet(all), NEW x \in all, NEW y \in all, x # y
    PROVE  Cardinality(all) >= 2
<1>1. Cardinality(all) \in Nat /\ Cardinality(all) # 0 /\ Cardinality(all) # 1
  BY FS_CardinalityType, FS_EmptySet, FS_Singleton
<1> QED
  BY <1>1

(* The labelled rows of a column of the dataset are some of its rows.          *)
LEMMA LabelledFinite ==
    ASSUME dataset \in Datasets, plan.target \in Names(dataset)
    PROVE  IsFiniteSet(Labelled) /\ Cardinality(Labelled) \in Nat
<1>1. PICK c \in Range(dataset) : c.name = plan.target
  BY DEF Names
<1>2. c \in Column /\ Named(dataset, plan.target) = c
  BY <1>1, NamedFacts
<1>3. c.values \in Seq(Int)
  BY <1>2 DEF Column
<1>4. Len(c.values) \in Nat /\ DOMAIN c.values = 1 .. Len(c.values)
  BY <1>3
<1>5. IsFiniteSet(1 .. Len(c.values))
  BY <1>4, FS_Interval
<1>6. Labelled \in SUBSET (1 .. Len(c.values))
  BY <1>2, <1>4 DEF Labelled, Present
<1> QED
  BY <1>5, <1>6, FS_Subset, FS_CardinalityType

(* A set of rows has finitely many groups.                                    *)
LEMMA GroupsFinite ==
    ASSUME IsFiniteSet(Labelled), NEW key
    PROVE  IsFiniteSet(GroupsOf(key)) /\ Cardinality(GroupsOf(key)) \in Nat
<1>1. GroupsOf(key) \in SUBSET (SUBSET Labelled)
  BY DEF GroupsOf
<1>2. IsFiniteSet(SUBSET Labelled)
  BY FS_SUBSET
<1> QED
  BY <1>1, <1>2, FS_Subset, FS_CardinalityType

(* Groups of rows by a key: some of them but not all are held out, and no     *)
(* row that is held out has the key of one that is not.                      *)
LEMMA GroupsApart ==
    ASSUME IsFiniteSet(Labelled), NEW key, Cardinality(GroupsOf(key)) >= 2,
           NEW test \in OfGroups(GroupsOf(key))
    PROVE  /\ test \in SUBSET Labelled /\ test # {} /\ Labelled \ test # {}
           /\ \A r \in Labelled \ test, q \in test : key[r] # key[q]
<1> DEFINE groups == GroupsOf(key)
           size == FifthOf(Cardinality(groups))
<1>1. IsFiniteSet(groups) /\ Cardinality(groups) \in Nat
  BY GroupsFinite
<1>2. size \in 1 .. (Cardinality(groups) - 1)
  BY <1>1, Shares
<1>3. PICK chosen \in Of(size, groups) : test = UNION chosen
  BY DEF OfGroups
<1>4. \A group \in groups : group \in SUBSET Labelled /\ group # {}
  BY DEF GroupsOf
<1>5. \A group \in groups : \A q \in group, r \in Labelled : key[r] = key[q] <=> r \in group
  BY DEF GroupsOf
<1> HIDE DEF groups, size
<1>6. chosen \in SUBSET groups /\ chosen # {} /\ groups \ chosen # {}
  BY <1>1, <1>2, ProperPart
<1>7. test \in SUBSET Labelled /\ test # {}
  BY <1>3, <1>4, <1>6
<1>8. ASSUME NEW r \in Labelled \ test, NEW q \in test PROVE key[r] # key[q]
  BY <1>3, <1>5, <1>6, <1>8
<1>9. Labelled \ test # {}
  <2>1. PICK other \in groups : other \notin chosen
    BY <1>6
  <2>2. PICK r \in other : r \in Labelled
    BY <1>4, <2>1
  <2>3. ASSUME r \in test PROVE FALSE
    <3>1. PICK group \in chosen : r \in group
      BY <1>3, <2>3
    <3>2. group \in groups /\ group \in SUBSET Labelled /\ other \in SUBSET Labelled
      BY <1>4, <1>6, <3>1
    <3>3. \A x \in Labelled : x \in group <=> x \in other
      BY <1>5, <2>1, <2>2, <3>1, <3>2
    <3>4. group = other
      BY <3>2, <3>3
    <3> QED
      BY <2>1, <3>1, <3>4
  <2> QED
    BY <2>2, <2>3
<1> QED
  BY <1>7, <1>8, <1>9

(* Rows held out at random are some of the labelled rows.                     *)
LEMMA RandomApart ==
    ASSUME IsFiniteSet(Labelled), Cardinality(Labelled) \in Nat, Cardinality(Labelled) >= 4,
           NEW test \in RandomHoldouts \cup StratifiedHoldouts
    PROVE  test \in SUBSET Labelled /\ test # {} /\ Labelled \ test # {}
<1>1. test \in Of(FifthOf(Cardinality(Labelled)), Labelled)
  <2>1. CASE test \in RandomHoldouts
    BY <2>1 DEF RandomHoldouts
  <2>2. CASE test \in StratifiedHoldouts
    BY <2>2 DEF StratifiedHoldouts
  <2> QED
    BY <2>1, <2>2
<1>2. FifthOf(Cardinality(Labelled)) \in 1 .. (Cardinality(Labelled) - 1)
  BY Shares
<1> QED
  BY <1>1, <1>2, ProperPart

(* The latest rows are held out, and not all.                                *)
LEMMA LatestApart ==
    ASSUME IsFiniteSet(Labelled), Cardinality(Labelled) \in Nat, Cardinality(Labelled) >= 4,
           NEW frame, NEW test \in TemporalHoldouts(frame)
    PROVE  /\ test \in SUBSET Labelled /\ test # {} /\ Labelled \ test # {}
           /\ \A q \in Labelled \ test, r \in test : Value(plan.time, q) <= Value(plan.time, r)
<1> DEFINE n == Cardinality(Labelled)
           size == n - ((4 * n) \div 5)
<1>1. /\ test \in Of(size, Labelled)
      /\ \A r \in test, q \in Labelled \ test : Value(plan.time, q) <= Value(plan.time, r)
  BY DEF TemporalHoldouts
<1>2. size \in 1 .. (Cardinality(Labelled) - 1)
  BY Shares
<1> HIDE DEF size
<1>3. test \in SUBSET Labelled /\ test # {} /\ Labelled \ test # {}
  BY <1>1, <1>2, ProperPart
<1> QED
  BY <1>1, <1>3

(* Whole entities are held out, and the column that names them is in the      *)
(* frame.                                                                   *)
LEMMA EntitiesApart ==
    ASSUME IsFiniteSet(Labelled), NEW frame, NEW test \in GroupHoldouts(frame)
    PROVE  /\ test \in SUBSET Labelled /\ test # {} /\ Labelled \ test # {}
           /\ \A q \in Labelled \ test, r \in test : Value(plan.entity, q) # Value(plan.entity, r)
           /\ plan.entity \in Names(frame)
<1>1. /\ plan.entity \in Names(frame)
      /\ ~(Cardinality(GroupsOf(EntityOf)) < 2)
      /\ test \in OfGroups(GroupsOf(EntityOf))
  BY DEF GroupHoldouts
<1>2. Cardinality(GroupsOf(EntityOf)) \in Nat
  BY GroupsFinite
<1>3. Cardinality(GroupsOf(EntityOf)) >= 2
  BY <1>1, <1>2
<1>4. /\ test \in SUBSET Labelled /\ test # {} /\ Labelled \ test # {}
      /\ \A q \in Labelled \ test, r \in test : EntityOf[q] # EntityOf[r]
  BY <1>1, <1>3, GroupsApart
<1>5. \A r \in Labelled : EntityOf[r] = Value(plan.entity, r)
  BY DEF EntityOf
<1> QED
  BY <1>1, <1>4, <1>5

(* Whole blocks are held out.                                               *)
LEMMA BlocksApart ==
    ASSUME IsFiniteSet(Labelled), NEW frame, NEW test \in SpatialHoldouts(frame)
    PROVE  /\ test \in SUBSET Labelled /\ test # {} /\ Labelled \ test # {}
           /\ \A q \in Labelled \ test, r \in test :
                 Value(plan.lat, q) # Value(plan.lat, r) \/ Value(plan.lon, q) # Value(plan.lon, r)
<1> DEFINE lats == {Value(plan.lat, r) : r \in Labelled}
<1>1. ~(~(Cardinality(lats) >= 2)) /\ test \in OfGroups(GroupsOf(BlockOf))
  BY DEF SpatialHoldouts
<1>2. \A r \in Labelled : BlockOf[r] = <<Value(plan.lat, r), Value(plan.lon, r)>>
  BY DEF BlockOf
<1>3. PICK q \in Labelled, r \in Labelled : Value(plan.lat, q) # Value(plan.lat, r)
  <2> SUFFICES ASSUME \A q, r \in Labelled : Value(plan.lat, q) = Value(plan.lat, r) PROVE FALSE
    OBVIOUS
  <2>1. CASE lats = {}
    BY <1>1, <2>1, FS_EmptySet
  <2>2. CASE lats # {}
    <3>1. PICK v \in lats : TRUE
      BY <2>2
    <3>2. lats = {v}
      BY <3>1
    <3>3. Cardinality({v}) = 1
      BY FS_Singleton
    <3> QED
      BY <1>1, <3>2, <3>3
  <2> QED
    BY <2>1, <2>2
<1>4. BlockOf[q] # BlockOf[r]
  BY <1>2, <1>3
<1>5. IsFiniteSet(GroupsOf(BlockOf))
  BY GroupsFinite
<1>6. /\ {x \in Labelled : BlockOf[x] = BlockOf[q]} \in GroupsOf(BlockOf)
      /\ {x \in Labelled : BlockOf[x] = BlockOf[r]} \in GroupsOf(BlockOf)
      /\ {x \in Labelled : BlockOf[x] = BlockOf[q]} # {x \in Labelled : BlockOf[x] = BlockOf[r]}
  <2>1. q \in {x \in Labelled : BlockOf[x] = BlockOf[q]}
    OBVIOUS
  <2>2. q \notin {x \in Labelled : BlockOf[x] = BlockOf[r]}
    BY <1>4
  <2> QED
    BY <2>1, <2>2 DEF GroupsOf
<1>7. Cardinality(GroupsOf(BlockOf)) >= 2
  BY <1>5, <1>6, TwoAtLeast
<1>8. /\ test \in SUBSET Labelled /\ test # {} /\ Labelled \ test # {}
      /\ \A x \in Labelled \ test, y \in test : BlockOf[x] # BlockOf[y]
  BY <1>1, <1>7, GroupsApart
<1> QED
  BY <1>2, <1>8

(* What any holdout is.                                                    *)
LEMMA HoldoutFacts ==
    ASSUME dataset \in Datasets, PlanFits, Cardinality(Labelled) >= 4,
           NEW strategy, NEW frame, NEW test \in Holdouts(strategy, frame)
    PROVE  /\ test \in SUBSET Labelled /\ test # {} /\ Labelled \ test # {}
           /\ \A r \in Labelled \ test, q \in test :
                /\ strategy = "temporal_holdout" => Value(plan.time, r) <= Value(plan.time, q)
                /\ strategy = "spatial_holdout" =>
                     Value(plan.lat, r) # Value(plan.lat, q) \/ Value(plan.lon, r) # Value(plan.lon, q)
                /\ strategy = "group_holdout" => Value(plan.entity, r) # Value(plan.entity, q)
           /\ strategy = "group_holdout" => plan.entity \in Names(frame)
<1>1. IsFiniteSet(Labelled) /\ Cardinality(Labelled) \in Nat
  BY LabelledFinite DEF PlanFits
<1>2. CASE strategy = "group_holdout"
  <2>1. test \in GroupHoldouts(frame)
    BY <1>2 DEF Holdouts
  <2> QED
    BY <1>1, <1>2, <2>1, EntitiesApart
<1>3. CASE strategy = "temporal_holdout"
  <2>1. test \in TemporalHoldouts(frame)
    BY <1>3 DEF Holdouts
  <2> QED
    BY <1>1, <1>3, <2>1, LatestApart
<1>4. CASE strategy = "spatial_holdout"
  <2>1. test \in SpatialHoldouts(frame)
    BY <1>4 DEF Holdouts
  <2> QED
    BY <1>1, <1>4, <2>1, BlocksApart
<1>5. CASE strategy \notin {"group_holdout", "temporal_holdout", "spatial_holdout"}
  <2>1. test \in RandomHoldouts \cup StratifiedHoldouts
    BY <1>5 DEF Holdouts
  <2> QED
    BY <1>1, <1>5, <2>1, RandomApart
<1> QED
  BY <1>2, <1>3, <1>4, <1>5

-----------------------------------------------------------------------------
(* Nothing has been decided yet.                                            *)
LEMMA ModelBegins == TrainingInit => ModelInv
<1> SUFFICES ASSUME TrainingInit PROVE ModelInv
  OBVIOUS
<1>1. /\ phase = "dataset" /\ dataset \in Datasets /\ trained = NoTraining
      /\ prediction.success = FALSE
  BY DEF TrainingInit, NoReplyYet
<1> QED
  BY <1>1 DEF ModelInv, TrainingPhases

(* What refers to the plan and the dataset stays as long as they do.          *)
LEMMA SamePlan ==
    ASSUME UNCHANGED <<dataset, plan>>
    PROVE  /\ PlanFits' = PlanFits /\ Labelled' = Labelled /\ SafeFrame' = SafeFrame
           /\ ArtifactColumns' = ArtifactColumns
           /\ \A strategy : Holdouts(strategy, SafeFrame)' = Holdouts(strategy, SafeFrame)
           /\ WithoutIdentifiers(SafeFrame)' = WithoutIdentifiers(SafeFrame)
           /\ UNCHANGED trained => TrainedFits' = TrainedFits
<1>1. PlanFits' = PlanFits
  BY DEF PlanFits
<1>2. Labelled' = Labelled
  BY DEF Labelled
<1>3. SafeFrame' = SafeFrame
  BY DEF SafeFrame
<1>4. ArtifactColumns' = ArtifactColumns
  BY <1>3 DEF ArtifactColumns
<1>5. ASSUME NEW strategy PROVE Holdouts(strategy, SafeFrame)' = Holdouts(strategy, SafeFrame)
  BY DEF Holdouts, SafeFrame, GroupHoldouts, StratifiedHoldouts, TemporalHoldouts, SpatialHoldouts, RandomHoldouts,
         GroupsOf, EntityOf, BlockOf, Labelled, Value
<1>6. WithoutIdentifiers(SafeFrame)' = WithoutIdentifiers(SafeFrame)
  BY <1>3 DEF WithoutIdentifiers
<1>7. UNCHANGED trained => TrainedFits' = TrainedFits
  BY <1>1, <1>2, <1>3, <1>5, <1>6 DEF TrainedFits
<1> QED
  BY <1>1, <1>2, <1>3, <1>4, <1>5, <1>6, <1>7

(* A decision keeps it, whichever of the steps is next.                      *)
LEMMA DecideStep == ModelInv /\ DecideRules => ModelInv'
<1> SUFFICES ASSUME ModelInv, DecideRules PROVE ModelInv'
  OBVIOUS
<1>1. /\ phase = "dataset" /\ UNCHANGED <<dataset, trained, served, prediction>>
      /\ trained = NoTraining /\ dataset \in Datasets /\ prediction.success # TRUE
  BY DEF DecideRules, ModelInv
<1>2. CASE phase' = "failed"
  BY <1>1, <1>2 DEF ModelInv, TrainingPhases
<1>3. CASE phase' # "failed"
  <2>1. PICK target, task, strategy, limit :
           /\ target \in Names(dataset) /\ phase' = "training"
           /\ plan' = PlanFor(target, task, strategy, limit)
    <3>1. \E given \in GivenTargets, wanted \in GivenTasks, limit \in CandidateLimits :
             LET target == IF given # "" THEN given ELSE DetectedTarget(dataset)
                 task == IF wanted # "" THEN wanted ELSE DetectedTask(dataset)
             IN  /\ target \in Names(dataset) /\ phase' = "training"
                 /\ \E strategy \in SelectedStrategies(dataset, target) :
                      plan' = PlanFor(target, task, strategy, limit)
      BY <1>3, Zenon DEF DecideRules
    <3>2. PICK given \in GivenTargets, wanted \in GivenTasks, limit \in CandidateLimits :
             LET target == IF given # "" THEN given ELSE DetectedTarget(dataset)
                 task == IF wanted # "" THEN wanted ELSE DetectedTask(dataset)
             IN  /\ target \in Names(dataset) /\ phase' = "training"
                 /\ \E strategy \in SelectedStrategies(dataset, target) :
                      plan' = PlanFor(target, task, strategy, limit)
      BY <3>1, Zenon
    <3> QED
      BY <3>2, Zenon
  <2>2. plan'.target = target /\ plan'.entity = FirstOr(InRole(dataset, target, "identifier"), 1)
    BY <2>1 DEF PlanFor
  <2>a. LET first == FirstOr(InRole(dataset, target, "identifier"), 1)
        IN  first = "" \/ \E c \in Range(dataset) : c.name = first /\ c.name # target
    BY <1>1, RoleColumns
  <2>3. plan'.entity = "" \/ \E c \in Range(dataset) : c.name = plan'.entity /\ c.name # target
    BY <2>2, <2>a
  <2>4. PlanFits'
    BY <1>1, <2>1, <2>2, <2>3 DEF PlanFits
  <2> QED
    BY <1>1, <2>1, <2>4 DEF ModelInv, TrainingPhases
<1> QED
  BY <1>2, <1>3

(* What a training leaves.                                                  *)
LEMMA TrainFacts ==
    ASSUME ModelInv, PlanFits, UNCHANGED <<dataset, plan>>,
           NEW strategy, ~Raises(strategy, SafeFrame), TrainOn(strategy, SafeFrame)
    PROVE  TrainedFits'
<1>1. dataset \in Datasets /\ Cardinality(Labelled) \in Nat
  BY LabelledFinite DEF ModelInv, PlanFits
<1>2. Cardinality(Labelled) >= 4
  BY <1>1 DEF Raises
<1>3. /\ trained'.features = {c.name : c \in Encoded(WithoutIdentifiers(SafeFrame))}
      /\ trained'.strategy = strategy
      /\ trained'.test \in Holdouts(strategy, SafeFrame)
      /\ trained'.train = Labelled \ trained'.test
  BY DEF TrainOn
<1>4. /\ PlanFits' = PlanFits /\ Labelled' = Labelled /\ SafeFrame' = SafeFrame
      /\ Holdouts(strategy, SafeFrame)' = Holdouts(strategy, SafeFrame)
      /\ WithoutIdentifiers(SafeFrame)' = WithoutIdentifiers(SafeFrame)
  BY SamePlan
<1>5. Holdouts(trained.strategy, SafeFrame)' = Holdouts(strategy, SafeFrame)'
  BY <1>3
<1> QED
  BY <1>2, <1>3, <1>4, <1>5 DEF TrainedFits

(* Training computes metrics or falls back.                                  *)
LEMMA TrainStep == ModelInv /\ (TrainAndEvaluate \/ FallBack) => ModelInv'
<1> SUFFICES ASSUME ModelInv, TrainAndEvaluate \/ FallBack PROVE ModelInv'
  OBVIOUS
<1>1. /\ phase \in {"training", "fallback"} /\ UNCHANGED <<dataset, plan, served, prediction>>
      /\ PlanFits /\ dataset \in Datasets /\ trained = NoTraining /\ prediction.success # TRUE
  BY DEF TrainAndEvaluate, FallBack, ModelInv
<1>2. PlanFits'
  BY <1>1, SamePlan
<1>3. CASE phase' \in {"fallback", "failed"} /\ UNCHANGED trained
  BY <1>1, <1>2, <1>3 DEF ModelInv, TrainingPhases
<1>4. CASE phase' = "artifact" /\ \E strategy : ~Raises(strategy, SafeFrame) /\ TrainOn(strategy, SafeFrame)
  <2>1. TrainedFits'
    BY <1>1, <1>4, TrainFacts
  <2> QED
    BY <1>1, <1>2, <1>4, <2>1 DEF ModelInv, TrainingPhases
<1> QED
  BY <1>3, <1>4 DEF TrainAndEvaluate, FallBack

(* The artifact states what was selected.                                    *)
LEMMA ArtifactStep == ModelInv /\ BuildModelArtifact => ModelInv'
<1> SUFFICES ASSUME ModelInv, BuildModelArtifact PROVE ModelInv'
  OBVIOUS
<1>1. /\ phase = "artifact" /\ UNCHANGED <<dataset, plan, trained, prediction>>
      /\ PlanFits /\ dataset \in Datasets /\ prediction.success # TRUE
      /\ trained = NoTraining \/ TrainedFits
  BY DEF BuildModelArtifact, ModelInv
<1>3. phase' \in {"failed", "serving"} /\ (phase' = "serving" => served'.columns = ArtifactColumns)
  BY DEF BuildModelArtifact
<1>2. /\ PlanFits' /\ ArtifactColumns' = ArtifactColumns
      /\ (trained = NoTraining \/ TrainedFits)'
  <2>1. NoTraining' = NoTraining
    BY DEF NoTraining
  <2> QED
    BY <1>1, <2>1, SamePlan
<1> QED
  BY <1>1, <1>2, <1>3 DEF ModelInv, TrainingPhases

(* A served model is asked.                                                   *)
LEMMA PredictStep == ModelInv /\ Predict => ModelInv'
<1> SUFFICES ASSUME ModelInv, Predict PROVE ModelInv'
  OBVIOUS
<1>1. /\ phase = "serving" /\ UNCHANGED <<phase, dataset, plan, trained, served>>
      /\ PlanFits /\ dataset \in Datasets /\ served.columns = ArtifactColumns
      /\ trained = NoTraining \/ TrainedFits
  BY DEF Predict, ModelInv
<1>2. /\ PlanFits' /\ ArtifactColumns' = ArtifactColumns
      /\ (trained = NoTraining \/ TrainedFits)'
  <2>1. NoTraining' = NoTraining
    BY DEF NoTraining
  <2> QED
    BY <1>1, <2>1, SamePlan
<1>3. prediction'.success = TRUE => served.columns \subseteq prediction'.given
  <2>1. PICK given \in {Names(dataset)} \cup {Names(dataset) \ {name} : name \in Names(dataset)} :
           \E success \in (IF served.columns \subseteq given /\ Named(dataset, plan.target).kind # "text"
                         THEN BOOLEAN ELSE {FALSE}) :
             prediction' = [given |-> given, success |-> success]
    BY DEF Predict
  <2>2. PICK success \in (IF served.columns \subseteq given /\ Named(dataset, plan.target).kind # "text"
                         THEN BOOLEAN ELSE {FALSE}) :
             prediction' = [given |-> given, success |-> success]
    BY <2>1
  <2>3. prediction'.success = success /\ prediction'.given = given
    BY <2>2
  <2>4. success = TRUE => served.columns \subseteq given
    BY <2>2
  <2> QED
    BY <2>3, <2>4
<1> QED
  BY <1>1, <1>2, <1>3 DEF ModelInv, TrainingPhases

(* Every step keeps it.                                                      *)
LEMMA ModelStep == ModelInv /\ [TrainingNext]_trainingVars => ModelInv'
<1> SUFFICES ASSUME ModelInv, [TrainingNext]_trainingVars PROVE ModelInv'
  OBVIOUS
<1>1. CASE UNCHANGED trainingVars
  <2>1. /\ PlanFits' = PlanFits /\ TrainedFits' = TrainedFits /\ ArtifactColumns' = ArtifactColumns
    BY <1>1, SamePlan DEF trainingVars
  <2> QED
    BY <1>1, <2>1 DEF ModelInv, trainingVars, NoTraining
<1> QED
  BY <1>1, DecideStep, TrainStep, ArtifactStep, PredictStep DEF TrainingNext

-----------------------------------------------------------------------------
(* What the model is fitted on is a column that tells nothing.               *)
LEMMA FeatureFacts ==
    ASSUME dataset \in Datasets, TrainedFits, NEW name \in trained.features
    PROVE  /\ LET c == Named(dataset, name)
              IN /\ name # plan.target /\ plan.target \notin c.about
                 /\ ~Says(c, {"future", "predicted", "id", "_id", "_uuid", "_key", "_code"})
           /\ name \in ArtifactColumns
<1>1. PICK c \in Range(SafeFrame) :
         /\ c.name = name /\ c.name # plan.target
         /\ ~Says(c, {"id", "_id", "_uuid", "_key"})
  BY DEF TrainedFits, Encoded, WithoutIdentifiers
<1>2. c \in Range(dataset) /\ ~RiskyFeature(c, plan.target)
  BY <1>1, SafeColumns DEF SafeFrame
<1>3. Named(dataset, name) = c
  BY <1>1, <1>2, NamedFacts
<1>4. plan.target \notin c.about /\ ~Says(c, {"future", "predicted"}) /\ ~Says(c, {"_id", "_uuid", "_key", "_code"})
  BY <1>1, <1>2 DEF RiskyFeature
<1>5. ~Says(c, {"future", "predicted", "id", "_id", "_uuid", "_key", "_code"})
  BY <1>1, <1>4 DEF Says
<1>6. name \in ArtifactColumns
  BY <1>1 DEF ArtifactColumns, Names
<1> QED
  BY <1>1, <1>3, <1>4, <1>5, <1>6

(* The invariant says what the runs check.                                   *)
LEMMA ModelInvSound == ModelInv => ModelSound
<1> SUFFICES ASSUME ModelInv PROVE ModelSound
  OBVIOUS
<1>1. dataset \in Datasets
  BY DEF ModelInv
<1>2. CASE trained = NoTraining
  <2>1. trained.features = {} /\ trained.strategy = ""
    BY <1>2 DEF NoTraining
  <2> QED
    BY <2>1 DEF ModelSound, FeaturesDoNotLeak, HoldoutIsUnseen, AnswersHaveTheFeatures
<1>3. CASE TrainedFits
  <2>1. FeaturesDoNotLeak
    BY <1>1, <1>3, FeatureFacts DEF FeaturesDoNotLeak
  <2>2. /\ PlanFits /\ Cardinality(Labelled) >= 4
        /\ trained.train = Labelled \ trained.test
        /\ trained.test \in Holdouts(trained.strategy, SafeFrame)
    BY <1>3 DEF TrainedFits
  <2>3. /\ trained.test \in SUBSET Labelled /\ trained.test # {} /\ Labelled \ trained.test # {}
        /\ \A r \in Labelled \ trained.test, q \in trained.test :
             /\ trained.strategy = "temporal_holdout" => Value(plan.time, r) <= Value(plan.time, q)
             /\ trained.strategy = "spatial_holdout" =>
                  Value(plan.lat, r) # Value(plan.lat, q) \/ Value(plan.lon, r) # Value(plan.lon, q)
             /\ trained.strategy = "group_holdout" => Value(plan.entity, r) # Value(plan.entity, q)
        /\ trained.strategy = "group_holdout" => plan.entity \in Names(SafeFrame)
    BY <1>1, <2>2, HoldoutFacts
  <2>4. HoldoutIsUnseen
    <3>1. /\ trained.train # {} /\ trained.train \cap trained.test = {}
          /\ trained.train \cup trained.test = Labelled
      BY <2>2, <2>3
    <3> QED
      BY <2>2, <2>3, <3>1 DEF HoldoutIsUnseen
  <2>5. AnswersHaveTheFeatures
    <3>1. trained.features \subseteq ArtifactColumns
      BY <1>1, <1>3, FeatureFacts
    <3> QED
      BY <3>1 DEF AnswersHaveTheFeatures, ModelInv
  <2> QED
    BY <2>1, <2>4, <2>5 DEF ModelSound
<1> QED
  BY <1>2, <1>3 DEF ModelInv

(* A trained model can be believed, whatever the datasets, the targets and    *)
(* tasks that callers ask for and the limits: its features tell nothing, the   *)
(* rows that judge it are unseen, as the strategy it was trained with (which   *)
(* need not be the planned one) holds them out, and an answer has every column *)
(* that it was fitted on.                                                    *)
THEOREM ModelIsSound == ModelTrainingSpec => []ModelSound
<1>1. TrainingInit => ModelInv
  BY ModelBegins
<1>2. ModelInv /\ [TrainingNext]_trainingVars => ModelInv'
  BY ModelStep
<1>3. ModelInv => ModelSound
  BY ModelInvSound
<1> QED
  BY <1>1, <1>2, <1>3, PTL DEF ModelTrainingSpec
-----------------------------------------------------------------------------
(***************************************************************************)
(* The analysis of the material flow, for any mine.                          *)
(*                                                                         *)
(* The argument: what a report says was read less than a ttl before the call  *)
(* that made it began, and the memo is as of that moment, so that a later     *)
(* call finds it less than two ttls old; and the stages that can constrain    *)
(* the flow all have the production of the shift for their throughput, so     *)
(* that the most utilised is the one with the least capacity.                *)
(***************************************************************************)

(* The stage that a report names runs out first.                            *)
Justified(report) ==
    report.named # "none" =>
        /\ report.named # "stockpile" /\ Measured(report.stages[report.named])
        /\ \A s \in Candidates(report.stages) :
              report.stages[s].throughput > 0 =>
                  report.stages[report.named].capacity - report.stages[report.named].throughput
                      <= report.stages[s].capacity - report.stages[s].throughput

FlowSteps == {"idle", "shift", "peaks", "fleet", "ceiling", "report", "told"}

(* What was recorded and what is remembered of it.                          *)
FlowRecords ==
    /\ flowNow \in Nat /\ shifts \in Seq(Shifts) /\ fleet \in Fleets
    /\ shiftMemo.at \in Int /\ shiftMemo.at <= flowNow
    /\ shiftMemo.shift = Null \/ shiftMemo.shift \in DOMAIN shifts
    /\ "peaks" \in DOMAIN aggregates =>
          aggregates["peaks"].peak \in Amount /\ aggregates["peaks"].available \in Amount
    /\ "fleet" \in DOMAIN aggregates => aggregates["fleet"] \in Fleets

FlowRemembered ==
    /\ flowMemo.at \in Int /\ flowMemo.at <= flowNow
    /\ flowMemo.report.asOf \in Int /\ flowMemo.at - flowMemo.report.asOf < FLOW_TTL
    /\ Justified(flowMemo.report)

(* How far an analysis has come and what it has read.                       *)
AnalysisFits(x) ==
    /\ x = [pc |-> x.pc, began |-> x.began, shift |-> x.shift, readAt |-> x.readAt, report |-> x.report]
    /\ x.pc \in FlowSteps
    /\ x.began \in Int /\ (x.pc # "idle" => x.began <= flowNow)
    /\ x.pc = "shift" => x.report = NoReport
    /\ x.pc \in {"peaks", "fleet", "ceiling", "report"} =>
          x.shift \in DOMAIN shifts /\ x.readAt \in Int /\ x.began - x.readAt < FLOW_TTL
    /\ x.pc \in {"fleet", "ceiling", "report"} => "peaks" \in DOMAIN aggregates
    /\ x.pc \in {"ceiling", "report"} => "fleet" \in DOMAIN aggregates
    /\ x.pc = "told" => x.report.asOf \in Int /\ x.began - x.report.asOf < 2 * FLOW_TTL
    /\ Justified(x.report)

FlowInv ==
    /\ FlowRecords /\ FlowRemembered
    /\ DOMAIN analysis = Analysts /\ analysis = [a \in Analysts |-> analysis[a]]
    /\ \A a \in Analysts : AnalysisFits(analysis[a])

-----------------------------------------------------------------------------
(* What was recorded of a field, in order, is natural numbers.               *)
LEMMA AscendingFacts ==
    ASSUME shifts \in Seq(Shifts), NEW rows \in SUBSET (DOMAIN shifts),
           NEW field \in {"actual", "loading", "stock"}, \A i \in rows : shifts[i][field] # Null
    PROVE  Ascending(field, rows) \in Seq(Nat)
<1> DEFINE v(i) == shifts[i][field]
           before == {p \in rows \X rows : v(p[1]) < v(p[2]) \/ (v(p[1]) = v(p[2]) /\ p[1] < p[2])}
           order == InOrder(rows, before)
<1>1. \A i \in rows : v(i) \in Nat /\ i \in Nat
  <2> SUFFICES ASSUME NEW i \in rows PROVE v(i) \in Nat /\ i \in Nat
    OBVIOUS
  <2>1. shifts[i] \in Shifts /\ i \in Nat
    OBVIOUS
  <2>2. v(i) \in Amount
    <3>1. shifts[i].actual \in Amount /\ shifts[i].loading \in Amount /\ shifts[i].stock \in Amount
      BY <2>1, FlowAssumption
    <3>2. CASE field = "actual"
      BY <3>1, <3>2
    <3>3. CASE field = "loading"
      BY <3>1, <3>3
    <3>4. CASE field = "stock"
      BY <3>1, <3>4
    <3> QED
      BY <3>2, <3>3, <3>4
  <2> QED
    BY <2>1, <2>2 DEF Amount
<1> HIDE DEF v
<1>2. \A x, y \in rows : <<x, y>> \in before <=> v(x) < v(y) \/ (v(x) = v(y) /\ x < y)
  <2> SUFFICES ASSUME NEW x \in rows, NEW y \in rows
               PROVE  <<x, y>> \in before <=> v(x) < v(y) \/ (v(x) = v(y) /\ x < y)
    OBVIOUS
  <2> DEFINE p == <<x, y>>
  <2>1. p \in rows \X rows /\ p[1] = x /\ p[2] = y
    OBVIOUS
  <2> HIDE DEF p
  <2>2. p \in before <=> v(x) < v(y) \/ (v(x) = v(y) /\ x < y)
    BY <2>1
  <2> QED
    BY <2>2 DEF p
<1> HIDE DEF before
<1>3. Orders(before, rows)
  <2>1. \A x \in rows : <<x, x>> \notin before
    BY <1>1, <1>2
  <2>2. \A x, y, z \in rows : <<x, y>> \in before /\ <<y, z>> \in before => <<x, z>> \in before
    BY <1>1, <1>2
  <2>3. \A x, y \in rows : x = y \/ <<x, y>> \in before \/ <<y, x>> \in before
    <3> SUFFICES ASSUME NEW x \in rows, NEW y \in rows, x # y
                 PROVE  <<x, y>> \in before \/ <<y, x>> \in before
      OBVIOUS
    <3>1. v(x) < v(y) \/ v(y) < v(x) \/ (v(x) = v(y) /\ (x < y \/ y < x))
      BY <1>1
    <3> QED
      BY <1>2, <3>1
  <2> QED
    BY <2>1, <2>2, <2>3 DEF Orders
<1>4. IsFiniteSet(rows)
  <2>1. IsFiniteSet(1 .. Len(shifts)) /\ DOMAIN shifts = 1 .. Len(shifts)
    BY FS_Interval
  <2> QED
    BY <2>1, FS_Subset
<1>5. order \in Seq(rows)
  BY <1>3, <1>4, InOrderFacts
<1> HIDE DEF order
<1>6. [n \in DOMAIN order |-> v(order[n])] \in Seq(Nat)
  <2>1. Len(order) \in Nat /\ DOMAIN order = 1 .. Len(order) /\ \A n \in DOMAIN order : order[n] \in rows
    BY <1>5
  <2>2. [n \in DOMAIN order |-> v(order[n])] \in [1 .. Len(order) -> Nat]
    BY <1>1, <2>1
  <2> QED
    BY <2>1, <2>2
<1> QED
  BY <1>6, Zenon DEF Ascending, order, before, v

(* The aggregates of what was recorded are amounts.                         *)
LEMMA PercentileFacts ==
    ASSUME NEW values \in Seq(Nat)
    PROVE  Percentile95(values) \in Amount
<1> DEFINE L == Len(values)
           place == 95 * (L - 1)
           below == place \div 100 + 1
           part == place % 100
<1>1. CASE values = <<>>
  BY <1>1 DEF Percentile95, Amount
<1>2. CASE values # <<>>
  <2>1. L \in Nat /\ L >= 1
    BY <1>2
  <2>2. below \in 1 .. L /\ part \in 0 .. 99 /\ (part # 0 => below + 1 \in 1 .. L)
    <3> HIDE DEF L
    <3> QED
      BY <2>1, SMTT(30)
  <2>3. Percentile95(values) =
           IF part = 0 THEN values[below]
           ELSE (values[below] * (100 - part) + values[below + 1] * part) \div 100
    BY <1>2 DEF Percentile95
  <2>4. \A n \in 1 .. L : values[n] \in Nat
    OBVIOUS
  <2> HIDE DEF L, below, part, place
  <2>5. values[below] \in Nat /\ (part # 0 => values[below + 1] \in Nat)
    BY <2>2, <2>4
  <2>6. ASSUME part # 0
        PROVE  (values[below] * (100 - part) + values[below + 1] * part) \div 100 \in Nat
    <3>1. values[below] * (100 - part) \in Nat /\ values[below + 1] * part \in Nat
      BY <2>2, <2>5, <2>6
    <3>2. \A x, y \in Nat : (x + y) \div 100 \in Nat
      OBVIOUS
    <3> QED
      BY <3>1, <3>2
  <2> QED
    BY <2>3, <2>5, <2>6 DEF Amount
<1> QED
  BY <1>1, <1>2

(* So is the average.                                                        *)
LEMMA AverageFacts ==
    ASSUME NEW values \in Seq(Nat)
    PROVE  Average(values) \in Amount
<1>1. Total(values) \in Nat
  <2>1. 0 \in Nat /\ \A x, y \in Nat : x + y \in Nat
    OBVIOUS
  <2> QED
    BY <2>1, TotalFacts
<1>2. values # <<>> => Len(values) \in Nat \ {0}
  OBVIOUS
<1>3. \A x \in Nat, y \in Nat \ {0} : x \div y \in Nat
  BY SMTT(30)
<1> QED
  BY <1>1, <1>2, <1>3 DEF Average, Amount

(* A stage that can constrain the flow has the production of its shift for    *)
(* its throughput.                                                          *)
LEMMA StageFacts ==
    ASSUME FlowRecords, {"peaks", "fleet"} \subseteq DOMAIN aggregates,
           NEW shift \in Shifts, NEW s \in Stages \ {"stockpile"},
           Measured(StagesOf(shift)[s])
    PROVE  /\ shift.actual \in Nat
           /\ StagesOf(shift)[s].throughput = shift.actual
           /\ StagesOf(shift)[s].capacity \in Nat
<1> DEFINE f == aggregates["fleet"]
           peak == aggregates["peaks"].peak
           usual == aggregates["peaks"].available
           here == StagesOf(shift)[s]
<1>1. /\ shift.actual \in Amount /\ shift.ore \in Amount /\ shift.plant \in Amount /\ shift.loading \in Amount
      /\ shift.cycle \in Amount /\ shift.queue \in Nat /\ shift.hours \in Amount /\ shift.active \in Amount
  BY FlowAssumption
<1>2. f.machines \in Nat /\ f.trucks \in Nat /\ f.payload \in Amount
  BY FlowAssumption DEF FlowRecords
<1>3. peak \in Amount /\ usual \in Amount
  BY DEF FlowRecords
<1>4. s \in {"face", "loading", "haulage", "processing"}
  <2>1. Stages = {"face", "loading", "haulage", "processing", "stockpile"}
    BY DEF Stages, StageOrder, Range
  <2> QED
    BY <2>1
<1>5. here.throughput # Null /\ here.capacity # Null
  BY DEF Measured
<1> HIDE DEF f, peak, usual
<1>6. CASE s = "face"
  <2>1. here = Face(shift)
    BY <1>6 DEF StagesOf
  <2>2. here = Stage(shift.actual, shift.ore) /\ shift.ore # Null
    BY <1>5, <2>1 DEF Face, Unavailable
  <2> QED
    BY <1>1, <1>5, <2>2 DEF Stage, Amount
<1>7. CASE s = "processing"
  <2>1. here = Processing(shift)
    BY <1>7 DEF StagesOf
  <2>2. here = Stage(shift.actual, shift.plant) /\ shift.plant # Null
    BY <1>5, <2>1 DEF Processing, Unavailable
  <2> QED
    BY <1>1, <1>5, <2>2 DEF Stage, Amount
<1>8. CASE s = "loading"
  <2>1. here = Loading(shift)
    BY <1>8 DEF StagesOf
  <2>2. peak # Null /\ shift.actual # Null
    BY <1>5, <2>1 DEF Loading, Unavailable, peak, usual
  <2>3. here = IF shift.loading = Null \/ usual \in {Null, 0} THEN Stage(shift.actual, peak)
               ELSE Stage(shift.actual, (peak * shift.loading) \div usual)
    BY <2>1, <2>2 DEF Loading, peak, usual
  <2>4. peak \in Nat /\ shift.actual \in Nat
    BY <1>1, <1>3, <2>2 DEF Amount
  <2>5. ASSUME shift.loading # Null, usual \notin {Null, 0} PROVE (peak * shift.loading) \div usual \in Nat
    <3>1. shift.loading \in Nat /\ usual \in Nat \ {0}
      BY <1>1, <1>3, <2>5 DEF Amount
    <3>2. peak * shift.loading \in Nat
      BY <2>4, <3>1
    <3>3. \A x \in Nat, y \in Nat \ {0} : x \div y \in Nat
      BY SMTT(30)
    <3> QED
      BY <3>1, <3>2, <3>3
  <2> QED
    BY <2>3, <2>4, <2>5 DEF Stage
<1>9. CASE s = "haulage"
  <2> DEFINE made == shift.active * f.trucks * shift.hours * 60 * f.payload
             minutes == shift.cycle + shift.queue
  <2>1. here = Haulage(shift)
    BY <1>9 DEF StagesOf
  <2>2. /\ Null \notin {shift.cycle, shift.hours, shift.active, f.payload}
        /\ f.machines # 0 /\ ~(minutes <= 0)
        /\ here = Stage(shift.actual, made \div (f.machines * minutes))
    BY <1>5, <2>1 DEF Haulage, Unavailable, f
  <2>3. /\ shift.cycle \in Nat /\ shift.hours \in Nat /\ shift.active \in Nat /\ f.payload \in Nat
        /\ f.machines \in Nat \ {0} /\ f.trucks \in Nat
    BY <1>1, <1>2, <2>2 DEF Amount
  <2>4. made \in Nat
    <3>1. \A x, y \in Nat : x * y \in Nat
      OBVIOUS
    <3> QED
      BY <2>3, <3>1
  <2>5. f.machines * minutes \in Nat \ {0}
    <3>1. minutes \in Nat \ {0}
      BY <1>1, <2>2, <2>3
    <3>2. \A x, y \in Nat \ {0} : x * y \in Nat \ {0}
      BY SMTT(30)
    <3> QED
      BY <2>3, <3>1, <3>2
  <2>6. \A x \in Nat, y \in Nat \ {0} : x \div y \in Nat
    BY SMTT(30)
  <2> HIDE DEF made, minutes
  <2>7. made \div (f.machines * minutes) \in Nat
    BY <2>4, <2>5, <2>6
  <2>8. shift.actual \in Nat
    BY <1>1, <1>5, <2>2 DEF Amount, Stage
  <2> QED
    BY <2>2, <2>7, <2>8 DEF Stage
<1> QED
  BY <1>4, <1>6, <1>7, <1>8, <1>9

(* What is reported is justified.                                           *)
LEMMA ReportedFacts ==
    ASSUME FlowRecords, {"peaks", "fleet"} \subseteq DOMAIN aggregates,
           NEW shift \in Shifts, NEW asOf
    PROVE  Justified([stages |-> StagesOf(shift), named |-> Constraint(StagesOf(shift)), asOf |-> asOf])
<1> DEFINE stages == StagesOf(shift)
           named == Constraint(stages)
           found == {i \in DOMAIN StageOrder :
                        /\ StageOrder[i] \in Candidates(stages)
                        /\ \A t \in Candidates(stages) : ~MoreUtilised(stages[t], stages[StageOrder[i]])}
<1> SUFFICES ASSUME named # "none"
             PROVE  /\ named \in Candidates(stages)
                    /\ \A s \in Candidates(stages) :
                          stages[s].throughput > 0 =>
                              stages[named].capacity - stages[named].throughput
                                  <= stages[s].capacity - stages[s].throughput
  BY DEF Justified, Candidates
<1>1. found # {} /\ named = StageOrder[Min(found)]
  BY DEF Constraint
<1>2. Min(found) \in found
  <2>1. found \in SUBSET Nat
    BY DEF StageOrder
  <2> HIDE DEF found
  <2>2. \E n \in found : \A m \in found : n <= m
    BY <1>1, <2>1, LeastNumber
  <2> QED
    BY <2>2 DEF Min
<1>3. /\ named \in Candidates(stages)
      /\ \A t \in Candidates(stages) : ~MoreUtilised(stages[t], stages[named])
  BY <1>1, <1>2
<1> HIDE DEF named, found
<1>4. \A t \in Candidates(stages) :
         shift.actual \in Nat /\ stages[t].throughput = shift.actual /\ stages[t].capacity \in Nat
  BY StageFacts DEF Candidates
<1>5. \A x, c, d \in Nat : x > 0 /\ ~(x * c > x * d) => c <= d
  BY SMTT(30)
<1>6. ASSUME NEW s \in Candidates(stages), stages[s].throughput > 0
      PROVE  stages[named].capacity <= stages[s].capacity
  <2>1. ~(shift.actual * stages[named].capacity > shift.actual * stages[s].capacity)
    BY <1>3, <1>4 DEF MoreUtilised
  <2> QED
    BY <1>3, <1>4, <1>5, <1>6, <2>1
<1> HIDE DEF stages
<1> QED
  BY <1>3, <1>4, <1>6

-----------------------------------------------------------------------------
(* Nothing is recorded and nobody has asked.                                 *)
LEMMA FlowBegins == FlowInit => FlowInv
<1> SUFFICES ASSUME FlowInit PROVE FlowInv
  OBVIOUS
<1>1. FLOW_TTL \in Nat \ {0} /\ -FLOW_TTL \in Int /\ -FLOW_TTL <= 0 /\ -FLOW_TTL - 0 < FLOW_TTL
  BY FlowAssumption
<1>2. Justified(NoReport) /\ NoReport.asOf = 0
  BY DEF Justified, NoReport
<1>3. FlowRecords
  BY <1>1 DEF FlowInit, FlowRecords
<1>4. FlowRemembered
  <2>1. flowMemo.at = -FLOW_TTL /\ flowMemo.report = NoReport /\ flowNow = 0
    BY DEF FlowInit
  <2> QED
    BY <1>1, <1>2, <2>1 DEF FlowRemembered
<1>5. AnalysisFits(NoAnalysis)
  BY <1>2 DEF AnalysisFits, NoAnalysis, FlowSteps
<1>6. analysis = [a \in Analysts |-> NoAnalysis]
  BY DEF FlowInit
<1> QED
  BY <1>3, <1>4, <1>5, <1>6 DEF FlowInv

(* An analysis still fits when time goes on, shifts are added and the lru      *)
(* caches fill.                                                             *)
LEMMA StillFits ==
    ASSUME NEW x, AnalysisFits(x), flowNow \in Int, flowNow' \in Int, flowNow <= flowNow',
           DOMAIN shifts \subseteq DOMAIN shifts', DOMAIN aggregates \subseteq DOMAIN aggregates'
    PROVE  AnalysisFits(x)'
<1>1. (x.pc # "idle" => x.began <= flowNow) /\ x.began \in Int
  BY DEF AnalysisFits
<1>2. x.pc # "idle" => x.began <= flowNow'
  BY <1>1
<1> QED
  BY <1>2 DEF AnalysisFits, FlowSteps, Justified, Measured, Candidates, NoReport, Unavailable

(* One analysis moves, the others wait.                                     *)
LEMMA OneAnalysis ==
    ASSUME FlowInv, NEW a \in Analysts, NEW x, analysis' = [analysis EXCEPT ![a] = x],
           flowNow \in Int, flowNow' = flowNow, shifts' = shifts, DOMAIN aggregates \subseteq DOMAIN aggregates',
           FlowRecords', FlowRemembered', AnalysisFits(x)'
    PROVE  FlowInv'
<1>1. \A b \in Analysts : AnalysisFits(analysis[b])'
  <2> SUFFICES ASSUME NEW b \in Analysts PROVE AnalysisFits(analysis[b])'
    OBVIOUS
  <2>1. CASE b = a
    <3>1. analysis'[b] = x
      BY <2>1 DEF FlowInv
    <3> QED
      BY <3>1
  <2>2. CASE b # a
    <3>1. analysis'[b] = analysis[b]
      BY <2>2 DEF FlowInv
    <3>2. AnalysisFits(analysis[b])
      BY DEF FlowInv
    <3> QED
      BY <3>1, <3>2, StillFits
  <2> QED
    BY <2>1, <2>2
<1>2. DOMAIN analysis' = Analysts /\ analysis' = [b \in Analysts |-> analysis'[b]]
  BY DEF FlowInv
<1> QED
  BY <1>1, <1>2 DEF FlowInv

(* What the world does to the records.                                      *)
LEMMA WorldStep ==
    ASSUME FlowInv, FlowTick \/ RecordShift \/ FleetReports
    PROVE  FlowInv'
<1>1. FlowRecords /\ FlowRemembered /\ \A a \in Analysts : AnalysisFits(analysis[a])
  BY DEF FlowInv
<1>2. /\ flowNow \in Int /\ flowNow' \in Nat /\ flowNow <= flowNow'
      /\ UNCHANGED <<shiftMemo, flowMemo, aggregates, analysis>>
  BY <1>1 DEF FlowTick, RecordShift, FleetReports, FlowRecords
<1>3. shifts' \in Seq(Shifts) /\ DOMAIN shifts \subseteq DOMAIN shifts' /\ fleet' \in Fleets
  <2>1. CASE RecordShift
    <3>1. PICK s \in Shifts : shifts' = Append(shifts, s)
      BY <2>1 DEF RecordShift
    <3>2. shifts \in Seq(Shifts) /\ fleet' = fleet /\ fleet \in Fleets
      BY <1>1, <2>1 DEF FlowRecords, RecordShift
    <3>3. /\ shifts' \in Seq(Shifts) /\ DOMAIN shifts = 1 .. Len(shifts) /\ Len(shifts) \in Nat
          /\ DOMAIN shifts' = 1 .. (Len(shifts) + 1)
      BY <3>1, <3>2
    <3> QED
      BY <3>2, <3>3
  <2>2. CASE FlowTick \/ FleetReports
    BY <1>1, <2>2 DEF FlowTick, FleetReports, FlowRecords
  <2> QED
    BY <2>1, <2>2
<1>4. FlowRecords'
  <2>1. shiftMemo.at \in Int /\ shiftMemo.at <= flowNow'
    BY <1>1, <1>2 DEF FlowRecords
  <2>2. shiftMemo.shift = Null \/ shiftMemo.shift \in DOMAIN shifts'
    BY <1>1, <1>3 DEF FlowRecords
  <2>3. /\ "peaks" \in DOMAIN aggregates =>
             aggregates["peaks"].peak \in Amount /\ aggregates["peaks"].available \in Amount
        /\ "fleet" \in DOMAIN aggregates => aggregates["fleet"] \in Fleets
    BY <1>1 DEF FlowRecords
  <2> QED
    BY <1>2, <1>3, <2>1, <2>2, <2>3 DEF FlowRecords
<1>5. FlowRemembered'
  <2>1. flowMemo.at \in Int /\ flowMemo.at <= flowNow'
    BY <1>1, <1>2 DEF FlowRemembered
  <2> QED
    BY <1>1, <1>2, <2>1 DEF FlowRemembered, Justified, Measured, Candidates
<1>6. \A a \in Analysts : AnalysisFits(analysis[a])'
  <2> SUFFICES ASSUME NEW a \in Analysts PROVE AnalysisFits(analysis[a])'
    OBVIOUS
  <2>1. analysis'[a] = analysis[a]
    BY <1>2
  <2> QED
    BY <1>1, <1>2, <1>3, <2>1, StillFits
<1> QED
  BY <1>2, <1>4, <1>5, <1>6 DEF FlowInv

(* A call is answered from the memo, or begins.                             *)
LEMMA EnterStep ==
    ASSUME FlowInv, NEW a \in Analysts, AnalyseEnter(a)
    PROVE  FlowInv'
<1>1. FlowRecords /\ FlowRemembered /\ UNCHANGED <<flowNow, shifts, fleet, shiftMemo, flowMemo, aggregates>>
  BY DEF FlowInv, AnalyseEnter
<1>2. FlowRecords' /\ FlowRemembered'
  BY <1>1 DEF FlowRecords, FlowRemembered, Justified, Measured, Candidates
<1>3. PICK x : /\ x = IF flowNow - flowMemo.at < FLOW_TTL
                      THEN [NoAnalysis EXCEPT !.pc = "told", !.began = flowNow, !.report = flowMemo.report]
                      ELSE [NoAnalysis EXCEPT !.pc = "shift", !.began = flowNow]
               /\ analysis' = [analysis EXCEPT ![a] = x]
  BY DEF AnalyseEnter
<1>4. AnalysisFits(x)
  <2>1. /\ flowNow \in Nat /\ flowMemo.at \in Int /\ flowMemo.report.asOf \in Int /\ FLOW_TTL \in Nat
        /\ flowMemo.at - flowMemo.report.asOf < FLOW_TTL /\ Justified(flowMemo.report)
    BY <1>1, FlowAssumption DEF FlowRecords, FlowRemembered
  <2>2. CASE flowNow - flowMemo.at < FLOW_TTL
    <3>1. x = [pc |-> "told", began |-> flowNow, shift |-> Null, readAt |-> 0, report |-> flowMemo.report]
      BY <1>3, <2>2 DEF NoAnalysis
    <3>2. flowNow - flowMemo.report.asOf < 2 * FLOW_TTL
      BY <2>1, <2>2
    <3> QED
      BY <2>1, <3>1, <3>2 DEF AnalysisFits, FlowSteps
  <2>3. CASE ~(flowNow - flowMemo.at < FLOW_TTL)
    <3>1. x = [pc |-> "shift", began |-> flowNow, shift |-> Null, readAt |-> 0, report |-> NoReport]
      BY <1>3, <2>3 DEF NoAnalysis
    <3>2. Justified(NoReport)
      BY DEF Justified, NoReport
    <3> QED
      BY <2>1, <3>1, <3>2 DEF AnalysisFits, FlowSteps
  <2> QED
    BY <2>2, <2>3
<1>5. flowNow \in Int /\ flowNow' = flowNow /\ flowNow <= flowNow
  BY <1>1 DEF FlowRecords
<1>6. AnalysisFits(x)'
  BY <1>1, <1>4, <1>5, StillFits
<1> QED
  BY <1>1, <1>2, <1>3, <1>5, <1>6, OneAnalysis

(* The latest shift is read, through its memo.                              *)
LEMMA ShiftStep ==
    ASSUME FlowInv, NEW a \in Analysts, AnalyseShift(a)
    PROVE  FlowInv'
<1>1. /\ FlowRecords /\ FlowRemembered /\ AnalysisFits(analysis[a]) /\ analysis[a].pc = "shift"
      /\ UNCHANGED <<flowNow, shifts, fleet, aggregates>>
  BY DEF FlowInv, AnalyseShift
<1>2. /\ flowNow \in Nat /\ FLOW_TTL \in Nat \ {0} /\ shifts \in Seq(Shifts)
      /\ shiftMemo.at \in Int /\ shiftMemo.at <= flowNow
      /\ shiftMemo.shift = Null \/ shiftMemo.shift \in DOMAIN shifts
      /\ analysis[a].began \in Int /\ analysis[a].began <= flowNow
      /\ analysis[a].report = NoReport
  BY <1>1, FlowAssumption DEF FlowRecords, AnalysisFits
<1>3. /\ shiftMemo'.at \in Int /\ shiftMemo'.at <= flowNow /\ flowNow - shiftMemo'.at < FLOW_TTL
      /\ shiftMemo'.shift = Null \/ shiftMemo'.shift \in DOMAIN shifts
  <2>1. CASE flowNow - shiftMemo.at < FLOW_TTL
    BY <1>2, <2>1 DEF AnalyseShift
  <2>2. CASE ~(flowNow - shiftMemo.at < FLOW_TTL)
    <3>1. /\ shiftMemo'.at = flowNow
          /\ shiftMemo'.shift = IF shifts = <<>> THEN Null ELSE Len(shifts)
      BY <2>2 DEF AnalyseShift
    <3>2. shifts # <<>> => Len(shifts) \in DOMAIN shifts
      BY <1>2
    <3> QED
      BY <1>2, <3>1, <3>2
  <2> QED
    BY <2>1, <2>2
<1>4. analysis[a].began - shiftMemo'.at < FLOW_TTL /\ analysis[a].began - shiftMemo'.at < 2 * FLOW_TTL
  BY <1>2, <1>3
<1> DEFINE read == [NoReport EXCEPT !.asOf = shiftMemo'.at]
<1>5. read.asOf = shiftMemo'.at /\ Justified(read)
  BY DEF NoReport, Justified
<1>6. FlowRecords'
  BY <1>1, <1>3 DEF FlowRecords
<1>7. FlowRemembered'
  <2>1. CASE shiftMemo'.shift # Null
    <3>1. flowMemo' = flowMemo
      BY <2>1 DEF AnalyseShift
    <3> QED
      BY <1>1, <3>1 DEF FlowRemembered, Justified, Measured, Candidates
  <2>2. CASE shiftMemo'.shift = Null
    <3>1. flowMemo' = [at |-> analysis[a].began, report |-> read]
      BY <2>2 DEF AnalyseShift
    <3>2. flowMemo'.at = analysis[a].began /\ flowMemo'.report = read
      BY <3>1
    <3>3. Justified(flowMemo.report)'
      BY <1>5, <3>2 DEF Justified, Measured, Candidates
    <3> HIDE DEF read
    <3> QED
      BY <1>1, <1>2, <1>3, <1>4, <1>5, <3>2, <3>3 DEF FlowRemembered
  <2> QED
    BY <2>1, <2>2
<1>8. PICK x : /\ x = [analysis[a] EXCEPT !.shift = shiftMemo'.shift, !.readAt = shiftMemo'.at,
                                          !.pc = IF shiftMemo'.shift = Null THEN "told" ELSE "peaks",
                                          !.report = read]
               /\ analysis' = [analysis EXCEPT ![a] = x]
  <2>1. analysis' = [analysis EXCEPT ![a] =
                      [analysis[a] EXCEPT !.shift = shiftMemo'.shift, !.readAt = shiftMemo'.at,
                                          !.pc = IF shiftMemo'.shift = Null THEN "told" ELSE "peaks",
                                          !.report = read]]
    BY Zenon DEF AnalyseShift
  <2> QED
    BY <2>1, Zenon
<1>9. x = [pc |-> IF shiftMemo'.shift = Null THEN "told" ELSE "peaks", began |-> analysis[a].began,
           shift |-> shiftMemo'.shift, readAt |-> shiftMemo'.at, report |-> read]
  BY <1>1, <1>2, <1>8 DEF AnalysisFits
<1>10. AnalysisFits(x)
  <2>1. x.began \in Int /\ x.began <= flowNow /\ x.readAt = shiftMemo'.at /\ x.shift = shiftMemo'.shift
        /\ x.report = read /\ x.began = analysis[a].began
    BY <1>2, <1>9
  <2>2. x.pc = IF shiftMemo'.shift = Null THEN "told" ELSE "peaks"
    BY <1>9
  <2>3. x = [pc |-> x.pc, began |-> x.began, shift |-> x.shift, readAt |-> x.readAt, report |-> x.report]
    BY <1>9
  <2> HIDE DEF read
  <2> QED
    BY <1>3, <1>4, <1>5, <2>1, <2>2, <2>3 DEF AnalysisFits, FlowSteps
<1>11. flowNow \in Int /\ flowNow' = flowNow /\ flowNow <= flowNow
  BY <1>1, <1>2
<1>12. AnalysisFits(x)'
  BY <1>1, <1>10, <1>11, StillFits
<1> QED
  BY <1>1, <1>6, <1>7, <1>8, <1>11, <1>12, OneAnalysis

(* What a lru cache is filled with is of the kind it holds.                 *)
LEMMA ComputedFacts ==
    ASSUME FlowRecords
    PROVE  /\ Computed("peaks").peak \in Amount /\ Computed("peaks").available \in Amount
           /\ Computed("fleet") \in Fleets
<1>1. shifts \in Seq(Shifts)
  BY DEF FlowRecords
<1>2. Ascending("actual", Having({"actual"})) \in Seq(Nat)
  <2>1. Having({"actual"}) \in SUBSET (DOMAIN shifts) /\ \A i \in Having({"actual"}) : shifts[i]["actual"] # Null
    BY DEF Having
  <2> QED
    BY <1>1, <2>1, AscendingFacts
<1>3. Ascending("loading", Having({"actual", "loading"})) \in Seq(Nat)
  <2>1. /\ Having({"actual", "loading"}) \in SUBSET (DOMAIN shifts)
        /\ \A i \in Having({"actual", "loading"}) : shifts[i]["loading"] # Null
    BY DEF Having
  <2> QED
    BY <1>1, <2>1, AscendingFacts
<1>4. /\ Percentile95(Ascending("actual", Having({"actual"}))) \in Amount
      /\ Average(Ascending("loading", Having({"actual", "loading"}))) \in Amount
  BY <1>2, <1>3, PercentileFacts, AverageFacts
<1>5. Computed("peaks") = [peak |-> Percentile95(Ascending("actual", Having({"actual"}))),
                           available |-> Average(Ascending("loading", Having({"actual", "loading"})))]
  BY DEF Computed
<1>6. Computed("fleet") = fleet /\ fleet \in Fleets
  BY DEF Computed, FlowRecords
<1> QED
  BY <1>4, <1>5, <1>6

(* An empty lru cache is filled, or the full one is used.                    *)
LEMMA AggregateStep ==
    ASSUME FlowInv, NEW a \in Analysts, NEW name \in Aggregates, AnalyseAggregate(a, name)
    PROVE  FlowInv'
<1>1. /\ FlowRecords /\ FlowRemembered /\ AnalysisFits(analysis[a]) /\ analysis[a].pc = name
      /\ UNCHANGED <<flowNow, shifts, fleet, shiftMemo, flowMemo>>
  BY DEF FlowInv, AnalyseAggregate
<1>2. name \in {"peaks", "fleet", "ceiling"}
  BY DEF Aggregates
<1>3. DOMAIN aggregates \subseteq DOMAIN aggregates' /\ (name \in {"peaks", "fleet"} => name \in DOMAIN aggregates')
  <2>1. \/ aggregates' = aggregates /\ (name \in DOMAIN aggregates \/ name = "ceiling")
        \/ DOMAIN aggregates' = DOMAIN aggregates \cup {name}
    BY DEF AnalyseAggregate
  <2> QED
    BY <2>1
<1>4. \A n \in DOMAIN aggregates' :
         aggregates'[n] = Computed(n) \/ (n \in DOMAIN aggregates /\ aggregates'[n] = aggregates[n])
  BY DEF AnalyseAggregate
<1>5. FlowRecords'
  <2>1. "peaks" \in DOMAIN aggregates' =>
           aggregates'["peaks"].peak \in Amount /\ aggregates'["peaks"].available \in Amount
    BY <1>1, <1>4, ComputedFacts DEF FlowRecords
  <2>2. "fleet" \in DOMAIN aggregates' => aggregates'["fleet"] \in Fleets
    BY <1>1, <1>4, ComputedFacts DEF FlowRecords
  <2> QED
    BY <1>1, <2>1, <2>2 DEF FlowRecords
<1>6. FlowRemembered'
  BY <1>1 DEF FlowRemembered, Justified, Measured, Candidates
<1>7. PICK next : next = CASE name = "peaks" -> "fleet" [] name = "fleet" -> "ceiling" [] name = "ceiling" -> "report"
  OBVIOUS
<1>8. PICK x : x = [analysis[a] EXCEPT !.pc = next] /\ analysis' = [analysis EXCEPT ![a] = x]
  BY <1>7, Zenon DEF AnalyseAggregate
<1>9. x = [pc |-> next, began |-> analysis[a].began, shift |-> analysis[a].shift,
           readAt |-> analysis[a].readAt, report |-> analysis[a].report]
  BY <1>1, <1>8 DEF AnalysisFits
<1>10. flowNow \in Int /\ flowNow' = flowNow
  BY <1>1 DEF FlowRecords
<1>11. AnalysisFits(x)'
  <2>1. /\ analysis[a].began \in Int /\ analysis[a].began <= flowNow
        /\ analysis[a].shift \in DOMAIN shifts /\ analysis[a].readAt \in Int
        /\ analysis[a].began - analysis[a].readAt < FLOW_TTL
        /\ (name \in {"fleet", "ceiling"} => "peaks" \in DOMAIN aggregates)
        /\ (name = "ceiling" => "fleet" \in DOMAIN aggregates)
        /\ Justified(analysis[a].report)
    BY <1>1, <1>2 DEF AnalysisFits
  <2>2. /\ (name = "peaks" => next = "fleet") /\ (name = "fleet" => next = "ceiling")
        /\ (name = "ceiling" => next = "report")
    BY <1>7
  <2>3. /\ x.pc = next /\ x.began = analysis[a].began /\ x.shift = analysis[a].shift
        /\ x.readAt = analysis[a].readAt /\ x.report = analysis[a].report
        /\ x = [pc |-> x.pc, began |-> x.began, shift |-> x.shift, readAt |-> x.readAt, report |-> x.report]
    BY <1>9
  <2>4. next \in {"fleet", "ceiling", "report"} /\ "peaks" \in DOMAIN aggregates'
        /\ (next \in {"ceiling", "report"} => "fleet" \in DOMAIN aggregates')
    BY <1>2, <1>3, <2>1, <2>2
  <2> QED
    BY <1>1, <2>1, <2>3, <2>4 DEF AnalysisFits, FlowSteps, Justified, Measured, Candidates
<1> QED
  BY <1>1, <1>3, <1>5, <1>6, <1>8, <1>10, <1>11, OneAnalysis

(* The report is made, and memoised as of when its call began.              *)
LEMMA ReportStep ==
    ASSUME FlowInv, NEW a \in Analysts, AnalyseReport(a)
    PROVE  FlowInv'
<1>1. /\ FlowRecords /\ FlowRemembered /\ AnalysisFits(analysis[a]) /\ analysis[a].pc = "report"
      /\ UNCHANGED <<flowNow, shifts, fleet, shiftMemo, aggregates>>
  BY DEF FlowInv, AnalyseReport
<1>2. /\ flowNow \in Nat /\ FLOW_TTL \in Nat \ {0} /\ shifts \in Seq(Shifts)
      /\ analysis[a].began \in Int /\ analysis[a].began <= flowNow
      /\ analysis[a].shift \in DOMAIN shifts /\ analysis[a].readAt \in Int
      /\ analysis[a].began - analysis[a].readAt < FLOW_TTL
      /\ {"peaks", "fleet"} \subseteq DOMAIN aggregates
  BY <1>1, FlowAssumption DEF FlowRecords, AnalysisFits
<1>3. analysis[a].began - analysis[a].readAt < 2 * FLOW_TTL
  BY <1>2
<1>4. shifts[analysis[a].shift] \in Shifts
  BY <1>2
<1>5. PICK made : made = Reported(a)
  OBVIOUS
<1>6. made.asOf = analysis[a].readAt /\ Justified(made)
  <2>1. Justified(Reported(a))
    BY <1>1, <1>2, <1>4, ReportedFacts DEF Reported
  <2> QED
    BY <1>5, <2>1 DEF Reported
<1>7. FlowRecords'
  BY <1>1 DEF FlowRecords
<1>8. FlowRemembered'
  <2>1. flowMemo' = [at |-> analysis[a].began, report |-> made]
    BY <1>5 DEF AnalyseReport, Memoised
  <2>2. flowMemo'.at = analysis[a].began /\ flowMemo'.report = made
    BY <2>1
  <2>3. Justified(flowMemo.report)'
    BY <1>6, <2>2 DEF Justified, Measured, Candidates
  <2> QED
    BY <1>1, <1>2, <1>6, <2>2, <2>3 DEF FlowRemembered
<1>9. PICK x : /\ x = [analysis[a] EXCEPT !.pc = "told", !.report = made]
               /\ analysis' = [analysis EXCEPT ![a] = x]
  <2>1. analysis' = [analysis EXCEPT ![a] = [analysis[a] EXCEPT !.pc = "told", !.report = made]]
    BY <1>5, Zenon DEF AnalyseReport
  <2> QED
    BY <2>1, Zenon
<1>10. x = [pc |-> "told", began |-> analysis[a].began, shift |-> analysis[a].shift,
            readAt |-> analysis[a].readAt, report |-> made]
  BY <1>1, <1>9 DEF AnalysisFits
<1>11. AnalysisFits(x)
  BY <1>2, <1>3, <1>6, <1>10 DEF AnalysisFits, FlowSteps
<1>12. flowNow \in Int /\ flowNow' = flowNow /\ flowNow <= flowNow
  BY <1>1, <1>2
<1>13. AnalysisFits(x)'
  BY <1>1, <1>11, <1>12, StillFits
<1> QED
  BY <1>1, <1>7, <1>8, <1>9, <1>12, <1>13, OneAnalysis

(* A caller takes its report, or the error.                                 *)
LEMMA LeaveStep ==
    ASSUME FlowInv, NEW a \in Analysts, AnalyseRaises(a) \/ AnalyseTold(a)
    PROVE  FlowInv'
<1>1. /\ FlowRecords /\ FlowRemembered
      /\ UNCHANGED <<flowNow, shifts, fleet, shiftMemo, flowMemo, aggregates>>
      /\ analysis' = [analysis EXCEPT ![a] = NoAnalysis]
  BY DEF FlowInv, AnalyseRaises, AnalyseTold
<1>2. FlowRecords' /\ FlowRemembered'
  BY <1>1 DEF FlowRecords, FlowRemembered, Justified, Measured, Candidates
<1>3. PICK x : x = NoAnalysis
  OBVIOUS
<1>4. AnalysisFits(x)
  BY <1>3 DEF AnalysisFits, NoAnalysis, FlowSteps, Justified, NoReport
<1>5. flowNow \in Int /\ flowNow' = flowNow /\ flowNow <= flowNow
  BY <1>1 DEF FlowRecords
<1>6. AnalysisFits(x)'
  BY <1>1, <1>4, <1>5, StillFits
<1> QED
  BY <1>1, <1>2, <1>3, <1>5, <1>6, OneAnalysis

(* Every step keeps it.                                                     *)
LEMMA FlowStep ==
    ASSUME FlowInv, [FlowNext]_flowVars
    PROVE  FlowInv'
<1>1. CASE UNCHANGED flowVars
  <2>1. FlowRecords' /\ FlowRemembered'
    BY <1>1 DEF flowVars, FlowInv, FlowRecords, FlowRemembered, Justified, Measured, Candidates
  <2>2. \A a \in Analysts : AnalysisFits(analysis[a])'
    <3> SUFFICES ASSUME NEW a \in Analysts PROVE AnalysisFits(analysis[a])'
      OBVIOUS
    <3>1. flowNow \in Int /\ flowNow' = flowNow /\ flowNow <= flowNow
      BY <1>1 DEF flowVars, FlowInv, FlowRecords
    <3>2. analysis'[a] = analysis[a] /\ AnalysisFits(analysis[a]) /\ UNCHANGED <<shifts, aggregates>>
      BY <1>1 DEF flowVars, FlowInv
    <3> QED
      BY <3>1, <3>2, StillFits
  <2>3. DOMAIN analysis' = Analysts /\ analysis' = [a \in Analysts |-> analysis'[a]]
    BY <1>1 DEF flowVars, FlowInv
  <2> QED
    BY <2>1, <2>2, <2>3 DEF FlowInv
<1>2. CASE FlowTick \/ RecordShift \/ FleetReports
  BY <1>2, WorldStep
<1>3. ASSUME NEW a \in Analysts, AnalyseEnter(a) PROVE FlowInv'
  BY <1>3, EnterStep
<1>4. ASSUME NEW a \in Analysts, AnalyseShift(a) PROVE FlowInv'
  BY <1>4, ShiftStep
<1>5. ASSUME NEW a \in Analysts, NEW name \in Aggregates, AnalyseAggregate(a, name) PROVE FlowInv'
  BY <1>5, AggregateStep
<1>6. ASSUME NEW a \in Analysts, AnalyseReport(a) PROVE FlowInv'
  BY <1>6, ReportStep
<1>7. ASSUME NEW a \in Analysts, AnalyseRaises(a) \/ AnalyseTold(a) PROVE FlowInv'
  BY <1>7, LeaveStep
<1> QED
  BY <1>1, <1>2, <1>3, <1>4, <1>5, <1>6, <1>7 DEF FlowNext

(* What an analysis tells is less than two lifetimes of the memo old, and the  *)
(* stage it names is the first to run out, whatever the shifts and however the *)
(* calls, the memos and the lru caches interleave (bottleneck.py:482).        *)
THEOREM FlowIsSound == FlowSpec => []FlowSound
<1>1. FlowInit => FlowInv
  BY FlowBegins
<1>2. FlowInv /\ [FlowNext]_flowVars => FlowInv'
  BY FlowStep
<1>3. FlowInv => FlowSound
  <2> SUFFICES ASSUME FlowInv PROVE FlowSound
    OBVIOUS
  <2>1. \A a \in Analysts : AnalysisFits(analysis[a])
    BY DEF FlowInv
  <2>2. AnalysisAgeBounded
    BY <2>1 DEF AnalysisAgeBounded, AnalysisFits
  <2>3. NamedRunsOutFirst
    BY <2>1 DEF NamedRunsOutFirst, AnalysisFits, Justified
  <2> QED
    BY <2>2, <2>3 DEF FlowSound
<1> QED
  BY <1>1, <1>2, <1>3, PTL DEF FlowSpec

-----------------------------------------------------------------------------
(***************************************************************************)
(* The state that a mine is told and its queue, for any records and tonnages. *)
(*                                                                         *)
(* The argument: what each check can find is known from its kind, whatever    *)
(* the records say (Founded); a state is the worst severity that was found;   *)
(* and the backlog of maintenance and the open incidents have no tonnage, so  *)
(* that one of the two always ranks behind what is worse than it.            *)
(***************************************************************************)

(* What a check can find: its severities, and which findings have tonnages.   *)
Founded(c, f) ==
    /\ f.severity \in Severity /\ f.impact \in Int /\ f.backed \in BOOLEAN
    /\ c \notin {"production_gap", "open_incidents"} => f.severity # "CRITICAL"
    /\ c \in {"maintenance_overdue", "open_incidents"} => f.impact = Unknown
    /\ c \in {"equipment_risk", "maintenance_overdue", "open_incidents"} => f.backed = FALSE

(* The checks have read some of the records there were.                     *)
ReadFrom(f, lost) ==
    \E read \in [CheckKeys -> viewed] :
        f = [c \in CheckKeys |-> IF c \in lost THEN Insufficient("WATCH") ELSE Check(c, read[c])]

(* The severities that were evaluated.                                      *)
SeveritiesOf(f) == {f[c].severity : c \in {d \in CheckKeys : f[d].evaluated}}

MineInv ==
    /\ viewed \subseteq MineRecord /\ mine \in MineRecord /\ (viewed = {mine} => mine \in Mines)
    /\ told # "none" =>
         /\ ReadFrom(findings, failed)
         /\ told = StateFrom(SeveritiesOf(findings))
    /\ attention # NoQueue =>
         /\ told # "none"
         /\ \E lost \in BOOLEAN, limit \in Limits :
              attention = Listed(Queued(IF lost THEN [findings EXCEPT !["equipment_risk"].impact = Unknown]
                                        ELSE findings), limit)

-----------------------------------------------------------------------------
(* The severities are in an order.                                          *)
LEMMA RankFacts ==
    /\ Rank["NONE"] = 0 /\ Rank["WATCH"] = 1 /\ Rank["DISRUPTION"] = 2 /\ Rank["CRITICAL"] = 3
    /\ \A s \in Severity : s = "NONE" \/ s = "WATCH" \/ s = "DISRUPTION" \/ s = "CRITICAL"
BY DEF Rank, Severity

(* A state is one of the severities, or says there is nothing bad or nothing.  *)
LEMMA StateFacts ==
    ASSUME NEW S \in SUBSET Severity
    PROVE  /\ StateFrom(S) \in Severity \cup {"UNKNOWN", "NORMAL"}
           /\ StateFrom(S) = "CRITICAL" <=> "CRITICAL" \in S
           /\ StateFrom(S) = "NORMAL" => \A s \in S : s = "NONE"
           /\ StateFrom(S) \notin {"UNKNOWN", "NORMAL"} =>
                /\ StateFrom(S) \in S /\ StateFrom(S) # "NONE"
                /\ \A s \in S : Rank[s] <= Rank[StateFrom(S)]
<1>1. CASE S = {}
  BY <1>1 DEF StateFrom
<1>2. CASE S # {}
  <2>1. Worst(S) \in S /\ \A t \in S : Rank[t] <= Rank[Worst(S)]
    BY <1>2, WorstOf
  <2>2. "CRITICAL" \in S => Worst(S) = "CRITICAL"
    BY <2>1, RankFacts
  <2>3. Worst(S) = "NONE" => \A s \in S : s = "NONE"
    <3> SUFFICES ASSUME Worst(S) = "NONE", NEW s \in S PROVE s = "NONE"
      OBVIOUS
    <3>1. s \in Severity /\ Rank[s] <= Rank["NONE"]
      BY <2>1
    <3> QED
      BY <3>1, RankFacts
  <2> QED
    BY <1>2, <2>1, <2>2, <2>3, RankFacts DEF StateFrom, Severity
<1> QED
  BY <1>1, <1>2

(* A value is graded by the thresholds it reaches.                           *)
LEMMA GradedFacts ==
    ASSUME NEW value \in Int, NEW thresholds, DOMAIN thresholds \subseteq Severity \ {"NONE"}
    PROVE  /\ Graded(value, thresholds) \in Severity
           /\ Graded(value, thresholds) = "CRITICAL" <=>
                "CRITICAL" \in DOMAIN thresholds /\ value >= thresholds["CRITICAL"]
           /\ Graded(value, thresholds) = "NONE" => \A s \in DOMAIN thresholds : ~(value >= thresholds[s])
<1> DEFINE S == {"NONE"} \cup {s \in DOMAIN thresholds : value >= thresholds[s]}
<1>1. S \in SUBSET Severity /\ S # {}
  BY DEF Severity
<1>2. /\ "CRITICAL" \in S <=> "CRITICAL" \in DOMAIN thresholds /\ value >= thresholds["CRITICAL"]
      /\ (\A s \in S : s = "NONE") => \A s \in DOMAIN thresholds : ~(value >= thresholds[s])
  OBVIOUS
<1> HIDE DEF S
<1>3. Worst(S) \in S /\ \A t \in S : Rank[t] <= Rank[Worst(S)]
  BY <1>1, WorstOf
<1>4. /\ Worst(S) \in Severity /\ ("CRITICAL" \in S <=> Worst(S) = "CRITICAL")
      /\ (Worst(S) = "NONE" => \A s \in S : s = "NONE")
  BY <1>1, <1>3, RankFacts
<1> QED
  BY <1>2, <1>4 DEF Graded, S

(* The production of some shifts is a number of tonnes.                      *)
LEMMA SumFacts ==
    ASSUME NEW m \in MineRecord
    PROVE  Sum(m, "planned") \in Nat /\ Sum(m, "actual") \in Nat
<1>1. m.shifts \in Seq([planned : Nat, actual : Nat])
  BY DEF MineRecord
<1>2. /\ [i \in DOMAIN m.shifts |-> m.shifts[i]["planned"]] \in Seq(Nat)
      /\ [i \in DOMAIN m.shifts |-> m.shifts[i]["actual"]] \in Seq(Nat)
  <2>1. /\ DOMAIN m.shifts = 1 .. Len(m.shifts) /\ Len(m.shifts) \in Nat
        /\ \A i \in DOMAIN m.shifts : m.shifts[i].planned \in Nat /\ m.shifts[i].actual \in Nat
    <3> DEFINE s == m.shifts
    <3>1. DOMAIN s = 1 .. Len(s) /\ Len(s) \in Nat /\ \A i \in DOMAIN s : s[i] \in [planned : Nat, actual : Nat]
      <4> DEFINE T == [planned : Nat, actual : Nat]
      <4>1. s \in Seq(T)
        BY <1>1
      <4> HIDE DEF s, T
      <4>2. DOMAIN s = 1 .. Len(s) /\ Len(s) \in Nat /\ \A i \in DOMAIN s : s[i] \in T
        BY <4>1
      <4> QED
        BY <4>2 DEF T
    <3>2. \A x \in [planned : Nat, actual : Nat] : x.planned \in Nat /\ x.actual \in Nat
      OBVIOUS
    <3> QED
      BY <3>1, <3>2
  <2>2. /\ [i \in DOMAIN m.shifts |-> m.shifts[i].planned] \in [1 .. Len(m.shifts) -> Nat]
        /\ [i \in DOMAIN m.shifts |-> m.shifts[i].actual] \in [1 .. Len(m.shifts) -> Nat]
    BY <2>1
  <2> QED
    BY <2>1, <2>2
<1>3. 0 \in Nat /\ \A x, y \in Nat : x + y \in Nat
  OBVIOUS
<1> QED
  BY <1>2, <1>3, TotalFacts DEF Sum

(* The five checks and their places.                                        *)
LEMMA CheckNames ==
    /\ DOMAIN Checks = 1 .. 5
    /\ Checks[1] = "production_gap" /\ Checks[2] = "equipment_risk" /\ Checks[3] = "maintenance_overdue"
    /\ Checks[4] = "bottleneck" /\ Checks[5] = "open_incidents"
    /\ CheckKeys = {"production_gap", "equipment_risk", "maintenance_overdue", "bottleneck", "open_incidents"}
BY DEF Checks, CheckKeys, Range

(* The production that is missing.                                          *)
LEMMA GapFacts ==
    ASSUME NEW m \in MineRecord
    PROVE  /\ Founded("production_gap", ProductionCheck(m))
           /\ ProductionCheck(m).evaluated <=> Sum(m, "planned") > 0
           /\ Sum(m, "planned") > 0 =>
                LET missing(percent) == 100 * (Sum(m, "planned") - Sum(m, "actual")) >= percent * Sum(m, "planned")
                IN  /\ ProductionCheck(m).severity = "CRITICAL" <=> missing(25)
                    /\ ProductionCheck(m).severity = "NONE" => ~missing(5)
<1> DEFINE planned == Sum(m, "planned")
           gap == planned - Sum(m, "actual")
           th == Times(planned, GapThresholds)
           per == gap \div Len(m.shifts)
           graded == Graded(100 * gap, th)
<1>1. planned \in Nat /\ Sum(m, "actual") \in Nat /\ gap \in Int
  BY SumFacts
<1>2. CASE planned <= 0
  BY <1>1, <1>2 DEF ProductionCheck, Insufficient, Founded, Severity, Unknown
<1>3. CASE planned > 0
  <2>1. per \in Int
    <3>1. m.shifts \in Seq([planned : Nat, actual : Nat])
      BY DEF MineRecord
    <3>2. m.shifts # <<>>
      <4>1. ASSUME m.shifts = <<>> PROVE planned = 0
        <5>1. [i \in DOMAIN m.shifts |-> m.shifts[i]["planned"]] = <<>> /\ <<>> \in Seq({0})
          BY <4>1
        <5>2. 0 \in {0} /\ \A x, y \in {0} : x + y \in {0}
          OBVIOUS
        <5>3. Total(<<>>) \in {0}
          BY <5>1, <5>2, TotalFacts
        <5> QED
          BY <5>1, <5>3 DEF Sum
      <4> QED
        BY <1>3, <4>1
    <3>3. Len(m.shifts) \in Nat \ {0}
      BY <3>1, <3>2
    <3> HIDE DEF gap
    <3>4. \A x \in Int, y \in Nat \ {0} : x \div y \in Int
      BY SMTT(30)
    <3> QED
      BY <1>1, <3>3, <3>4
  <2>2. /\ DOMAIN th = {"WATCH", "DISRUPTION", "CRITICAL"}
        /\ th["CRITICAL"] = planned * 25 /\ th["WATCH"] = planned * 5
    BY DEF Times, GapThresholds
  <2>3. DOMAIN th \subseteq Severity \ {"NONE"} /\ 100 * gap \in Int
    BY <1>1, <2>2 DEF Severity
  <2>4. ProductionCheck(m) = [severity |-> graded, evaluated |-> TRUE, impact |-> per, backed |-> TRUE]
    BY <1>1, <1>3 DEF ProductionCheck, Finding
  <2> HIDE DEF th, gap, planned, per
  <2>5. /\ graded \in Severity
        /\ graded = "CRITICAL" <=> 100 * gap >= th["CRITICAL"]
        /\ graded = "NONE" => ~(100 * gap >= th["WATCH"])
    BY <2>2, <2>3, GradedFacts
  <2>6. planned * 25 = 25 * planned /\ planned * 5 = 5 * planned
    BY <1>1
  <2>7. Founded("production_gap", ProductionCheck(m))
    BY <2>1, <2>4, <2>5 DEF Founded
  <2> HIDE DEF graded
  <2>8. ProductionCheck(m).evaluated /\ ProductionCheck(m).severity = graded
    BY <2>4
  <2> QED
    BY <1>3, <2>2, <2>5, <2>6, <2>7, <2>8 DEF planned, gap
<1> HIDE DEF planned
<1> QED
  BY <1>1, <1>2, <1>3

(* The machines that are flagged.                                           *)
LEMMA MachineFacts ==
    ASSUME NEW m \in MineRecord
    PROVE  /\ Founded("equipment_risk", EquipmentCheck(m))
           /\ EquipmentCheck(m).evaluated <=> m.machines # 0
           /\ m.machines # 0 /\ EquipmentCheck(m).severity = "NONE" => 100 * m.flagged < 35 * m.machines
<1> DEFINE th == Times(m.machines, ShareThresholds)
           graded == Graded(100 * m.flagged, th)
           stake == IF m.flagged = 0 THEN Unknown ELSE m.flagged * m.output
<1>1. m.machines \in Nat /\ m.flagged \in Nat /\ m.output \in Nat
  BY DEF MineRecord
<1>2. CASE m.machines = 0
  BY <1>2 DEF EquipmentCheck, Insufficient, Founded, Severity, Unknown
<1>3. CASE m.machines # 0
  <2>1. DOMAIN th = {"WATCH", "DISRUPTION"} /\ th["WATCH"] = m.machines * 35
    BY DEF Times, ShareThresholds
  <2>2. DOMAIN th \subseteq Severity \ {"NONE"} /\ 100 * m.flagged \in Int /\ "CRITICAL" \notin DOMAIN th
    BY <1>1, <2>1 DEF Severity
  <2>3. EquipmentCheck(m) = [severity |-> graded, evaluated |-> TRUE, impact |-> stake, backed |-> FALSE]
    BY <1>3 DEF EquipmentCheck, Finding
  <2>4. stake \in Int
    BY <1>1 DEF Unknown
  <2> HIDE DEF th, stake
  <2>5. /\ graded \in Severity /\ graded # "CRITICAL"
        /\ graded = "NONE" => ~(100 * m.flagged >= th["WATCH"])
    BY <2>1, <2>2, GradedFacts
  <2> HIDE DEF graded
  <2> QED
    BY <1>1, <1>3, <2>1, <2>3, <2>4, <2>5 DEF Founded
<1> QED
  BY <1>2, <1>3

(* The maintenance that is overdue.                                          *)
LEMMA OverdueFacts ==
    ASSUME NEW m \in MineRecord
    PROVE  /\ Founded("maintenance_overdue", MaintenanceCheck(m))
           /\ MaintenanceCheck(m).evaluated <=> m.overdue # Unknown
           /\ m.overdue # Unknown /\ MaintenanceCheck(m).severity = "NONE" => m.overdue < 7
<1> DEFINE graded == Graded(m.overdue, OverdueThresholds)
<1>1. m.overdue \in Int
  BY DEF MineRecord, Unknown
<1>2. CASE m.overdue = Unknown
  BY <1>2 DEF MaintenanceCheck, Insufficient, Founded, Severity, Unknown
<1>3. CASE m.overdue # Unknown
  <2>1. DOMAIN OverdueThresholds = {"WATCH", "DISRUPTION"} /\ OverdueThresholds["WATCH"] = 7
    BY DEF OverdueThresholds
  <2>2. DOMAIN OverdueThresholds \subseteq Severity \ {"NONE"} /\ "CRITICAL" \notin DOMAIN OverdueThresholds
    BY <2>1 DEF Severity
  <2>3. MaintenanceCheck(m) = [severity |-> graded, evaluated |-> TRUE, impact |-> Unknown, backed |-> FALSE]
    BY <1>3 DEF MaintenanceCheck, Finding
  <2>4. /\ graded \in Severity /\ graded # "CRITICAL"
        /\ graded = "NONE" => ~(m.overdue >= OverdueThresholds["WATCH"])
    BY <1>1, <2>1, <2>2, GradedFacts
  <2> HIDE DEF graded
  <2> QED
    BY <1>1, <1>3, <2>1, <2>3, <2>4 DEF Founded, Unknown
<1> QED
  BY <1>2, <1>3

(* The stage that constrains the flow.                                       *)
LEMMA StageFounded ==
    ASSUME NEW m \in MineRecord
    PROVE  Founded("bottleneck", BottleneckCheck(m))
<1> DEFINE th == Times(m.capacity, UtilisationThresholds)
           graded == Graded(100 * m.throughput, th)
           beyond == m.throughput > m.capacity
           headroom == IF beyond THEN m.throughput - m.capacity ELSE m.capacity - m.throughput
<1>1. m.capacity \in Int /\ m.throughput \in Nat
  BY DEF MineRecord, Unknown
<1>2. CASE m.capacity = Unknown
  BY <1>2 DEF BottleneckCheck, Insufficient, Founded, Severity, Unknown
<1>3. CASE m.capacity # Unknown
  <2>1. DOMAIN th = {"WATCH", "DISRUPTION"}
    BY DEF Times, UtilisationThresholds
  <2>2. DOMAIN th \subseteq Severity \ {"NONE"} /\ 100 * m.throughput \in Int /\ "CRITICAL" \notin DOMAIN th
    BY <1>1, <2>1 DEF Severity
  <2>3. BottleneckCheck(m) = [severity |-> graded, evaluated |-> TRUE, impact |-> headroom, backed |-> ~beyond]
    BY <1>3 DEF BottleneckCheck, Finding
  <2>4. headroom \in Int /\ (~beyond) \in BOOLEAN
    BY <1>1
  <2> HIDE DEF th, headroom
  <2>5. graded \in Severity /\ graded # "CRITICAL"
    BY <2>2, GradedFacts
  <2> HIDE DEF graded, beyond
  <2> QED
    BY <2>3, <2>4, <2>5 DEF Founded
<1> QED
  BY <1>2, <1>3

(* The incidents that are open.                                             *)
LEMMA IncidentFacts ==
    ASSUME NEW m \in MineRecord
    PROVE  /\ Founded("open_incidents", IncidentCheck(m)) /\ IncidentCheck(m).evaluated
           /\ IncidentCheck(m).severity = "CRITICAL" <=> "CRITICAL" \in m.incidents
           /\ IncidentCheck(m).severity = "NONE" => m.incidents = {}
<1> DEFINE worst == CASE "CRITICAL" \in m.incidents -> "CRITICAL"
                      [] "HIGH" \in m.incidents /\ "CRITICAL" \notin m.incidents -> "DISRUPTION"
                      [] m.incidents # {} /\ m.incidents \cap {"HIGH", "CRITICAL"} = {} -> "WATCH"
                      [] OTHER -> "NONE"
<1>1. IncidentCheck(m) = [severity |-> worst, evaluated |-> TRUE, impact |-> Unknown, backed |-> FALSE]
  BY DEF IncidentCheck, Finding
<1>2. CASE "CRITICAL" \in m.incidents
  <2>1. worst = "CRITICAL"
    BY <1>2
  <2> QED
    BY <1>1, <1>2, <2>1 DEF Founded, Severity, Unknown
<1>3. CASE "CRITICAL" \notin m.incidents /\ "HIGH" \in m.incidents
  <2>1. worst = "DISRUPTION"
    BY <1>3
  <2> QED
    BY <1>1, <1>3, <2>1 DEF Founded, Severity, Unknown
<1>4. CASE m.incidents # {} /\ m.incidents \cap {"HIGH", "CRITICAL"} = {}
  <2>1. worst = "WATCH"
    BY <1>4
  <2> QED
    BY <1>1, <1>4, <2>1 DEF Founded, Severity, Unknown
<1>5. CASE m.incidents = {}
  <2>1. worst = "NONE"
    BY <1>5
  <2> QED
    BY <1>1, <1>5, <2>1 DEF Founded, Severity, Unknown
<1> QED
  BY <1>2, <1>3, <1>4, <1>5

(* Whatever it reads, a check finds what is founded for its kind.            *)
LEMMA CheckFacts ==
    ASSUME NEW m \in MineRecord, NEW c \in CheckKeys
    PROVE  Founded(c, Check(c, m))
<1>1. /\ Check("production_gap", m) = ProductionCheck(m) /\ Check("equipment_risk", m) = EquipmentCheck(m)
      /\ Check("maintenance_overdue", m) = MaintenanceCheck(m) /\ Check("bottleneck", m) = BottleneckCheck(m)
      /\ Check("open_incidents", m) = IncidentCheck(m)
  BY DEF Check
<1> QED
  BY <1>1, GapFacts, MachineFacts, OverdueFacts, StageFounded, IncidentFacts, CheckNames

(* So is everything that is found.                                          *)
LEMMA FindingFacts ==
    ASSUME viewed \subseteq MineRecord, NEW f, NEW lost, ReadFrom(f, lost)
    PROVE  /\ DOMAIN f = CheckKeys /\ \A c \in CheckKeys : Founded(c, f[c])
           /\ SeveritiesOf(f) \in SUBSET Severity
<1>1. PICK read \in [CheckKeys -> viewed] :
         f = [c \in CheckKeys |-> IF c \in lost THEN Insufficient("WATCH") ELSE Check(c, read[c])]
  BY DEF ReadFrom
<1>2. ASSUME NEW c \in CheckKeys PROVE Founded(c, f[c])
  <2>1. CASE c \in lost
    <3>1. f[c] = [severity |-> "WATCH", evaluated |-> FALSE, impact |-> Unknown, backed |-> FALSE]
      BY <1>1, <2>1 DEF Insufficient
    <3> QED
      BY <3>1 DEF Founded, Severity, Unknown
  <2>2. CASE c \notin lost
    <3>1. f[c] = Check(c, read[c]) /\ read[c] \in MineRecord
      BY <1>1, <2>2
    <3> QED
      BY <3>1, CheckFacts
  <2> QED
    BY <2>1, <2>2
<1> QED
  BY <1>1, <1>2 DEF SeveritiesOf, Founded

(* Records that stay as they are tell the state they warrant.                *)
LEMMA WarrantedFacts ==
    ASSUME mine \in MineRecord, viewed = {mine}, failed = {}, ReadFrom(findings, failed),
           told = StateFrom(SeveritiesOf(findings))
    PROVE  ToldStateIsWarranted
<1>1. findings = [c \in CheckKeys |-> Check(c, mine)]
  BY DEF ReadFrom
<1>2. /\ findings["production_gap"] = ProductionCheck(mine) /\ findings["equipment_risk"] = EquipmentCheck(mine)
      /\ findings["maintenance_overdue"] = MaintenanceCheck(mine)
      /\ findings["bottleneck"] = BottleneckCheck(mine) /\ findings["open_incidents"] = IncidentCheck(mine)
  BY <1>1, CheckNames DEF Check
<1>3. SeveritiesOf(findings) \in SUBSET Severity
  BY FindingFacts
<1>4. "CRITICAL" \in SeveritiesOf(findings) <=>
         \/ "CRITICAL" \in mine.incidents
         \/ /\ Sum(mine, "planned") > 0
            /\ 100 * (Sum(mine, "planned") - Sum(mine, "actual")) >= 25 * Sum(mine, "planned")
  <2>1. \A c \in {"equipment_risk", "maintenance_overdue", "bottleneck"} : findings[c].severity # "CRITICAL"
    BY <1>2, MachineFacts, OverdueFacts, StageFounded DEF Founded
  <2>2. "CRITICAL" \in SeveritiesOf(findings) <=>
           \E c \in {"production_gap", "open_incidents"} : findings[c].evaluated /\ findings[c].severity = "CRITICAL"
    BY <2>1, CheckNames DEF SeveritiesOf
  <2> QED
    BY <1>2, <2>2, GapFacts, IncidentFacts
<1>5. ASSUME \A s \in SeveritiesOf(findings) : s = "NONE"
      PROVE  /\ mine.incidents = {} /\ mine.overdue < 7
             /\ Sum(mine, "planned") > 0 =>
                   ~(100 * (Sum(mine, "planned") - Sum(mine, "actual")) >= 5 * Sum(mine, "planned"))
             /\ mine.machines > 0 => 100 * mine.flagged < 35 * mine.machines
  <2>1. \A c \in CheckKeys : findings[c].evaluated => findings[c].severity = "NONE"
    BY <1>5 DEF SeveritiesOf
  <2>2. mine.incidents = {}
    BY <1>2, <2>1, IncidentFacts, CheckNames
  <2>3. mine.overdue < 7
    BY <1>2, <2>1, OverdueFacts, CheckNames DEF Unknown
  <2>4. Sum(mine, "planned") > 0 =>
           ~(100 * (Sum(mine, "planned") - Sum(mine, "actual")) >= 5 * Sum(mine, "planned"))
    BY <1>2, <2>1, GapFacts, CheckNames
  <2>5. mine.machines > 0 => 100 * mine.flagged < 35 * mine.machines
    <3>1. mine.machines > 0 => mine.machines # 0
      OBVIOUS
    <3> QED
      BY <1>2, <2>1, <3>1, MachineFacts, CheckNames
  <2> QED
    BY <2>2, <2>3, <2>4, <2>5
<1>6. /\ told = "CRITICAL" <=> "CRITICAL" \in SeveritiesOf(findings)
      /\ told = "NORMAL" => \A s \in SeveritiesOf(findings) : s = "NONE"
  BY <1>3, StateFacts
<1> QED
  BY <1>4, <1>5, <1>6 DEF ToldStateIsWarranted

-----------------------------------------------------------------------------
(* What an item can score.                                                  *)
LEMMA ScoreFacts ==
    ASSUME NEW c \in CheckKeys, NEW f, Founded(c, f)
    PROVE  LET weight == SeverityWeight[f.severity]
           IN  /\ weight \in Nat /\ Score(c, f) \in Nat /\ Score(c, f) <= weight * 1530000
               /\ c = "maintenance_overdue" => Score(c, f) = weight * 360000
               /\ c # "maintenance_overdue" => Score(c, f) >= weight * 540000
               /\ c = "production_gap" => Score(c, f) >= weight * 600000
               /\ c = "open_incidents" => Score(c, f) = weight * 660000
<1> DEFINE weight == SeverityWeight[f.severity]
           e == EvidenceWeight(f)
           b == ImpactBonus(f.impact)
           u == Urgency[c]
<1>1. weight \in Nat
  BY DEF Founded, Severity, SeverityWeight
<1>2. /\ e \in {60, 85, 100}
      /\ c \in {"equipment_risk", "maintenance_overdue", "open_incidents"} => e \in {60, 85}
      /\ f.impact = Unknown => e = 60
  BY DEF EvidenceWeight, Founded
<1>3. b \in 1000 .. 1500 /\ (f.impact = Unknown => b = 1000)
  BY DEF ImpactBonus, Founded, Unknown
<1>4. e * b \in Nat /\ 60000 <= e * b /\ e * b <= 150000 /\ (e # 100 => e * b <= 127500)
  <2> HIDE DEF e, b
  <2>1. CASE e = 60
    BY <1>3, <2>1
  <2>2. CASE e = 85
    BY <1>3, <2>2
  <2>3. CASE e = 100
    BY <1>3, <2>3
  <2> QED
    BY <1>2, <2>1, <2>2, <2>3
<1>5. c \in {"maintenance_overdue", "open_incidents"} => e * b = 60000
  <2>1. c \in {"maintenance_overdue", "open_incidents"} => e = 60 /\ b = 1000
    BY <1>2, <1>3 DEF Founded
  <2> HIDE DEF e, b
  <2> QED
    BY <2>1
<1>6. /\ c = "production_gap" => u = 10
      /\ c = "equipment_risk" => u = 12
      /\ c = "bottleneck" => u = 9
      /\ c = "maintenance_overdue" => u = 6
      /\ c = "open_incidents" => u = 11
  BY DEF Urgency
<1>7. PICK k : k = e * b
  OBVIOUS
<1>8. Score(c, f) = weight * (u * k)
  <2>1. \A w, x, y, z \in Int : w * x * y * z = w * (x * (y * z))
    BY SMTT(30)
  <2>2. u \in Int /\ e \in Int /\ b \in Int
    BY <1>2, <1>3, <1>6, CheckNames
  <2>3. Score(c, f) = weight * u * e * b
    BY DEF Score
  <2> HIDE DEF weight, u, e, b
  <2> QED
    BY <1>1, <1>7, <2>1, <2>2, <2>3
<1> HIDE DEF e, b
<1>9. /\ u * k \in Nat /\ u * k <= 1530000
      /\ c = "maintenance_overdue" => u * k = 360000
      /\ c # "maintenance_overdue" => u * k >= 540000
      /\ c = "production_gap" => u * k >= 600000
      /\ c = "open_incidents" => u * k = 660000
  <2>1. /\ k \in Nat /\ 60000 <= k /\ k <= 150000 /\ (c = "equipment_risk" => k <= 127500)
        /\ c \in {"maintenance_overdue", "open_incidents"} => k = 60000
    BY <1>2, <1>4, <1>5, <1>7
  <2> HIDE DEF u
  <2>2. CASE c = "production_gap"
    BY <1>6, <2>1, <2>2
  <2>3. CASE c = "equipment_risk"
    BY <1>6, <2>1, <2>3
  <2>4. CASE c = "bottleneck"
    BY <1>6, <2>1, <2>4
  <2>5. CASE c = "maintenance_overdue"
    BY <1>6, <2>1, <2>5
  <2>6. CASE c = "open_incidents"
    BY <1>6, <2>1, <2>6
  <2> QED
    BY <2>2, <2>3, <2>4, <2>5, <2>6, CheckNames
<1>10. PICK r : r = u * k
  OBVIOUS
<1>11. \A w, x, y \in Nat : (x <= y => w * x <= w * y) /\ (x >= y => w * x >= w * y) /\ w * x \in Nat
  BY SMTT(30)
<1> HIDE DEF weight, u
<1>12. Score(c, f) = weight * r
  BY <1>8, <1>10
<1>13. Score(c, f) \in Nat /\ Score(c, f) <= weight * 1530000
  BY <1>1, <1>9, <1>10, <1>11, <1>12
<1>14. c # "maintenance_overdue" => Score(c, f) >= weight * 540000
  BY <1>1, <1>9, <1>10, <1>11, <1>12
<1>15. c = "production_gap" => Score(c, f) >= weight * 600000
  BY <1>1, <1>9, <1>10, <1>11, <1>12
<1>16. /\ c = "maintenance_overdue" => Score(c, f) = weight * 360000
       /\ c = "open_incidents" => Score(c, f) = weight * 660000
  BY <1>9, <1>10, <1>12
<1> QED
  BY <1>1, <1>13, <1>14, <1>15, <1>16 DEF weight

(* The queue is in the order of the scores, and nothing is listed twice.      *)
LEMMA RankedFacts ==
    ASSUME NEW f, \A c \in CheckKeys : Founded(c, f[c])
    PROVE  LET order == Queued(f)
               score(i) == Score(Checks[i], f[Checks[i]])
           IN  /\ order \in Seq(Needing(f))
               /\ \A m, n \in DOMAIN order :
                    m < n => order[m] # order[n] /\ score(order[m]) >= score(order[n])
               /\ \A x \in Needing(f) : \E n \in DOMAIN order : order[n] = x
<1> DEFINE P == Needing(f)
           score(i) == Score(Checks[i], f[Checks[i]])
           ahead == {p \in P \X P : score(p[1]) > score(p[2]) \/ (score(p[1]) = score(p[2]) /\ p[1] < p[2])}
           order == InOrder(P, ahead)
<1>1. P \in SUBSET (1 .. 5) /\ IsFiniteSet(P)
  <2>1. P \in SUBSET (1 .. 5)
    BY CheckNames DEF Needing
  <2>2. IsFiniteSet(1 .. 5)
    <3>1. 1 \in Int /\ 5 \in Int
      OBVIOUS
    <3> QED
      BY <3>1, FS_Interval, Zenon
  <2> QED
    BY <2>1, <2>2, FS_Subset
<1>2. \A x \in P : x \in Nat /\ score(x) \in Nat
  <2> SUFFICES ASSUME NEW x \in P PROVE x \in Nat /\ score(x) \in Nat
    OBVIOUS
  <2>1. Checks[x] \in CheckKeys
    BY <1>1, CheckNames DEF CheckKeys, Range
  <2> QED
    BY <1>1, <2>1, ScoreFacts
<1> HIDE DEF score, P
<1>3. \A x, y \in P : <<x, y>> \in ahead <=> score(x) > score(y) \/ (score(x) = score(y) /\ x < y)
  <2> SUFFICES ASSUME NEW x \in P, NEW y \in P
               PROVE  <<x, y>> \in ahead <=> score(x) > score(y) \/ (score(x) = score(y) /\ x < y)
    OBVIOUS
  <2> DEFINE p == <<x, y>>
  <2>1. p \in P \X P /\ p[1] = x /\ p[2] = y
    OBVIOUS
  <2> HIDE DEF p
  <2>2. p \in ahead <=> score(x) > score(y) \/ (score(x) = score(y) /\ x < y)
    BY <2>1
  <2> QED
    BY <2>2 DEF p
<1> HIDE DEF ahead
<1>4. Orders(ahead, P)
  <2>1. \A x \in P : <<x, x>> \notin ahead
    BY <1>2, <1>3
  <2>2. \A x, y, z \in P : <<x, y>> \in ahead /\ <<y, z>> \in ahead => <<x, z>> \in ahead
    BY <1>2, <1>3
  <2>3. \A x, y \in P : x = y \/ <<x, y>> \in ahead \/ <<y, x>> \in ahead
    <3> SUFFICES ASSUME NEW x \in P, NEW y \in P, x # y
                 PROVE  <<x, y>> \in ahead \/ <<y, x>> \in ahead
      OBVIOUS
    <3>1. score(x) > score(y) \/ score(y) > score(x) \/ (score(x) = score(y) /\ (x < y \/ y < x))
      BY <1>2
    <3> QED
      BY <1>3, <3>1
  <2> QED
    BY <2>1, <2>2, <2>3 DEF Orders
<1>5. /\ order \in Seq(P)
      /\ \A m, n \in DOMAIN order : m < n => <<order[m], order[n]>> \in ahead
      /\ \A x \in P : \E n \in DOMAIN order : order[n] = x
  BY <1>1, <1>4, InOrderFacts
<1> HIDE DEF order
<1>6. ASSUME NEW m \in DOMAIN order, NEW n \in DOMAIN order, m < n
      PROVE  order[m] # order[n] /\ score(order[m]) >= score(order[n])
  <2>1. order[m] \in P /\ order[n] \in P /\ <<order[m], order[n]>> \in ahead
    BY <1>5, <1>6
  <2> QED
    BY <1>2, <1>3, <2>1
<1>7. order = Queued(f)
  BY Zenon DEF Queued, order, ahead, score, P
<1> QED
  BY <1>5, <1>6, <1>7 DEF P, score

(* One of the two checks that have no tonnage ranks behind what is worse.     *)
LEMMA OneBehind ==
    ASSUME NEW f, \A c \in CheckKeys : Founded(c, f[c]),
           NEW i \in 1 .. 5, NEW x, x = (IF i = 3 THEN 5 ELSE 3),
           f[Checks[i]].severity # "NONE", f[Checks[x]].severity # "NONE",
           Rank[f[Checks[x]].severity] < Rank[f[Checks[i]].severity]
    PROVE  Score(Checks[x], f[Checks[x]]) < Score(Checks[i], f[Checks[i]])
<1> DEFINE c == Checks[i]
           d == Checks[x]
<1>1. /\ c \in CheckKeys /\ d \in CheckKeys
      /\ (i = 3 => c = "maintenance_overdue" /\ d = "open_incidents")
      /\ (i # 3 => c # "maintenance_overdue" /\ d = "maintenance_overdue")
  BY CheckNames
<1>2. Founded(c, f[c]) /\ Founded(d, f[d])
  BY <1>1
<1>3. /\ SeverityWeight["NONE"] = 0 /\ SeverityWeight["WATCH"] = 15
      /\ SeverityWeight["DISRUPTION"] = 30 /\ SeverityWeight["CRITICAL"] = 40
  BY DEF SeverityWeight
<1>4. /\ f[c].severity \in {"WATCH", "DISRUPTION", "CRITICAL"} /\ f[d].severity \in {"WATCH", "DISRUPTION", "CRITICAL"}
      /\ Rank[f[d].severity] < Rank[f[c].severity]
  BY <1>2 DEF Founded, Severity
<1>5. \/ f[c].severity = "DISRUPTION" /\ f[d].severity = "WATCH"
      \/ f[c].severity = "CRITICAL" /\ f[d].severity \in {"WATCH", "DISRUPTION"}
  BY <1>4, RankFacts
<1>6. CASE i = 3
  <2>1. f[c].severity # "CRITICAL"
    BY <1>1, <1>2, <1>6 DEF Founded
  <2>2. Score(c, f[c]) = 30 * 360000 /\ Score(d, f[d]) = 15 * 660000
    BY <1>1, <1>2, <1>3, <1>5, <1>6, <2>1, ScoreFacts
  <2> QED
    BY <2>2
<1>7. CASE i # 3
  <2>1. /\ Score(c, f[c]) \in Nat /\ Score(c, f[c]) >= SeverityWeight[f[c].severity] * 540000
        /\ Score(d, f[d]) = SeverityWeight[f[d].severity] * 360000
    BY <1>1, <1>2, <1>7, ScoreFacts
  <2> HIDE DEF c, d
  <2>2. Score(d, f[d]) < Score(c, f[c])
    BY <1>3, <1>5, <2>1
  <2> QED
    BY <2>2 DEF c, d
<1> QED
  BY <1>6, <1>7

(* What is listed of a queue.                                               *)
LEMMA QueueFacts ==
    ASSUME NEW f, \A c \in CheckKeys : Founded(c, f[c]), NEW limit \in Nat \ {0}
    PROVE  LET q == Listed(Queued(f), limit)
               state == StateFrom(SeveritiesOf(f))
           IN  /\ \A i, j \in DOMAIN q.items :
                    f[q.items[i]].severity = "CRITICAL" /\ f[q.items[j]].severity = "WATCH" => i < j
               /\ (state \notin {"UNKNOWN", "NORMAL"} /\ (q.suppressed = 0 \/ Len(q.items) >= 4)) =>
                    \E i \in DOMAIN q.items : i <= 4 /\ f[q.items[i]].severity = state
<1> DEFINE order == Queued(f)
           shown == IF Len(order) < limit THEN Len(order) ELSE limit
           q == Listed(order, limit)
           state == StateFrom(SeveritiesOf(f))
           score(i) == Score(Checks[i], f[Checks[i]])
<1>1. /\ order \in Seq(Needing(f))
      /\ \A m, n \in DOMAIN order : m < n => order[m] # order[n] /\ score(order[m]) >= score(order[n])
      /\ \A x \in Needing(f) : \E n \in DOMAIN order : order[n] = x
  BY RankedFacts
<1>2. q = [items |-> [n \in 1 .. shown |-> Checks[order[n]]], suppressed |-> Len(order) - shown]
  BY DEF Listed
<1> HIDE DEF order
<1>3. /\ Len(order) \in Nat /\ DOMAIN order = 1 .. Len(order) /\ shown \in Nat /\ shown <= Len(order)
      /\ \A n \in DOMAIN order : order[n] \in Needing(f)
  BY <1>1
<1> HIDE DEF shown, q
<1>4. /\ DOMAIN q.items = 1 .. shown /\ Len(q.items) = shown /\ q.suppressed = Len(order) - shown
      /\ \A n \in 1 .. shown : q.items[n] = Checks[order[n]]
  BY <1>2, <1>3
<1>5. \A x \in Needing(f) :
         /\ x \in 1 .. 5 /\ Checks[x] \in CheckKeys
         /\ f[Checks[x]].evaluated /\ f[Checks[x]].severity # "NONE"
  BY CheckNames DEF Needing, CheckKeys, Range
<1>6. \A n \in 1 .. shown : order[n] \in Needing(f) /\ q.items[n] = Checks[order[n]]
  BY <1>3, <1>4
<1>7. ASSUME NEW i \in 1 .. shown, NEW j \in 1 .. shown,
             f[q.items[i]].severity = "CRITICAL", f[q.items[j]].severity = "WATCH"
      PROVE  i < j
  <2> DEFINE c == Checks[order[i]]
             d == Checks[order[j]]
  <2>1. c \in CheckKeys /\ d \in CheckKeys /\ f[c].severity = "CRITICAL" /\ f[d].severity = "WATCH"
    BY <1>5, <1>6, <1>7
  <2>2. c = "production_gap" \/ c = "open_incidents"
    BY <2>1 DEF Founded
  <2>3. SeverityWeight["CRITICAL"] = 40 /\ SeverityWeight["WATCH"] = 15
    BY DEF SeverityWeight
  <2>4. score(order[i]) \in Nat /\ score(order[i]) >= 40 * 600000
    BY <2>1, <2>2, <2>3, ScoreFacts
  <2>5. score(order[j]) \in Nat /\ score(order[j]) <= 15 * 1530000
    BY <2>1, <2>3, ScoreFacts
  <2>6. i \in DOMAIN order /\ j \in DOMAIN order
    BY <1>3
  <2>7. ~(j < i)
    <3> HIDE DEF score
    <3> QED
      BY <1>1, <2>4, <2>5, <2>6
  <2>8. i # j
    BY <2>1
  <2> QED
    BY <2>7, <2>8
<1>8. ASSUME state \notin {"UNKNOWN", "NORMAL"}, q.suppressed = 0 \/ Len(q.items) >= 4
      PROVE  \E i \in 1 .. shown : i <= 4 /\ f[q.items[i]].severity = state
  <2>0. shown = Len(order) \/ shown >= 4
    <3>1. PICK hidden : hidden = q.suppressed
      OBVIOUS
    <3>2. hidden = Len(order) - shown /\ (hidden = 0 \/ shown >= 4)
      BY <1>4, <1>8, <3>1
    <3>3. shown \in Nat /\ Len(order) \in Nat
      BY <1>3
    <3>4. \A x, y \in Nat : x - y = 0 => y = x
      OBVIOUS
    <3> QED
      BY <3>2, <3>3, <3>4
  <2>1. SeveritiesOf(f) \in SUBSET Severity
    BY DEF SeveritiesOf, Founded
  <2>2. /\ state \in SeveritiesOf(f) /\ state # "NONE"
        /\ \A s \in SeveritiesOf(f) : Rank[s] <= Rank[state]
    BY <1>8, <2>1, StateFacts
  <2> HIDE DEF state
  <2>3. PICK c \in CheckKeys : f[c].evaluated /\ f[c].severity = state
    BY <2>2 DEF SeveritiesOf
  <2>4. PICK i \in 1 .. 5 : Checks[i] = c
    BY CheckNames
  <2>5. i \in Needing(f)
    BY <2>2, <2>3, <2>4, CheckNames DEF Needing
  <2>6. PICK n \in DOMAIN order : order[n] = i
    BY <1>1, <2>5
  <2>7. n \in Nat /\ n >= 1 /\ n <= Len(order)
    BY <1>3
  <2>8. CASE n <= 4
    <3>1. n \in 1 .. shown
      <4>1. shown \in Nat /\ Len(order) \in Nat
        BY <1>3
      <4> QED
        BY <2>0, <2>7, <2>8, <4>1
    <3> QED
      BY <1>6, <2>3, <2>4, <2>6, <2>8, <3>1
  <2>9. CASE n > 4
    <3> DEFINE x == IF i = 3 THEN 5 ELSE 3
    <3>1. {1, 2, 3, 4} \subseteq DOMAIN order
      BY <1>3, <2>7, <2>9
    <3>2. /\ order[1] \in 1 .. 5 /\ order[2] \in 1 .. 5 /\ order[3] \in 1 .. 5 /\ order[4] \in 1 .. 5
      BY <1>3, <1>5, <3>1
    <3>3. /\ order[1] # order[2] /\ order[1] # order[3] /\ order[1] # order[4] /\ order[1] # i
          /\ order[2] # order[3] /\ order[2] # order[4] /\ order[2] # i
          /\ order[3] # order[4] /\ order[3] # i /\ order[4] # i
      BY <1>1, <2>6, <2>7, <2>9, <3>1
    <3>4. PICK k \in {1, 2, 3, 4} : order[k] = x
      <4>1. x \in 1 .. 5 /\ x # i
        OBVIOUS
      <4> HIDE DEF x
      <4> QED
        BY <3>2, <3>3, <4>1
    <3>5. k \in 1 .. shown /\ k <= 4
      <4>1. shown >= 4
        <5>1. shown \in Nat /\ Len(order) \in Nat
          BY <1>3
        <5> QED
          BY <2>0, <2>7, <2>9, <5>1
      <4> QED
        BY <1>3, <4>1
    <3>6. x \in Needing(f) /\ q.items[k] = Checks[x]
      BY <1>6, <3>4, <3>5
    <3>7. score(x) >= score(i)
      <4>1. k \in DOMAIN order /\ k < n
        BY <2>7, <2>9, <3>1
      <4> HIDE DEF score
      <4> QED
        BY <1>1, <2>6, <3>4, <4>1
    <3>8. f[Checks[x]].severity = state
      <4> SUFFICES ASSUME f[Checks[x]].severity # state PROVE FALSE
        OBVIOUS
      <4>1. f[Checks[x]].severity \in SeveritiesOf(f) /\ f[Checks[x]].severity # "NONE"
        BY <1>5, <3>6 DEF SeveritiesOf
      <4>2. Rank[f[Checks[x]].severity] < Rank[state]
        <5>1. f[Checks[x]].severity \in Severity /\ state \in Severity
          BY <2>1, <2>2, <4>1
        <5>2. Rank[f[Checks[x]].severity] <= Rank[state]
          BY <2>2, <4>1
        <5> QED
          BY <5>1, <5>2, RankFacts
      <4>3. f[Checks[i]].severity = state
        BY <2>3, <2>4
      <4>4. score(x) < score(i)
        BY <2>2, <4>1, <4>2, <4>3, OneBehind
      <4>5. score(x) \in Nat /\ score(i) \in Nat
        BY <1>5, <2>5, <3>6, ScoreFacts
      <4> HIDE DEF score
      <4> QED
        BY <3>7, <4>4, <4>5
    <3> QED
      BY <3>5, <3>6, <3>8
  <2> QED
    BY <2>7, <2>8, <2>9
<1> QED
  BY <1>4, <1>7, <1>8 DEF q, order

-----------------------------------------------------------------------------
(* Nothing was read yet.                                                    *)
LEMMA MineBegins == MineInit => MineInv
<1> SUFFICES ASSUME MineInit PROVE MineInv
  OBVIOUS
<1>1. /\ mine \in Mines /\ viewed = {mine} /\ told = "none" /\ attention = NoQueue
  BY DEF MineInit
<1> QED
  BY <1>1, MineAssumption DEF MineInv

(* Every step keeps it.                                                     *)
LEMMA MineStep == MineInv /\ [MineNext]_mineVars => MineInv'
<1> SUFFICES ASSUME MineInv, [MineNext]_mineVars PROVE MineInv'
  OBVIOUS
<1>1. CASE MineChanges
  <2>1. /\ told = "none" /\ viewed = {mine} /\ mine' \in Change(mine) /\ viewed' = viewed \cup {mine'}
        /\ UNCHANGED <<findings, failed, told, attention>>
    BY <1>1 DEF MineChanges
  <2>2. mine \in Mines /\ mine \in MineRecord /\ mine' \in MineRecord
    BY <2>1, MineAssumption DEF MineInv
  <2>3. viewed' = {mine'} => mine' \in Mines
    BY <2>1, <2>2
  <2>4. attention' = NoQueue
    BY <2>1 DEF MineInv, NoQueue
  <2> QED
    BY <2>1, <2>2, <2>3, <2>4 DEF MineInv, NoQueue
<1>2. CASE Collect
  <2>1. /\ told = "none" /\ UNCHANGED <<mine, viewed, attention>>
        /\ told' = StateFrom(SeveritiesOf(findings)')
    BY <1>2 DEF Collect, SeveritiesOf
  <2>2. ReadFrom(findings, failed)'
    <3>1. PICK read \in [CheckKeys -> viewed] :
             findings' = [c \in CheckKeys |-> IF c \in failed' THEN Insufficient("WATCH") ELSE Check(c, read[c])]
      BY <1>2 DEF Collect
    <3> QED
      BY <2>1, <3>1 DEF ReadFrom
  <2>3. attention' = NoQueue
    BY <2>1 DEF MineInv, NoQueue
  <2>4. viewed' \subseteq MineRecord /\ mine' \in MineRecord /\ (viewed' = {mine'} => mine' \in Mines)
    BY <2>1 DEF MineInv
  <2>5. told' = StateFrom(SeveritiesOf(findings))'
    BY <2>1
  <2> QED
    BY <2>2, <2>3, <2>4, <2>5 DEF MineInv, NoQueue
<1>3. CASE BuildAttention
  <2>1. /\ told # "none" /\ UNCHANGED <<mine, viewed, findings, failed, told>>
        /\ \E lost \in BOOLEAN, limit \in Limits :
              attention' = Listed(Queued(IF lost THEN [findings EXCEPT !["equipment_risk"].impact = Unknown]
                                         ELSE findings), limit)
    BY <1>3 DEF BuildAttention
  <2>2. ReadFrom(findings, failed)' /\ told' = StateFrom(SeveritiesOf(findings))'
    BY <2>1 DEF MineInv, ReadFrom, SeveritiesOf
  <2> QED
    BY <2>1, <2>2 DEF MineInv
<1>4. CASE UNCHANGED mineVars
  BY <1>4 DEF mineVars, MineInv, ReadFrom, SeveritiesOf
<1> QED
  BY <1>1, <1>2, <1>3, <1>4 DEF MineNext

(* The invariant is enough.                                                 *)
LEMMA MineInvSound == MineInv => MineSound
<1> SUFFICES ASSUME MineInv PROVE MineSound
  OBVIOUS
<1>1. ToldStateIsWarranted
  BY WarrantedFacts DEF MineInv, ToldStateIsWarranted
<1>2. CASE attention = NoQueue
  <2>1. DOMAIN attention.items = {}
    BY <1>2 DEF NoQueue
  <2>2. WatchBelowCritical /\ AttentionShowsTheWorst
    BY <1>2, <2>1 DEF WatchBelowCritical, AttentionShowsTheWorst
  <2> QED
    BY <1>1, <2>2 DEF MineSound
<1>3. CASE attention # NoQueue
  <2>1. /\ viewed \subseteq MineRecord /\ ReadFrom(findings, failed) /\ told = StateFrom(SeveritiesOf(findings))
    BY <1>3 DEF MineInv
  <2>2. PICK lost \in BOOLEAN, limit \in Limits :
           attention = Listed(Queued(IF lost THEN [findings EXCEPT !["equipment_risk"].impact = Unknown]
                                     ELSE findings), limit)
    BY <1>3 DEF MineInv
  <2>3. DOMAIN findings = CheckKeys /\ \A c \in CheckKeys : Founded(c, findings[c])
    BY <2>1, FindingFacts
  <2>4. PICK f : f = IF lost THEN [findings EXCEPT !["equipment_risk"].impact = Unknown] ELSE findings
    OBVIOUS
  <2>5. \A c \in CheckKeys : /\ f[c].severity = findings[c].severity
                             /\ f[c].evaluated = findings[c].evaluated
                             /\ Founded(c, f[c])
    <3> SUFFICES ASSUME NEW c \in CheckKeys
                 PROVE  /\ f[c].severity = findings[c].severity
                        /\ f[c].evaluated = findings[c].evaluated
                        /\ Founded(c, f[c])
      OBVIOUS
    <3>1. CASE ~lost \/ c # "equipment_risk"
      <4>1. f[c] = findings[c]
        BY <2>3, <2>4, <3>1
      <4> QED
        BY <2>3, <4>1
    <3>2. CASE lost /\ c = "equipment_risk"
      <4>1. f[c] = [findings[c] EXCEPT !.impact = Unknown]
        BY <2>3, <2>4, <3>2
      <4>2. /\ f[c].severity = findings[c].severity /\ f[c].evaluated = findings[c].evaluated
            /\ f[c].backed = findings[c].backed
        BY <4>1
      <4>3. f[c].impact = Unknown
        BY <2>3, <4>1 DEF Founded
      <4> QED
        BY <2>3, <4>2, <4>3 DEF Founded, Unknown
    <3> QED
      BY <3>1, <3>2
  <2>6. SeveritiesOf(f) = SeveritiesOf(findings)
    BY <2>5 DEF SeveritiesOf
  <2>7. limit \in Nat \ {0} /\ attention = Listed(Queued(f), limit)
    BY <2>2, <2>4, MineAssumption
  <2>8. \A i \in DOMAIN attention.items : f[attention.items[i]].severity = findings[attention.items[i]].severity
    <3> SUFFICES ASSUME NEW i \in DOMAIN attention.items PROVE attention.items[i] \in CheckKeys
      BY <2>5
    <3> DEFINE order == Queued(f)
    <3>1. order \in Seq(Needing(f))
      BY <2>5, RankedFacts
    <3>2. i \in DOMAIN order /\ attention.items[i] = Checks[order[i]]
      <4> HIDE DEF order
      <4>1. Len(order) \in Nat /\ DOMAIN order = 1 .. Len(order)
        BY <3>1
      <4> USE DEF order
      <4>2. i \in 1 .. (IF Len(order) < limit THEN Len(order) ELSE limit) /\ attention.items[i] = Checks[order[i]]
        BY <2>7 DEF Listed
      <4> HIDE DEF order
      <4> QED
        BY <2>7, <4>1, <4>2
    <3> HIDE DEF order
    <3>3. order[i] \in Needing(f)
      BY <3>1, <3>2
    <3> QED
      BY <3>2, <3>3 DEF Needing, CheckKeys, Range
  <2>9. WatchBelowCritical /\ AttentionShowsTheWorst
    <3>1. /\ \A i, j \in DOMAIN attention.items :
               f[attention.items[i]].severity = "CRITICAL" /\ f[attention.items[j]].severity = "WATCH" => i < j
          /\ (told \notin {"UNKNOWN", "NORMAL"} /\ (attention.suppressed = 0 \/ Len(attention.items) >= 4)) =>
               \E i \in DOMAIN attention.items : i <= 4 /\ f[attention.items[i]].severity = told
      <4> DEFINE q == Listed(Queued(f), limit)
                 state == StateFrom(SeveritiesOf(f))
      <4>1. /\ \A i, j \in DOMAIN q.items :
                 f[q.items[i]].severity = "CRITICAL" /\ f[q.items[j]].severity = "WATCH" => i < j
            /\ (state \notin {"UNKNOWN", "NORMAL"} /\ (q.suppressed = 0 \/ Len(q.items) >= 4)) =>
                 \E i \in DOMAIN q.items : i <= 4 /\ f[q.items[i]].severity = state
        BY <2>5, <2>7, QueueFacts
      <4>2. q = attention /\ state = told
        BY <2>1, <2>6, <2>7
      <4> HIDE DEF q, state
      <4> QED
        BY <4>1, <4>2
    <3> QED
      BY <2>8, <3>1 DEF WatchBelowCritical, AttentionShowsTheWorst
  <2> QED
    BY <1>1, <2>9 DEF MineSound
<1> QED
  BY <1>2, <1>3

(* Whatever the records say, while they change and checks raise: the state of  *)
(* a mine is the one its records warrant, its queue shows a finding as bad as  *)
(* that among the first four, and no tonnage lifts a watch over what is        *)
(* critical (attention.py:268).                                             *)
THEOREM MineIsSound == MineSpec => []MineSound
<1>1. MineInit => MineInv
  BY MineBegins
<1>2. MineInv /\ [MineNext]_mineVars => MineInv'
  BY MineStep
<1>3. MineInv => MineSound
  BY MineInvSound
<1> QED
  BY <1>1, <1>2, <1>3, PTL DEF MineSpec
===============================================================================
