--------------------------- MODULE GatewayProofs ---------------------------
(***************************************************************************)
(* The planning of routes on any grid, and the versions of a dataset and   *)
(* the training runs on them, for any number of requests, versions, runs   *)
(* and restarts.                                                           *)
(*                                                                         *)
(* The argument for the planning: the estimate never falls by more than an *)
(* edge costs, so that the least entry of the heap is settled and a closed *)
(* cell is never improved.  Hence whatever way the rounds of CheapestFrom  *)
(* find is behind the search, or something open is tried before it; and a  *)
(* search that ends has found what the rounds find.  What it returns is a  *)
(* walk back to its start at that cost.  A journey by all stops splits     *)
(* into its legs, so the cheapest legs make the cheapest journey, on the   *)
(* surface of the phase; and what is said of two routes compares the       *)
(* lightest journey with another one over the same open cells.             *)
(*                                                                         *)
(* The argument for the data hub: the parent a request read is a version of *)
(* its dataset for ever, and the unique tag is the parent's and one, so a  *)
(* second child of the parent is refused; a request that goes on past the  *)
(* report knows that its version passed, which nothing takes back; and it  *)
(* notices, as history, every mapping that is committed meanwhile.         *)
(*                                                                         *)
(* For the training runs: only the insertion and the thread make a run     *)
(* active, and both ask the index; a run without a thread still has the    *)
(* trigger that inserted it, which is the only one for that run.           *)
(***************************************************************************)
EXTENDS TrainingRuns, RoutePlanning, FiniteSetTheorems, SequenceTheorems, WellFoundedInduction, TLAPS

-----------------------------------------------------------------------------
(* The planning of routes                                                  *)

(* A set of numbers has a least one.                                       *)
LEMMA LeastNumber ==
    ASSUME NEW S \in SUBSET Nat, S # {}
    PROVE  \E n \in S : \A m \in S : n <= m
<1>1. PICK n \in S : \A m \in S : ~(<<m, n>> \in OpToRel(<, Nat))
  BY NatLessThanWellFounded, WFMin
<1>2. ASSUME NEW m \in S PROVE n <= m
  <2>1. ~(m < n)
    BY <1>1 DEF OpToRel
  <2> QED
    BY <2>1
<1> QED
  BY <1>2

(* A function on 0 .. n may be defined by its first value and a step.      *)
Recursive(f, S, start, step, n) ==
    f \in [0 .. n -> S] /\ f[0] = start /\ \A k \in 1 .. n : f[k] = step[f[k - 1]][k]

(* Such a function exists for every number of steps: LET f[n \in ..] has   *)
(* one.                                                                    *)
LEMMA Recursion ==
    ASSUME NEW S, NEW start \in S, NEW step \in [S -> [Nat -> S]], NEW n \in Nat
    PROVE  \E f : Recursive(f, S, start, step, n)
<1> DEFINE Good(f, m) == Recursive(f, S, start, step, m)
           Bad == {m \in Nat : ~\E f : Good(f, m)}
<1> SUFFICES ASSUME Bad # {} PROVE FALSE
  <2>1. n \notin Bad => \E f : Good(f, n)
    OBVIOUS
  <2> QED
    BY <2>1
<1>1. PICK m \in Bad : \A k \in Bad : m <= k
  <2>1. Bad \in SUBSET Nat
    OBVIOUS
  <2> HIDE DEF Bad
  <2> QED
    BY <2>1, LeastNumber
<1>2. m \in Nat /\ ~\E f : Good(f, m)
  BY Zenon
<1>3. CASE m = 0
  <2> DEFINE f == [k \in 0 .. 0 |-> start]
  <2>1. Good(f, m)
    BY <1>3 DEF Recursive
  <2> QED
    BY <1>2, <2>1
<1>4. CASE m # 0
  <2>1. m - 1 \in Nat /\ m - 1 \notin Bad
    <3>1. m - 1 \in Nat /\ ~(m <= m - 1)
      BY <1>2, <1>4
    <3> HIDE DEF Bad
    <3> QED
      BY <1>1, <3>1
  <2>2. PICK g : Good(g, m - 1)
    BY <2>1
  <2> DEFINE f == [k \in 0 .. m |-> IF k = m THEN step[g[m - 1]][m] ELSE g[k]]
  <2>0. g \in [0 .. m - 1 -> S] /\ g[0] = start /\ \A k \in 1 .. m - 1 : g[k] = step[g[k - 1]][k]
    BY <2>2 DEF Recursive
  <2>3. \A k \in 0 .. m : k # m => k \in 0 .. m - 1 /\ f[k] = g[k]
    BY <1>2
  <2>4. g[m - 1] \in S
    BY <1>2, <1>4, <2>0
  <2>5. f[m] = step[g[m - 1]][m] /\ f[m] \in S
    BY <1>2, <2>4
  <2>6. f \in [0 .. m -> S]
    BY <2>0, <2>3, <2>4, <1>2
  <2>7. f[0] = start
    BY <1>2, <1>4, <2>0, <2>3
  <2>8. ASSUME NEW k \in 1 .. m PROVE f[k] = step[f[k - 1]][k]
    <3>1. f[k - 1] = g[k - 1]
      <4>1. k - 1 \in 0 .. m /\ k - 1 # m
        BY <1>2
      <4> QED
        BY <2>3, <4>1
    <3>2. CASE k = m
      BY <2>5, <3>1, <3>2
    <3>3. CASE k # m
      <4>1. k \in 1 .. m - 1 /\ f[k] = g[k]
        BY <1>2, <2>3, <3>3
      <4> QED
        BY <2>0, <3>1, <4>1
    <3> QED
      BY <3>2, <3>3
  <2> HIDE DEF f
  <2>9. Good(f, m)
    BY <2>6, <2>7, <2>8 DEF Recursive
  <2> QED
    BY <1>2, <2>9
<1> QED
  BY <1>3, <1>4

(* Whole square roots.                                                     *)
LEMMA Root ==
    ASSUME NEW q \in Nat, NEW m \in Nat, q < (m + 1) * (m + 1)
    PROVE  \E d \in 0 .. m : d * d <= q /\ q < (d + 1) * (d + 1)
<1> DEFINE S == {d \in Nat : q < (d + 1) * (d + 1)}
<1>1. PICK d \in S : \A k \in S : d <= k
  <2>1. S \in SUBSET Nat /\ m \in S
    OBVIOUS
  <2> HIDE DEF S
  <2> QED
    BY <2>1, LeastNumber
<1>2. d \in Nat /\ q < (d + 1) * (d + 1) /\ d <= m
  BY <1>1
<1>3. d * d <= q
  <2>1. CASE d = 0
    BY <2>1
  <2>2. CASE d # 0
    <3>1. d - 1 \in Nat /\ d - 1 \notin S
      BY <1>1, <1>2, <2>2
    <3>2. ~(q < ((d - 1) + 1) * ((d - 1) + 1)) /\ (d - 1) + 1 = d
      BY <1>2, <3>1
    <3>3. ~(q < d * d) /\ d * d \in Nat
      BY <1>2, <3>2
    <3> QED
      BY <3>3
  <2> QED
    BY <2>1, <2>2
<1> QED
  BY <1>2, <1>3

-----------------------------------------------------------------------------
(* The estimate of what remains *)

Square(a, b) == 144 * ((a[1] - b[1]) * (a[1] - b[1]) + (a[2] - b[2]) * (a[2] - b[2]))

(* Multiplication and order.                                               *)
LEMMA Products ==
    ASSUME NEW a \in Nat, NEW b \in Nat, NEW c \in Nat, NEW d \in Nat, a <= b, c <= d
    PROVE  a * c \in Nat /\ b * d \in Nat /\ a * c <= b * d
<1>1. a * c \in Nat /\ b * c \in Nat /\ b * d \in Nat
  OBVIOUS
<1>2. (b - a) * c \in Nat /\ (b - a) * c = b * c - a * c
  OBVIOUS
<1>3. (d - c) * b \in Nat /\ (d - c) * b = b * d - b * c
  OBVIOUS
<1> QED
  BY <1>1, <1>2, <1>3

(* A cell is a pair of numbers below N.                                    *)
LEMMA CellFacts ==
    ASSUME NEW c \in Cells
    PROVE  c[1] \in 0 .. N - 1 /\ c[2] \in 0 .. N - 1 /\ c = <<c[1], c[2]>> /\ N \in Nat
BY RouteAssumption DEF Cells

(* A square is that of the size.                                           *)
LEMMA Squares ==
    ASSUME NEW x \in Int
    PROVE  x * x \in Nat /\ x * x = Size(x) * Size(x) /\ Size(x) \in Nat
BY DEF Size

(* The straight line is the floor of the root, in twelfths of a cell.      *)
LEMMA StraightFacts ==
    ASSUME NEW a \in Cells, NEW b \in Cells
    PROVE  LET d == Straight(a, b)
           IN  d \in Nat /\ d * d <= Square(a, b) /\ Square(a, b) < (d + 1) * (d + 1)
<1> DEFINE x == a[1] - b[1]
           y == a[2] - b[2]
           q == Square(a, b)
           n == N - 1
<1>1. n \in Nat /\ x \in Int /\ y \in Int /\ Size(x) <= n /\ Size(y) <= n /\ Size(x) \in Nat /\ Size(y) \in Nat
  BY CellFacts DEF Size
<1>2. x * x \in Nat /\ y * y \in Nat /\ x * x <= n * n /\ y * y <= n * n
  <2> HIDE DEF x, y, n
  <2>1. Size(x) * Size(x) <= n * n /\ Size(y) * Size(y) <= n * n
    BY <1>1, Products
  <2> QED
    BY <1>1, <2>1, Squares
<1>3. q = 144 * (x * x + y * y)
  BY DEF Square
<1>4. q \in Nat /\ q <= 288 * (n * n)
  <2> HIDE DEF x, y, n, q
  <2> DEFINE xx == x * x
             yy == y * y
             nn == n * n
  <2>1. xx \in Nat /\ yy \in Nat /\ nn \in Nat /\ xx <= nn /\ yy <= nn /\ q = 144 * (xx + yy)
    BY <1>1, <1>2, <1>3
  <2> HIDE DEF xx, yy, nn
  <2>2. q \in Nat /\ q <= 288 * nn
    BY <2>1
  <2> QED
    BY <2>2 DEF nn
<1>5. q < (17 * n + 1) * (17 * n + 1)
  <2> HIDE DEF q, n
  <2>1. (17 * n + 1) * (17 * n + 1) = 289 * (n * n) + 34 * n + 1 /\ n * n \in Nat
    BY <1>1
  <2> QED
    BY <1>1, <1>4, <2>1
<1> HIDE DEF q
<1>6. PICK d \in 0 .. 17 * n : d * d <= q /\ q < (d + 1) * (d + 1)
  <2>1. 17 * n \in Nat
    BY <1>1
  <2> QED
    BY <1>4, <1>5, <2>1, Root
<1>7. d \in 0 .. 17 * N
  BY <1>1, CellFacts
<1>8. Straight(a, b) = CHOOSE e \in 0 .. 17 * N : e * e <= q /\ q < (e + 1) * (e + 1)
  BY DEF Straight, q, Square
<1>9. Straight(a, b) \in 0 .. 17 * N /\ Straight(a, b) * Straight(a, b) <= q
        /\ q < (Straight(a, b) + 1) * (Straight(a, b) + 1)
  BY <1>6, <1>7, <1>8
<1> QED
  BY <1>9, CellFacts DEF q

(* The smaller square has the smaller root.                                *)
LEMMA Roots ==
    ASSUME NEW a \in Nat, NEW b \in Nat, a * a < b * b
    PROVE  a < b
<1>1. CASE b <= a
  BY <1>1, Products
<1> QED
  BY <1>1

(* The square next to a square.                                            *)
LEMMA NextSquare ==
    ASSUME NEW n \in Int, NEW d \in {-1, 0, 1}
    PROVE  (n + d) * (n + d) <= n * n + 2 * Size(n) + 1
<1>1. Size(n) \in Nat /\ n <= Size(n) /\ -n <= Size(n)
  BY DEF Size
<1>2. CASE d = 0
  BY <1>1, <1>2
<1>3. CASE d = 1
  <2>1. (n + 1) * (n + 1) = n * n + 2 * n + 1
    OBVIOUS
  <2> QED
    BY <1>1, <1>3, <2>1
<1>4. CASE d = -1
  <2>1. (n - 1) * (n - 1) = n * n - 2 * n + 1 /\ n + d = n - 1
    BY <1>4
  <2> QED
    BY <1>1, <2>1
<1> QED
  BY <1>2, <1>3, <1>4

(* A step takes no more from the straight line than its length.            *)
LEMMA StraightAlong ==
    ASSUME NEW x \in Int, NEW y \in Int, NEW r \in Nat, NEW s \in Nat,
           NEW dx \in {-1, 0, 1}, s * s <= 144 * ((x + dx) * (x + dx) + y * y),
           144 * (x * x + y * y) < r * r
    PROVE  s < r + 12
<1> DEFINE z == Size(x)
<1>1. x * x = z * z /\ z \in Nat /\ x * x \in Nat /\ y * y \in Nat
  BY Squares
<1>2. (x + dx) * (x + dx) <= x * x + 2 * z + 1
  BY NextSquare
<1> HIDE DEF z
<1>3. 12 * z < r
  <2>1. (12 * z) * (12 * z) = 144 * (x * x) /\ 12 * z \in Nat
    BY <1>1
  <2>2. (12 * z) * (12 * z) < r * r
    BY <1>1, <2>1
  <2> QED
    BY <2>1, <2>2, Roots
<1>4. (r + 12) * (r + 12) = r * r + 24 * r + 144
  OBVIOUS
<1>5. s * s < (r + 12) * (r + 12)
  <2> DEFINE A == x * x
             B == y * y
             C == (x + dx) * (x + dx)
             R == r * r
             S == s * s
  <2>1. A \in Nat /\ B \in Nat /\ C \in Int /\ R \in Nat /\ S \in Nat /\ z \in Nat
    BY <1>1
  <2>2. C <= A + 2 * z + 1 /\ S <= 144 * (C + B) /\ 144 * (A + B) < R /\ 12 * z < r
    BY <1>2, <1>3
  <2> HIDE DEF A, B, C, R, S, z
  <2>3. S < R + 24 * r + 144
    BY <2>1, <2>2
  <2> QED
    BY <2>3, <1>4 DEF S, R
<1> QED
  BY <1>5, Roots

(* A diagonal step changes the straight line by seventeen twelfths at      *)
(* most.                                                                   *)
LEMMA StraightAcross ==
    ASSUME NEW x \in Int, NEW y \in Int, NEW r \in Nat, NEW s \in Nat,
           NEW dx \in {-1, 1}, NEW dy \in {-1, 1},
           s * s <= 144 * ((x + dx) * (x + dx) + (y + dy) * (y + dy)),
           144 * (x * x + y * y) < r * r
    PROVE  s < r + 17
<1> DEFINE u == Size(x)
           v == Size(y)
<1>1. x * x = u * u /\ y * y = v * v /\ u \in Nat /\ v \in Nat
  BY Squares
<1>2. (x + dx) * (x + dx) <= u * u + 2 * u + 1 /\ (y + dy) * (y + dy) <= v * v + 2 * v + 1
  BY <1>1, NextSquare
<1> HIDE DEF u, v
<1>3. 288 * (u + v) < 34 * r
  <2> DEFINE U == u * u
             V == v * v
             W == u * v
             R == r * r
             a == 288 * (u + v)
             b == 34 * r
  <2>1. U \in Nat /\ V \in Nat /\ W \in Nat /\ R \in Nat /\ a \in Nat /\ b \in Nat
    BY <1>1
  <2>2. 2 * W <= U + V
    <3>1. (u - v) * (u - v) = U - 2 * W + V
      BY <1>1
    <3>2. (u - v) * (u - v) \in Nat
      BY <1>1, Squares
    <3> QED
      BY <2>1, <3>1, <3>2
  <2>3. 144 * (U + V) < R
    BY <1>1
  <2>4. b * b = 1156 * R
    OBVIOUS
  <2>5. a * a = 82944 * (U + 2 * W + V)
    BY <1>1
  <2> HIDE DEF U, V, W, R, a, b
  <2>6. a * a < b * b
    BY <2>1, <2>2, <2>3, <2>4, <2>5
  <2>7. a < b
    BY <2>1, <2>6, Roots
  <2> QED
    BY <2>7 DEF a, b
<1>4. (r + 17) * (r + 17) = r * r + 34 * r + 289
  OBVIOUS
<1>5. s * s < (r + 17) * (r + 17)
  <2> DEFINE U == u * u
             V == v * v
             C == (x + dx) * (x + dx)
             D == (y + dy) * (y + dy)
             R == r * r
             S == s * s
  <2>1. U \in Nat /\ V \in Nat /\ C \in Int /\ D \in Int /\ R \in Nat /\ S \in Nat
    BY <1>1
  <2>2. C <= U + 2 * u + 1 /\ D <= V + 2 * v + 1 /\ S <= 144 * (C + D) /\ 144 * (U + V) < R
    BY <1>1, <1>2
  <2> HIDE DEF U, V, C, D, R, S
  <2>3. S < R + 34 * r + 289
    BY <1>1, <1>3, <2>1, <2>2
  <2> QED
    BY <2>3, <1>4 DEF S, R
<1> QED
  BY <1>5, Roots

(* One of the eight cells around another.                                  *)
Adjacent(a, b) == Apart(a, b) = 1

(* The straight line is consistent: a step brings it down by its length at *)
(* most.                                                                   *)
LEMMA StraightStep ==
    ASSUME NEW c \in Cells, NEW d \in Cells, NEW to \in Cells, Adjacent(c, d)
    PROVE  /\ Length(c, d) \in {12, 17}
           /\ Straight(c, to) <= Straight(d, to) + Length(c, d)
<1> DEFINE x == d[1] - to[1]
           y == d[2] - to[2]
           dx == c[1] - d[1]
           dy == c[2] - d[2]
           s == Straight(c, to)
           r == Straight(d, to) + 1
<1>1. x \in Int /\ y \in Int /\ c[1] \in Int /\ c[2] \in Int /\ d[1] \in Int /\ d[2] \in Int
        /\ c[1] - to[1] = x + dx /\ c[2] - to[2] = y + dy
  BY CellFacts
<1>2. dx \in {-1, 0, 1} /\ dy \in {-1, 0, 1} /\ ~(dx = 0 /\ dy = 0)
  BY <1>1 DEF Adjacent, Apart, Larger, Size
<1>3. s \in Nat /\ r \in Nat /\ s * s <= Square(c, to) /\ Square(d, to) < r * r
  BY StraightFacts
<1>4. Square(c, to) = 144 * ((x + dx) * (x + dx) + (y + dy) * (y + dy)) /\ Square(d, to) = 144 * (x * x + y * y)
  BY <1>1 DEF Square
<1>5. Straight(d, to) \in Nat /\ r = Straight(d, to) + 1
  BY StraightFacts
<1>6. CASE dx = 0
  <2>1. Length(c, d) = 12 /\ x + dx = x
    BY <1>1, <1>6 DEF Length
  <2> HIDE DEF s, r, x, y
  <2>2. s * s <= 144 * ((y + dy) * (y + dy) + x * x) /\ 144 * (y * y + x * x) < r * r
    <3> DEFINE A == x * x
               B == y * y
               C == (y + dy) * (y + dy)
    <3>1. A \in Int /\ B \in Int /\ C \in Int
      BY <1>1, <1>2
    <3> HIDE DEF A, B, C
    <3>2. 144 * (A + C) = 144 * (C + A) /\ 144 * (A + B) = 144 * (B + A)
      BY <3>1
    <3> QED
      BY <1>3, <1>4, <2>1, <3>2 DEF A, B, C
  <2>3. s < r + 12
    BY <1>1, <1>2, <1>3, <2>2, StraightAlong
  <2> QED
    BY <1>3, <1>5, <2>1, <2>3 DEF s
<1>7. CASE dx # 0 /\ dy = 0
  <2>1. Length(c, d) = 12 /\ y + dy = y
    BY <1>1, <1>7 DEF Length
  <2> HIDE DEF s, r, x, y
  <2>2. s < r + 12
    BY <1>1, <1>2, <1>3, <1>4, <2>1, StraightAlong
  <2> QED
    BY <1>3, <1>5, <2>1, <2>2 DEF s
<1>8. CASE dx # 0 /\ dy # 0
  <2>1. Length(c, d) = 17
    BY <1>1, <1>8 DEF Length
  <2>2. dx \in {-1, 1} /\ dy \in {-1, 1}
    BY <1>2, <1>8
  <2> HIDE DEF s, r, x, y
  <2>3. s < r + 17
    BY <1>1, <1>3, <1>4, <2>2, StraightAcross
  <2> QED
    BY <1>3, <1>5, <2>1, <2>3 DEF s
<1> QED
  BY <1>6, <1>7, <1>8

(* No kilometre costs less than a safe one.                                *)
LEMMA VehicleFacts ==
    ASSUME NEW name
    PROVE  Vehicle(name).slope \in Nat /\ Vehicle(name).flood \in Nat /\ Vehicle(name).road \in Nat
<1>1. DOMAIN VehicleProfiles = {"haul_truck", "articulated_dumper", "water_tanker", "light_vehicle"}
  BY DEF VehicleProfiles
<1>2. \A v \in DOMAIN VehicleProfiles :
        VehicleProfiles[v].slope \in Nat /\ VehicleProfiles[v].flood \in Nat /\ VehicleProfiles[v].road \in Nat
  BY <1>1 DEF VehicleProfiles
<1>3. \E v \in DOMAIN VehicleProfiles : Vehicle(name) = VehicleProfiles[v]
  BY <1>1 DEF Vehicle
<1> QED
  BY <1>2, <1>3

(* A clipped percentage is a number.                                       *)
LEMMA Clipped ==
    ASSUME NEW p \in Nat
    PROVE  Clip(p) \in Nat
BY DEF Clip, Lesser

(* So is a quotient.                                                       *)
LEMMA Divided ==
    ASSUME NEW a \in Nat, NEW b \in Nat, b > 0
    PROVE  a \div b \in Nat
OBVIOUS

(* So is a product.                                                        *)
LEMMA Multiplied ==
    ASSUME NEW a \in Nat, NEW b \in Nat
    PROVE  a * b \in Nat
OBVIOUS

(* The rate of a cell is never below ALPHA.                                *)
LEMMA RateFacts ==
    ASSUME NEW ground \in Ground, NEW conditions \in Conditions, NEW name
    PROVE  LET rate == Rate(ground, conditions, Vehicle(name)) IN rate \in Nat /\ rate >= ALPHA
<1> DEFINE vehicle == Vehicle(name)
<1>1. /\ ground.slope \in Nat /\ ground.height \in Nat /\ 100 - ground.road \in Nat /\ ground.flood \in Nat
      /\ ground.activity \in Nat /\ ground.traffic \in Nat
      /\ conditions.rain \in Nat /\ 100 - conditions.road \in Nat /\ conditions.traffic \in Nat
      /\ conditions.weather \in Nat
  BY DEF Ground, Conditions, Percent
<1>2. vehicle.slope \in Nat /\ vehicle.flood \in Nat /\ vehicle.road \in Nat
  BY VehicleFacts
<1> HIDE DEF vehicle
<1>3. FloodRisk(ground, conditions) \in Nat
  <2>1. ground.flood * (1800 + 92 * conditions.rain) \in Nat
    BY <1>1, Multiplied
  <2>2. (ground.flood * (1800 + 92 * conditions.rain)) \div 10000 \in Nat
    BY <2>1, Divided
  <2> QED
    BY <2>2, Clipped DEF FloodRisk
<1>4. RoadRisk(ground, conditions) \in Nat
  <2> DEFINE combined == (60 * (100 - ground.road) + 40 * (100 - conditions.road)) \div 100
  <2>1. combined \in Nat
    BY <1>1, Divided
  <2> HIDE DEF combined
  <2>2. 55 * conditions.rain * combined \in Nat
    BY <1>1, <2>1, Multiplied
  <2>3. combined * (1000000 + 55 * conditions.rain * combined) \in Nat
    BY <2>1, <2>2, Multiplied
  <2>4. (combined * (1000000 + 55 * conditions.rain * combined)) \div 1000000 \in Nat
    BY <2>3, Divided
  <2> QED
    BY <2>4, Clipped DEF RoadRisk, combined
<1>5. TrafficRisk(ground, conditions) \in Nat
  <2>1. ground.traffic * (3500 + 115 * conditions.traffic) \in Nat
    BY <1>1, Multiplied
  <2>2. (ground.traffic * (3500 + 115 * conditions.traffic)) \div 10000 \in Nat
    BY <2>1, Divided
  <2> QED
    BY <2>2, Clipped DEF TrafficRisk
<1>6. MiningRisk(ground, conditions) \in Nat
  <2>1. (ground.activity * 16) \div 10 \in Nat
    BY <1>1, Divided
  <2> QED
    BY <1>1, <2>1, Clipped DEF MiningRisk
<1> DEFINE road == (RoadRisk(ground, conditions) * vehicle.road) \div 100
<1>7. road \in Nat
  BY <1>2, <1>4, Multiplied, Divided
<1> HIDE DEF road
<1>8. WeatherRisk(ground, conditions, road) \in Nat
  <2>1. ground.height \div 2 \in Nat
    BY <1>1, Divided
  <2>2. conditions.weather * (50 + ground.height \div 2) \in Nat
    BY <1>1, <2>1, Multiplied
  <2>3. conditions.weather * (50 + ground.height \div 2) * (1000 + 3 * road) \in Nat
    BY <1>7, <2>2, Multiplied
  <2>4. (conditions.weather * (50 + ground.height \div 2) * (1000 + 3 * road)) \div 100000 \in Nat
    BY <2>3, Divided
  <2> QED
    BY <2>4, Clipped DEF WeatherRisk
<1> DEFINE f == Factors(ground, conditions, vehicle)
<1>9. f.slope \in Nat
  <2>1. Clip(5 * ground.slope) \in Nat
    BY <1>1, Clipped
  <2>2. (Clip(5 * ground.slope) * vehicle.slope) \div 100 \in Nat
    BY <1>2, <2>1, Multiplied, Divided
  <2> QED
    BY <2>2, Clipped DEF Factors
<1>10. f.flood \in Nat
  <2>1. (FloodRisk(ground, conditions) * vehicle.flood) \div 100 \in Nat
    BY <1>2, <1>3, Multiplied, Divided
  <2> QED
    BY <2>1, Clipped DEF Factors
<1>11. f.road \in Nat /\ f.mining \in Nat /\ f.weather \in Nat /\ f.traffic \in Nat
  BY <1>5, <1>6, <1>7, <1>8, Clipped DEF Factors, road
<1> HIDE DEF f
<1>12. Rate(ground, conditions, vehicle) = 1000 + 22 * f.slope + 30 * f.flood + 25 * f.road
          + 20 * f.mining + 15 * f.weather + 12 * f.traffic
  BY DEF Rate, RiskWeights, ALPHA, f
<1> QED
  BY <1>9, <1>10, <1>11, <1>12 DEF ALPHA, vehicle

(* A surface as it is built for a phase.                                   *)
SurfaceIs(on) ==
    /\ on.rate \in [Cells -> Nat] /\ \A c \in Cells : on.rate[c] >= ALPHA
    /\ on.blocked \in SUBSET Cells

(* Every surface a phase may ask for is such a surface.                    *)
LEMMA SurfaceFacts ==
    ASSUME terrain \in Terrains, request \in RouteRequests, NEW name
    PROVE  SurfaceIs(CostSurface(name))
<1> DEFINE conditions == IF name = "after" THEN request.after ELSE request.conditions
           vehicle == Vehicle(request.vehicle)
           on == CostSurface(name)
<1>1. conditions \in Conditions /\ \A c \in Cells : terrain[c] \in Ground
  BY RouteAssumption DEF RouteRequest
<1>2. \A c \in Cells : Rate(terrain[c], conditions, vehicle) \in Nat /\ Rate(terrain[c], conditions, vehicle) >= ALPHA
  BY <1>1, RateFacts
<1>3. on.rate = [c \in Cells |-> IF name = "shortest" THEN ALPHA ELSE Rate(terrain[c], conditions, vehicle)]
  BY DEF CostSurface
<1>4. on.blocked = {c \in Cells : Blocked(terrain[c], conditions, vehicle)}
  BY DEF CostSurface
<1> HIDE DEF conditions, vehicle, on
<1>5. ALPHA \in Nat /\ ALPHA >= ALPHA
  BY DEF ALPHA
<1>6. on.rate \in [Cells -> Nat] /\ \A c \in Cells : on.rate[c] >= ALPHA
  BY <1>2, <1>3, <1>5
<1>7. on.blocked \in SUBSET Cells
  BY <1>4
<1> QED
  BY <1>6, <1>7 DEF SurfaceIs, on

(* The cells a vehicle may enter.                                          *)
OpenCells == Cells \ surface.blocked

(* The least number of a set.                                              *)
LEMMA LeastOfFacts ==
    ASSUME NEW S \in SUBSET Nat, S # {}
    PROVE  LeastOf(S) \in S /\ \A x \in S : LeastOf(S) <= x
BY LeastNumber DEF LeastOf

(* No open cell is cheaper than the rate the estimate uses.                *)
LEMMA MinRateFacts ==
    ASSUME SurfaceIs(surface)
    PROVE  MinRate \in Nat /\ \A c \in OpenCells : MinRate <= surface.rate[c]
<1> DEFINE S == {surface.rate[c] : c \in Cells \ surface.blocked}
<1>1. S \in SUBSET Nat /\ (\A r \in S : r >= ALPHA) /\ ALPHA \in Nat
  BY DEF SurfaceIs, ALPHA
<1>2. \A c \in OpenCells : surface.rate[c] \in S
  BY DEF OpenCells
<1>3. MinRate = IF S = {} THEN ALPHA ELSE Larger(ALPHA, LeastOf(S))
  BY DEF MinRate
<1> HIDE DEF S
<1>4. CASE S = {}
  BY <1>1, <1>2, <1>3, <1>4
<1>5. CASE S # {}
  <2>1. LeastOf(S) \in S /\ \A x \in S : LeastOf(S) <= x
    BY <1>1, <1>5, LeastOfFacts
  <2>2. LeastOf(S) \in Nat /\ MinRate = LeastOf(S)
    <3> DEFINE m == LeastOf(S)
    <3>1. m \in Nat /\ m >= ALPHA /\ ALPHA \in Nat
      BY <1>1, <2>1
    <3>2. MinRate = IF ALPHA > m THEN ALPHA ELSE m
      BY <1>3, <1>5 DEF Larger
    <3> HIDE DEF m
    <3>3. MinRate = m
      BY <3>1, <3>2
    <3> QED
      BY <3>1, <3>3 DEF m
  <2> QED
    BY <1>2, <2>1, <2>2
<1> QED
  BY <1>4, <1>5

(* What the searches have added to a cell.                                 *)
Penalised == penalty \in [Cells -> Nat]

(* An edge costs at least its length at the rate of the estimate.          *)
LEMMA EstimateFacts ==
    ASSUME SurfaceIs(surface), Penalised, NEW to \in Cells
    PROVE  /\ \A c \in Cells : Estimate(c, to) \in Nat
           /\ Estimate(to, to) = 0
           /\ \A c, d \in OpenCells : Adjacent(c, d) =>
                /\ StepCost(c, d) \in Nat /\ StepCost(c, d) > 0
                /\ Estimate(c, to) <= StepCost(c, d) + Estimate(d, to)
<1>1. ASSUME NEW c \in Cells PROVE Estimate(c, to) \in Nat
  <2>1. Straight(c, to) \in Nat /\ MinRate \in Nat
    BY StraightFacts, MinRateFacts
  <2> QED
    BY <2>1 DEF Estimate
<1>2. Estimate(to, to) = 0
  <2>1. to[1] \in Int /\ to[2] \in Int
    BY CellFacts
  <2>2. Square(to, to) = 0
    BY <2>1 DEF Square
  <2>3. Straight(to, to) \in Nat /\ Straight(to, to) * Straight(to, to) <= 0
    BY <2>2, StraightFacts
  <2>4. Straight(to, to) = 0
    BY <2>3
  <2> QED
    BY <2>4, MinRateFacts DEF Estimate
<1>3. ASSUME NEW c \in OpenCells, NEW d \in OpenCells, Adjacent(c, d)
      PROVE  /\ StepCost(c, d) \in Nat /\ StepCost(c, d) > 0
             /\ Estimate(c, to) <= StepCost(c, d) + Estimate(d, to)
  <2>0. c \in Cells /\ d \in Cells
    BY DEF OpenCells
  <2> DEFINE a == surface.rate[c] + surface.rate[d] + 2 * penalty[d]
             l == Length(c, d)
             m == MinRate
             s == Straight(c, to)
             r == Straight(d, to)
  <2>1. StepCost(c, d) = a * l /\ Estimate(c, to) = 2 * s * m /\ Estimate(d, to) = 2 * r * m
    BY DEF StepCost, Estimate
  <2>2. l \in {12, 17} /\ s <= r + l /\ s \in Nat /\ r \in Nat
    BY <1>3, <2>0, StraightStep, StraightFacts
  <2>3. a \in Nat /\ 2 * m <= a /\ a > 0 /\ m \in Nat
    <3>1. surface.rate[c] \in Nat /\ surface.rate[d] \in Nat /\ penalty[d] \in Nat
            /\ surface.rate[c] >= 1000
      BY <2>0 DEF SurfaceIs, Penalised, ALPHA
    <3>2. m \in Nat /\ m <= surface.rate[c] /\ m <= surface.rate[d]
      BY MinRateFacts
    <3> HIDE DEF m
    <3> QED
      BY <3>1, <3>2
  <2> HIDE DEF a, l, m, s, r
  <2>4. a * l \in Nat /\ a * l > 0
    <3>1. CASE l = 12
      BY <2>3, <3>1
    <3>2. CASE l = 17
      BY <2>3, <3>2
    <3> QED
      BY <2>2, <3>1, <3>2
  <2>5. 2 * m * l <= a * l
    <3>1. CASE l = 12
      BY <2>3, <3>1
    <3>2. CASE l = 17
      BY <2>3, <3>2
    <3> QED
      BY <2>2, <3>1, <3>2
  <2>6. 2 * s * m <= 2 * r * m + 2 * m * l
    <3>1. (r + l) \in Nat /\ 2 * m \in Nat
      BY <2>2, <2>3
    <3>2. s * (2 * m) <= (r + l) * (2 * m)
      BY <2>2, <3>1, Products
    <3>3. (r + l) * (2 * m) = 2 * r * m + 2 * m * l /\ s * (2 * m) = 2 * s * m
      BY <2>2, <2>3
    <3> QED
      BY <3>2, <3>3
  <2>7. 2 * s * m \in Nat /\ 2 * r * m \in Nat /\ 2 * m * l \in Nat
    BY <2>2, <2>3, Multiplied
  <2> DEFINE A == a * l
             B == 2 * s * m
             C == 2 * r * m
             D == 2 * m * l
  <2> HIDE DEF A, B, C, D
  <2>8. A \in Nat /\ B \in Nat /\ C \in Nat /\ D \in Nat /\ D <= A /\ B <= C + D /\ A > 0
    BY <2>4, <2>5, <2>6, <2>7 DEF A, B, C, D
  <2>9. B <= A + C
    BY <2>8
  <2> QED
    BY <2>1, <2>8, <2>9 DEF A, B, C
<1> QED
  BY <1>1, <1>2, <1>3

(* There are N * N cells.                                                  *)
LEMMA CellsFinite ==
    /\ N * N \in Nat \ {0} /\ IsFiniteSet(Cells)
    /\ \A S \in SUBSET Cells : IsFiniteSet(S) /\ Cardinality(S) \in 0 .. N * N
<1>1. N \in Nat \ {0}
  BY RouteAssumption
<1>2. N * N \in Nat \ {0}
  <2>1. 1 * 1 <= N * N /\ N * N \in Nat
    BY <1>1, Products
  <2> QED
    BY <2>1
<1>3. IsFiniteSet(0 .. N - 1) /\ Cardinality(0 .. N - 1) = N
  BY <1>1, FS_Interval
<1>4. IsFiniteSet(Cells) /\ Cardinality(Cells) = N * N
  BY <1>3, FS_Product DEF Cells
<1>5. ASSUME NEW S \in SUBSET Cells PROVE IsFiniteSet(S) /\ Cardinality(S) \in 0 .. N * N
  BY <1>2, <1>4, FS_Subset, FS_CardinalityType
<1> QED
  BY <1>2, <1>4, <1>5

-----------------------------------------------------------------------------
(* The cheapest walks *)

Ways == [cell : OpenCells, cost : Nat]

(* A way is its cell and its cost.                                         *)
LEMMA WayIs ==
    ASSUME NEW c \in OpenCells, NEW x \in Nat
    PROVE  /\ [cell |-> c, cost |-> x] \in Ways
           /\ \A e \in Ways : e.cell = c /\ e.cost = x => e = [cell |-> c, cost |-> x]
BY DEF Ways

(* A round of the reference search keeps the cheapest way to each cell,    *)
(* and goes one step on.                                                   *)
LEMMA FurtherFacts ==
    ASSUME SurfaceIs(surface), Penalised, NEW reached \in SUBSET Ways
    PROVE  LET further == Further(reached)
           IN  /\ further \in SUBSET Ways
               /\ \A e \in reached : \E f \in further : f.cell = e.cell /\ f.cost <= e.cost
               /\ \A e \in reached, d \in OpenCells : Adjacent(e.cell, d) =>
                    \E f \in further : f.cell = d /\ f.cost <= e.cost + StepCost(e.cell, d)
               /\ \A f \in further : f \in reached \/
                    \E e \in reached : Adjacent(e.cell, f.cell) /\ f.cost = e.cost + StepCost(e.cell, f.cell)
               /\ \A e, f \in further : e.cell = f.cell => e = f
<1> DEFINE edges == {p \in reached \X (Cells \ surface.blocked) : Apart(p[1].cell, p[2]) = 1}
           way(p) == [cell |-> p[2], cost |-> p[1].cost + StepCost(p[1].cell, p[2])]
           longer == reached \cup {way(p) : p \in edges}
<1>1. Further(reached) = {e \in longer : \A f \in longer : e.cell = f.cell => e.cost <= f.cost}
  BY DEF Further
<1>2. ASSUME NEW e \in reached, NEW d \in OpenCells, Adjacent(e.cell, d)
      PROVE  /\ [cell |-> d, cost |-> e.cost + StepCost(e.cell, d)] \in longer
             /\ [cell |-> d, cost |-> e.cost + StepCost(e.cell, d)] \in Ways
  <2>1. e.cell \in OpenCells /\ e.cost \in Nat
    BY DEF Ways
  <2>2. d \in Cells
    BY DEF OpenCells
  <2>3. StepCost(e.cell, d) \in Nat
    BY <1>2, <2>1, <2>2, EstimateFacts
  <2>4. e.cost + StepCost(e.cell, d) \in Nat
    BY <2>1, <2>3
  <2>5. <<e, d>> \in edges
    BY <1>2 DEF OpenCells, Adjacent
  <2> HIDE DEF edges
  <2>6. way(<<e, d>>) \in longer
    BY <2>5
  <2>7. way(<<e, d>>) = [cell |-> d, cost |-> e.cost + StepCost(e.cell, d)]
    OBVIOUS
  <2> HIDE DEF way, longer
  <2> QED
    BY <2>4, <2>6, <2>7, WayIs
<1>3. ASSUME NEW f \in longer
      PROVE  f \in reached \/
             \E e \in reached, d \in OpenCells : /\ Adjacent(e.cell, d)
                                                 /\ f = [cell |-> d, cost |-> e.cost + StepCost(e.cell, d)]
  <2>1. CASE f \in reached
    BY <2>1
  <2>2. CASE f \notin reached
    <3>1. PICK p \in edges : f = way(p)
      BY <1>3, <2>2
    <3>2. p[1] \in reached /\ p[2] \in OpenCells /\ Adjacent(p[1].cell, p[2])
      BY DEF OpenCells, Adjacent
    <3> QED
      BY <3>1, <3>2
  <2> QED
    BY <2>1, <2>2
<1> HIDE DEF longer
<1>4. longer \in SUBSET Ways
  BY <1>2, <1>3
<1>5. ASSUME NEW f \in longer PROVE \E e \in Further(reached) : e.cell = f.cell /\ e.cost <= f.cost
  <2> DEFINE S == {e.cost : e \in {x \in longer : x.cell = f.cell}}
  <2>1. S \in SUBSET Nat /\ f.cost \in S
    BY <1>4 DEF Ways
  <2>2. PICK x \in S : \A y \in S : x <= y
    <3> HIDE DEF S
    <3> QED
      BY <2>1, LeastNumber
  <2>3. PICK e \in longer : e.cell = f.cell /\ e.cost = x
    OBVIOUS
  <2>4. \A y \in longer : e.cell = y.cell => e.cost <= y.cost
    BY <2>2, <2>3
  <2> QED
    BY <1>1, <2>1, <2>2, <2>3, <2>4
<1>6. Further(reached) \in SUBSET Ways
  BY <1>1, <1>4
<1>7. \A e \in reached : \E f \in Further(reached) : f.cell = e.cell /\ f.cost <= e.cost
  BY <1>5 DEF longer
<1>8. ASSUME NEW e \in reached, NEW d \in OpenCells, Adjacent(e.cell, d)
      PROVE  \E f \in Further(reached) : f.cell = d /\ f.cost <= e.cost + StepCost(e.cell, d)
  BY <1>2, <1>5, <1>8
<1>9. ASSUME NEW f \in Further(reached)
      PROVE  f \in reached \/
             \E e \in reached : Adjacent(e.cell, f.cell) /\ f.cost = e.cost + StepCost(e.cell, f.cell)
  <2>1. f \in longer
    BY <1>1
  <2> QED
    BY <1>3, <2>1
<1>10. ASSUME NEW e \in Further(reached), NEW f \in Further(reached), e.cell = f.cell PROVE e = f
  <2>1. e.cost <= f.cost /\ f.cost <= e.cost /\ e \in Ways /\ f \in Ways
    BY <1>1, <1>6, <1>10
  <2> QED
    BY <1>10, <2>1 DEF Ways
<1> QED
  BY <1>6, <1>7, <1>8, <1>9, <1>10

(* What the rounds of CheapestFrom have found, one after the other.        *)
Rounds(found, from) ==
    /\ found \in [0 .. N * N -> SUBSET Ways]
    /\ found[0] = {[cell |-> from, cost |-> 0]}
    /\ \A n \in 1 .. N * N : found[n] = Further(found[n - 1])

(* What CheapestFrom returns is the last of its rounds.                    *)
LEMMA CheapestFromIs ==
    ASSUME SurfaceIs(surface), Penalised, NEW from \in OpenCells
    PROVE  \E found : Rounds(found, from) /\ CheapestFrom(from) = found[N * N]
<1> DEFINE first == {[cell |-> from, cost |-> 0]}
           step == [x \in SUBSET Ways |-> [n \in Nat |-> Further(x)]]
           M == N * N
           Step(f, n) == IF n = 0 THEN first ELSE Further(f[n - 1])
<1>1. M \in Nat
  BY CellsFinite
<1>2. first \in SUBSET Ways
  BY WayIs
<1>3. step \in [SUBSET Ways -> [Nat -> SUBSET Ways]]
  BY FurtherFacts
<1>4. PICK f \in [0 .. M -> SUBSET Ways] : f[0] = first /\ \A n \in 1 .. M : f[n] = step[f[n - 1]][n]
  <2> DEFINE T == SUBSET Ways
  <2>1. first \in T /\ step \in [T -> [Nat -> T]]
    BY <1>2, <1>3
  <2> HIDE DEF first, step, M, T
  <2>2. PICK f : Recursive(f, T, first, step, M)
    BY <1>1, <2>1, Recursion
  <2> QED
    BY <2>2 DEF Recursive, T
<1> HIDE DEF first, M
<1>5. \A n \in 1 .. M : f[n] = Further(f[n - 1])
  <2> TAKE n \in 1 .. M
  <2>1. n - 1 \in 0 .. M /\ n \in Nat
    BY <1>1
  <2>2. f[n - 1] \in SUBSET Ways
    BY <2>1
  <2>3. step[f[n - 1]][n] = Further(f[n - 1])
    BY <2>1, <2>2
  <2> QED
    BY <1>4, <2>3
<1> HIDE DEF step
<1>6. \A n \in 0 .. M : f[n] = Step(f, n)
  BY <1>1, <1>4, <1>5
<1>7. f = [n \in 0 .. M |-> f[n]]
  OBVIOUS
<1>8. f = [n \in 0 .. M |-> Step(f, n)]
  BY <1>6, <1>7, Zenon
<1> DEFINE g == CHOOSE h : h = [n \in 0 .. M |-> Step(h, n)]
<1>9. g = [n \in 0 .. M |-> Step(g, n)]
  BY <1>8, Zenon
<1>10. CheapestFrom(from) = g[M]
  BY DEF CheapestFrom, M, first
<1> HIDE DEF g
<1>11. \A n \in 0 .. M : g[n] = Step(g, n)
  BY <1>9
<1>12. g[0] = first /\ \A n \in 1 .. M : g[n] = Further(g[n - 1])
  BY <1>1, <1>11
<1>13. \A n \in 0 .. M : g[n] \in SUBSET Ways
  <2> DEFINE Bad == {n \in 0 .. M : g[n] \notin SUBSET Ways}
  <2> SUFFICES ASSUME Bad # {} PROVE FALSE
    OBVIOUS
  <2>1. PICK n \in Bad : \A m \in Bad : n <= m
    <3>1. Bad \in SUBSET Nat
      BY <1>1
    <3> HIDE DEF Bad
    <3> QED
      BY <3>1, LeastNumber
  <2>2. n \in 0 .. M /\ g[n] \notin SUBSET Ways
    OBVIOUS
  <2>3. n # 0
    BY <1>2, <1>12, <2>2
  <2>4. n \in 1 .. M /\ n - 1 \in 0 .. M /\ ~(n <= n - 1)
    BY <1>1, <2>2, <2>3
  <2>5. g[n - 1] \in SUBSET Ways
    BY <2>1, <2>4
  <2>6. g[n] \in SUBSET Ways
    BY <1>12, <2>4, <2>5, FurtherFacts
  <2> QED
    BY <2>2, <2>6
<1>14. g \in [0 .. M -> SUBSET Ways]
  <2>1. g = [n \in 0 .. M |-> g[n]]
    BY <1>9
  <2> QED
    BY <1>13, <2>1
<1> QED
  BY <1>10, <1>12, <1>14 DEF Rounds, M, first

(***************************************************************************)
(* What a search between two cells knows.  Nothing that is open costs less *)
(* than what is closed, by the estimate, so that nothing closed would be   *)
(* improved; a closed cell has reached its neighbours; and the cost of a   *)
(* cell is that of a walk: of one through the cell it came from, and of    *)
(* one that the rounds of CheapestFrom have found by the time they are as   *)
(* many as the closed cells.                                               *)
(***************************************************************************)
Labelled(s, from, to) ==
    /\ DOMAIN s = {"to", "g", "came", "closed", "open"}
    /\ s.to = to /\ to \in OpenCells /\ from \in OpenCells
    /\ s.g \in [DOMAIN s.g -> Nat] /\ DOMAIN s.g \subseteq OpenCells
    /\ from \in DOMAIN s.g /\ s.g[from] = 0
    /\ s.closed \subseteq DOMAIN s.g /\ to \notin s.closed

(* Every cell that is found and not closed waits in the heap with its      *)
(* estimate, and the closed cells come before the rest.                    *)
Frontier(s, to) ==
    /\ s.open \in SUBSET (Nat \X DOMAIN s.g)
    /\ \A e \in s.open : s.g[e[2]] + Estimate(e[2], to) <= e[1]
    /\ \A c \in DOMAIN s.g \ s.closed : <<s.g[c] + Estimate(c, to), c>> \in s.open
    /\ \A c \in s.closed, e \in s.open : s.g[c] + Estimate(c, to) <= e[1]

(* From a closed cell every neighbour is found, at no more than the edge.  *)
Settled(s) ==
    \A c \in s.closed, d \in OpenCells : Adjacent(c, d) =>
        d \in DOMAIN s.g /\ s.g[d] <= s.g[c] + StepCost(c, d)

(* A cell was found from the closed cell it came from, at the price of the *)
(* edge.                                                                   *)
Origins(s, from) ==
    /\ DOMAIN s.came = DOMAIN s.g \ {from}
    /\ \A d \in DOMAIN s.came :
         LET c == s.came[d] IN c \in s.closed /\ Adjacent(c, d) /\ s.g[d] = s.g[c] + StepCost(c, d)

(* The search is no better than the rounds: as many of them as there are   *)
(* closed cells have found as much.                                        *)
FoundSoFar(s, from) ==
    \A found : Rounds(found, from) =>
        \A c \in DOMAIN s.g : \E e \in found[Cardinality(s.closed)] : e.cell = c /\ e.cost <= s.g[c]

(* What a search knows between two expansions.                             *)
SearchIs(s, from, to) ==
    Labelled(s, from, to) /\ Frontier(s, to) /\ Settled(s) /\ Origins(s, from) /\ FoundSoFar(s, from)

(* It knows that when it begins.                                           *)
LEMMA SearchBegins ==
    ASSUME SurfaceIs(surface), Penalised, NEW from \in OpenCells, NEW to \in OpenCells, NEW s,
           s = [to |-> to, g |-> [c \in {from} |-> 0], came |-> <<>>, closed |-> {},
                open |-> {<<Estimate(from, to), from>>}]
    PROVE  SearchIs(s, from, to)
<1>1. /\ s.to = to /\ s.g = [c \in {from} |-> 0] /\ s.came = <<>> /\ s.closed = {}
      /\ s.open = {<<Estimate(from, to), from>>}
  OBVIOUS
<1>2. from \in Cells /\ to \in Cells
  BY DEF OpenCells
<1>3. Estimate(from, to) \in Nat
  BY <1>2, EstimateFacts
<1>4. Labelled(s, from, to)
  BY <1>1 DEF Labelled
<1>5. Frontier(s, to)
  BY <1>1, <1>3 DEF Frontier
<1>6. Settled(s) /\ Origins(s, from)
  <2>1. DOMAIN s.came = {}
    BY <1>1
  <2> QED
    BY <1>1, <2>1 DEF Settled, Origins
<1>7. FoundSoFar(s, from)
  <2> SUFFICES ASSUME NEW found, Rounds(found, from), NEW c \in DOMAIN s.g
               PROVE  \E e \in found[Cardinality(s.closed)] : e.cell = c /\ e.cost <= s.g[c]
    BY DEF FoundSoFar
  <2>1. Cardinality(s.closed) = 0 /\ c = from /\ s.g[c] = 0
    BY <1>1, FS_EmptySet
  <2>2. found[0] = {[cell |-> from, cost |-> 0]}
    BY DEF Rounds
  <2> DEFINE e == [cell |-> from, cost |-> 0]
  <2>3. e.cell = from /\ e.cost = 0 /\ e \in found[Cardinality(s.closed)]
    BY <2>1, <2>2
  <2> HIDE DEF e
  <2>4. e.cell = c /\ e.cost <= s.g[c]
    BY <2>1, <2>3
  <2> QED
    BY <2>3, <2>4
<1> QED
  BY <1>4, <1>5, <1>6, <1>7 DEF SearchIs

(* The top of a heap that is not empty.                                    *)
LEMMA TopFacts ==
    ASSUME search.open # {}, NEW D \in SUBSET Cells, search.open \in SUBSET (Nat \X D)
    PROVE  Top \in search.open /\ \A f \in search.open : Top[1] <= f[1]
<1> DEFINE keys == {e[1] : e \in search.open}
<1>1. \A e \in search.open : e[1] \in Nat /\ e[2] \in Cells /\ Index(e[2]) \in Nat
  <2>1. \A c \in Cells : Index(c) \in Nat
    <3> TAKE c \in Cells
    <3>1. c[1] * N \in Nat /\ c[2] \in Nat
      BY CellFacts, Multiplied
    <3> QED
      BY <3>1 DEF Index
  <2> QED
    BY <2>1
<1>2. PICK k \in keys : \A x \in keys : k <= x
  <2>1. keys \in SUBSET Nat /\ keys # {}
    BY <1>1
  <2> HIDE DEF keys
  <2> QED
    BY <2>1, LeastNumber
<1> DEFINE indices == {Index(e[2]) : e \in {x \in search.open : x[1] = k}}
<1>3. PICK i \in indices : \A x \in indices : i <= x
  <2>1. indices \in SUBSET Nat /\ indices # {}
    BY <1>1
  <2> HIDE DEF indices
  <2> QED
    BY <2>1, LeastNumber
<1>4. PICK e \in search.open : e[1] = k /\ Index(e[2]) = i
  OBVIOUS
<1>5. \A f \in search.open : Before(e, f)
  <2> TAKE f \in search.open
  <2>1. k <= f[1] /\ k \in Nat /\ f[1] \in Nat
    BY <1>1, <1>2
  <2>2. CASE f[1] = k
    <3>1. i <= Index(f[2])
      BY <1>3, <2>2
    <3> QED
      BY <1>4, <2>2, <3>1 DEF Before
  <2>3. CASE f[1] # k
    BY <1>4, <2>1, <2>3 DEF Before
  <2> QED
    BY <2>2, <2>3
<1>6. Top \in search.open /\ \A f \in search.open : Before(Top, f)
  BY <1>4, <1>5 DEF Top
<1>7. \A f \in search.open : Top[1] <= f[1]
  BY <1>1, <1>6 DEF Before
<1> QED
  BY <1>6, <1>7

(* A stale entry is left out.                                              *)
LEMMA SearchSkips ==
    ASSUME SurfaceIs(surface), Penalised, NEW from, NEW to, NEW s, SearchIs(s, from, to),
           NEW e \in s.open, e[2] \in s.closed, NEW t, t = [s EXCEPT !.open = @ \ {e}]
    PROVE  SearchIs(t, from, to)
<1>1. t.to = s.to /\ t.g = s.g /\ t.came = s.came /\ t.closed = s.closed /\ t.open = s.open \ {e}
        /\ DOMAIN t = DOMAIN s
  BY DEF SearchIs, Labelled
<1>2. Labelled(t, from, to) /\ Settled(t) /\ Origins(t, from) /\ FoundSoFar(t, from)
  BY <1>1 DEF SearchIs, Labelled, Settled, Origins, FoundSoFar
<1>3. Frontier(t, to)
  <2>1. \A c \in DOMAIN s.g \ s.closed : <<s.g[c] + Estimate(c, to), c>> # e
    OBVIOUS
  <2> QED
    BY <1>1, <2>1 DEF SearchIs, Frontier
<1> QED
  BY <1>2, <1>3 DEF SearchIs

(* The key of the top is its cost and estimate, and no closed cell is next.  *)
LEMMA TopKey ==
    ASSUME SurfaceIs(surface), Penalised, NEW from, NEW to, NEW s, SearchIs(s, from, to),
           NEW e \in s.open, \A f \in s.open : e[1] <= f[1], e[2] \notin s.closed
    PROVE  /\ e[2] \in DOMAIN s.g /\ e[2] \in OpenCells /\ s.g[e[2]] \in Nat
           /\ e[1] = s.g[e[2]] + Estimate(e[2], to) /\ e[1] \in Nat
           /\ \A c \in s.closed : s.g[c] + Estimate(c, to) <= e[1]
<1>1. e[1] \in Nat /\ e[2] \in DOMAIN s.g /\ s.g[e[2]] + Estimate(e[2], to) <= e[1]
  BY DEF SearchIs, Frontier
<1>2. <<s.g[e[2]] + Estimate(e[2], to), e[2]>> \in s.open
  BY <1>1 DEF SearchIs, Frontier
<1>3. e[1] <= s.g[e[2]] + Estimate(e[2], to)
  BY <1>2
<1>4. e[2] \in OpenCells /\ s.g[e[2]] \in Nat /\ to \in Cells /\ e[2] \in Cells
  BY <1>1 DEF SearchIs, Labelled, OpenCells
<1>5. Estimate(e[2], to) \in Nat
  BY <1>4, EstimateFacts
<1>6. \A c \in s.closed : s.g[c] + Estimate(c, to) <= e[1]
  BY DEF SearchIs, Frontier
<1> QED
  BY <1>1, <1>3, <1>4, <1>5, <1>6

(* The neighbours that are better reached from a cell, and the search once    *)
(* it has been expanded.                                                   *)
Improved(s, c) ==
    {d \in OpenCells :
        /\ Adjacent(c, d) /\ d \notin s.closed
        /\ d \in DOMAIN s.g => s.g[c] + StepCost(c, d) < s.g[d]}

(* The search after the expansion of c, its least entry.                   *)
Expanded(s, to, e, c, better, t) ==
    t = [s EXCEPT
           !.closed = @ \cup {c},
           !.g = [d \in DOMAIN @ \cup better |-> IF d \in better THEN s.g[c] + StepCost(c, d) ELSE @[d]],
           !.came = [d \in DOMAIN @ \cup better |-> IF d \in better THEN c ELSE @[d]],
           !.open = (@ \ {e}) \cup {<<s.g[c] + StepCost(c, d) + Estimate(d, to), d>> : d \in better}]

(* An expansion keeps it: a closed cell is never improved, since the       *)
(* estimate is consistent.                                                 *)
LEMMA SearchExpands ==
    ASSUME SurfaceIs(surface), Penalised, NEW from, NEW to, NEW s, SearchIs(s, from, to),
           NEW e \in s.open, \A f \in s.open : e[1] <= f[1], e[2] \notin s.closed, e[2] # to,
           NEW c, c = e[2],
           NEW better, better = Improved(s, c), NEW t, Expanded(s, to, e, c, better, t)
    PROVE  SearchIs(t, from, to)
<1>a. better = {d \in OpenCells :
                  /\ Adjacent(c, d) /\ d \notin s.closed
                  /\ d \in DOMAIN s.g => s.g[c] + StepCost(c, d) < s.g[d]}
  BY DEF Improved
<1>b. t = [s EXCEPT
             !.closed = @ \cup {c},
             !.g = [d \in DOMAIN @ \cup better |-> IF d \in better THEN s.g[c] + StepCost(c, d) ELSE @[d]],
             !.came = [d \in DOMAIN @ \cup better |-> IF d \in better THEN c ELSE @[d]],
             !.open = (@ \ {e}) \cup {<<s.g[c] + StepCost(c, d) + Estimate(d, to), d>> : d \in better}]
  BY DEF Expanded
<1>1. /\ c \in DOMAIN s.g /\ c \in OpenCells /\ s.g[c] \in Nat /\ c \notin s.closed /\ c # to
      /\ e[1] = s.g[c] + Estimate(c, to) /\ e[1] \in Nat
      /\ \A b \in s.closed : s.g[b] + Estimate(b, to) <= e[1]
  BY TopKey
<1>2. Labelled(s, from, to) /\ Frontier(s, to) /\ Settled(s) /\ Origins(s, from) /\ FoundSoFar(s, from)
  BY DEF SearchIs
<1>3. /\ DOMAIN t = DOMAIN s /\ t.to = s.to /\ t.closed = s.closed \cup {c}
      /\ t.g = [d \in DOMAIN s.g \cup better |-> IF d \in better THEN s.g[c] + StepCost(c, d) ELSE s.g[d]]
      /\ t.came = [d \in DOMAIN s.came \cup better |-> IF d \in better THEN c ELSE s.came[d]]
      /\ t.open = (s.open \ {e}) \cup {<<s.g[c] + StepCost(c, d) + Estimate(d, to), d>> : d \in better}
  BY <1>2, <1>b DEF Labelled
<1>4. /\ to \in Cells /\ from \in OpenCells /\ \A d \in OpenCells : d \in Cells /\ Estimate(d, to) \in Nat
      /\ \A d \in DOMAIN s.g : d \in OpenCells /\ s.g[d] \in Nat
  <2>1. to \in Cells /\ from \in OpenCells /\ \A d \in OpenCells : d \in Cells
    BY <1>2 DEF Labelled, OpenCells
  <2> QED
    BY <1>2, <2>1, EstimateFacts DEF Labelled
<1>5. \A b, d \in OpenCells : Adjacent(b, d) =>
          /\ StepCost(b, d) \in Nat /\ StepCost(b, d) > 0
          /\ Estimate(b, to) <= StepCost(b, d) + Estimate(d, to)
  BY <1>4, EstimateFacts
<1>6. \A d \in better : /\ d \in OpenCells /\ Adjacent(c, d) /\ d \notin s.closed /\ d # c /\ d # from
                        /\ d \in DOMAIN s.g => s.g[c] + StepCost(c, d) < s.g[d]
                        /\ s.g[c] + StepCost(c, d) \in Nat
  <2> TAKE d \in better
  <2>1. d \in OpenCells /\ Adjacent(c, d) /\ d \notin s.closed /\ (d \in DOMAIN s.g => s.g[c] + StepCost(c, d) < s.g[d])
    BY <1>a
  <2>2. StepCost(c, d) \in Nat /\ StepCost(c, d) > 0 /\ s.g[c] + StepCost(c, d) \in Nat
    BY <1>1, <1>5, <2>1
  <2>3. d # c
    BY <1>1, <2>1, <2>2
  <2>4. d # from
    BY <1>1, <1>2, <2>1, <2>2 DEF Labelled
  <2> QED
    BY <2>1, <2>2, <2>3, <2>4
<1>7. /\ DOMAIN t.g = DOMAIN s.g \cup better
      /\ \A d \in better : t.g[d] = s.g[c] + StepCost(c, d)
      /\ \A d \in DOMAIN s.g : d \notin better => t.g[d] = s.g[d]
      /\ \A d \in DOMAIN s.g : t.g[d] <= s.g[d]
      /\ \A d \in t.closed : d \in DOMAIN s.g /\ d \notin better /\ t.g[d] = s.g[d]
  <2>1. /\ DOMAIN t.g = DOMAIN s.g \cup better
        /\ \A d \in better : t.g[d] = s.g[c] + StepCost(c, d)
        /\ \A d \in DOMAIN s.g : d \notin better => t.g[d] = s.g[d]
    BY <1>3
  <2>2. \A d \in DOMAIN s.g : t.g[d] <= s.g[d]
    BY <1>4, <1>6, <2>1
  <2>3. \A d \in t.closed : d \in DOMAIN s.g /\ d \notin better
    BY <1>1, <1>2, <1>3, <1>6 DEF Labelled
  <2> QED
    BY <2>1, <2>2, <2>3
<1>8. \A d \in DOMAIN t.g : t.g[d] \in Nat /\ d \in OpenCells
  BY <1>4, <1>6, <1>7
<1>9. Labelled(t, from, to)
  <2>1. t.g \in [DOMAIN t.g -> Nat]
    <3>1. t.g = [d \in DOMAIN t.g |-> t.g[d]]
      BY <1>3
    <3> QED
      BY <1>8, <3>1
  <2>2. from \in DOMAIN t.g /\ t.g[from] = 0
    BY <1>2, <1>6, <1>7 DEF Labelled
  <2>3. t.closed \subseteq DOMAIN t.g /\ to \notin t.closed
    BY <1>1, <1>2, <1>3, <1>7 DEF Labelled
  <2> QED
    BY <1>2, <1>3, <1>8, <2>1, <2>2, <2>3 DEF Labelled
<1> HIDE DEF SearchIs
<1>10. Frontier(t, to)
  <2>1. \A f \in t.open : f \in s.open \/ \E d \in better : f = <<t.g[d] + Estimate(d, to), d>>
    BY <1>3, <1>7
  <2>2. \A f \in s.open : f[1] \in Nat /\ f[2] \in DOMAIN s.g /\ s.g[f[2]] + Estimate(f[2], to) <= f[1]
          /\ f = <<f[1], f[2]>>
    BY <1>2 DEF Frontier
  <2>3. ASSUME NEW f \in t.open
        PROVE  f \in Nat \X DOMAIN t.g /\ t.g[f[2]] + Estimate(f[2], to) <= f[1] /\ e[1] <= f[1]
    <3>1. CASE f \in s.open
      <4>1. t.g[f[2]] <= s.g[f[2]] /\ t.g[f[2]] \in Nat /\ s.g[f[2]] \in Nat /\ Estimate(f[2], to) \in Nat
        BY <1>4, <1>7, <1>8, <2>2, <3>1
      <4>2. t.g[f[2]] + Estimate(f[2], to) <= f[1]
        BY <2>2, <3>1, <4>1
      <4>3. f[2] \in DOMAIN t.g
        BY <1>7, <2>2, <3>1
      <4> QED
        BY <2>2, <3>1, <4>2, <4>3
    <3>2. CASE f \notin s.open
      <4>1. PICK d \in better : f = <<t.g[d] + Estimate(d, to), d>>
        BY <2>1, <2>3, <3>2
      <4>2. d \in OpenCells /\ d \in DOMAIN t.g /\ t.g[d] \in Nat /\ Estimate(d, to) \in Nat
             /\ t.g[d] = s.g[c] + StepCost(c, d)
        BY <1>4, <1>6, <1>7, <1>8
      <4>3. StepCost(c, d) \in Nat /\ Estimate(c, to) <= StepCost(c, d) + Estimate(d, to) /\ Estimate(c, to) \in Nat
        BY <1>1, <1>4, <1>5, <1>6
      <4>4. f[1] = t.g[d] + Estimate(d, to) /\ f[2] = d /\ f[1] \in Nat /\ f = <<f[1], d>>
        <5> DEFINE x == t.g[d] + Estimate(d, to)
        <5>1. x \in Nat
          BY <4>2
        <5>2. f = <<x, d>>
          BY <4>1, Zenon
        <5> HIDE DEF x
        <5>3. f[1] = x /\ f[2] = d
          BY <5>2
        <5> QED
          BY <5>1, <5>2, <5>3 DEF x
      <4>5. e[1] <= f[1]
        BY <1>1, <4>2, <4>3, <4>4
      <4>6. t.g[f[2]] + Estimate(f[2], to) <= f[1]
        BY <4>2, <4>4
      <4>7. <<f[1], d>> \in Nat \X DOMAIN t.g
        BY <4>2, <4>4
      <4> QED
        BY <4>4, <4>5, <4>6, <4>7
    <3> QED
      BY <3>1, <3>2
  <2>4. ASSUME NEW d \in DOMAIN t.g \ t.closed PROVE <<t.g[d] + Estimate(d, to), d>> \in t.open
    <3>1. CASE d \in better
      BY <1>3, <1>7, <3>1
    <3>2. CASE d \notin better
      <4>1. d \in DOMAIN s.g \ s.closed /\ t.g[d] = s.g[d] /\ d # c
        BY <1>3, <1>7, <3>2
      <4>2. <<s.g[d] + Estimate(d, to), d>> \in s.open
        BY <1>2, <4>1 DEF Frontier
      <4>3. <<s.g[d] + Estimate(d, to), d>> # e
        BY <4>1
      <4> QED
        BY <1>3, <4>1, <4>2, <4>3
    <3> QED
      BY <3>1, <3>2
  <2>5. ASSUME NEW d \in t.closed, NEW f \in t.open PROVE t.g[d] + Estimate(d, to) <= f[1]
    <3>1. t.g[d] = s.g[d] /\ s.g[d] \in Nat /\ Estimate(d, to) \in Nat
      BY <1>4, <1>7
    <3>2. s.g[d] + Estimate(d, to) <= e[1]
      <4>1. CASE d = c
        BY <1>1, <3>1, <4>1
      <4>2. CASE d # c
        BY <1>1, <1>3, <4>2
      <4> QED
        BY <4>1, <4>2
    <3>3. e[1] <= f[1] /\ f[1] \in Nat
      BY <2>3
    <3> QED
      BY <1>1, <3>1, <3>2, <3>3
  <2> QED
    BY <2>3, <2>4, <2>5 DEF Frontier
<1>11. Settled(t)
  <2> SUFFICES ASSUME NEW b \in t.closed, NEW d \in OpenCells, Adjacent(b, d)
               PROVE  d \in DOMAIN t.g /\ t.g[d] <= t.g[b] + StepCost(b, d)
    BY DEF Settled
  <2>1. t.g[b] = s.g[b] /\ b \in DOMAIN s.g /\ b \in OpenCells /\ s.g[b] \in Nat /\ StepCost(b, d) \in Nat
    BY <1>4, <1>5, <1>7
  <2>2. CASE b \in s.closed
    <3>1. d \in DOMAIN s.g /\ s.g[d] <= s.g[b] + StepCost(b, d)
      BY <1>2, <2>2 DEF Settled
    <3>2. d \in DOMAIN t.g /\ t.g[d] <= s.g[d] /\ t.g[d] \in Nat /\ s.g[d] \in Nat
      BY <1>4, <1>7, <1>8, <3>1
    <3> QED
      BY <2>1, <3>1, <3>2
  <2>3. CASE b = c /\ d \in better
    BY <1>4, <1>7, <1>8, <2>1, <2>3
  <2>4. CASE b = c /\ d \notin better
    <3>1. CASE d \in s.closed
      <4>1. s.g[d] + Estimate(d, to) <= s.g[c] + Estimate(c, to)
        BY <1>1, <3>1
      <4>2. Estimate(c, to) <= StepCost(c, d) + Estimate(d, to) /\ Estimate(d, to) \in Nat /\ Estimate(c, to) \in Nat
        BY <1>1, <1>4, <1>5, <2>4
      <4>3. d \in DOMAIN s.g /\ s.g[d] \in Nat /\ t.g[d] = s.g[d]
        BY <1>2, <1>4, <1>7, <2>4, <3>1 DEF Labelled
      <4>4. s.g[d] <= s.g[c] + StepCost(c, d)
        BY <2>1, <2>4, <4>1, <4>2, <4>3
      <4> QED
        BY <1>7, <2>1, <2>4, <4>3, <4>4
    <3>2. CASE d \notin s.closed
      <4>1. d \in DOMAIN s.g /\ ~(s.g[c] + StepCost(c, d) < s.g[d])
        BY <1>a, <2>4, <3>2
      <4>2. t.g[d] = s.g[d] /\ s.g[d] \in Nat /\ d \in DOMAIN t.g
        BY <1>4, <1>7, <2>4, <4>1
      <4> QED
        BY <2>1, <2>4, <4>1, <4>2
    <3> QED
      BY <3>1, <3>2
  <2> QED
    BY <1>3, <2>2, <2>3, <2>4
<1>12. Origins(t, from)
  <2>1. DOMAIN t.came = DOMAIN t.g \ {from}
    BY <1>2, <1>3, <1>6, <1>7 DEF Origins
  <2>2. ASSUME NEW d \in DOMAIN t.came
        PROVE  LET b == t.came[d] IN b \in t.closed /\ Adjacent(b, d) /\ t.g[d] = t.g[b] + StepCost(b, d)
    <3>1. CASE d \in better
      <4>1. t.came[d] = c /\ t.g[c] = s.g[c] /\ t.g[d] = s.g[c] + StepCost(c, d) /\ c \in t.closed
        BY <1>3, <1>7, <3>1
      <4> QED
        BY <1>6, <3>1, <4>1
    <3>2. CASE d \notin better
      <4> DEFINE b == s.came[d]
      <4>1. d \in DOMAIN s.came /\ t.came[d] = b
        BY <1>3, <3>2
      <4>2. b \in s.closed /\ Adjacent(b, d) /\ s.g[d] = s.g[b] + StepCost(b, d) /\ d \in DOMAIN s.g
        BY <1>2, <4>1 DEF Origins
      <4>3. b \in t.closed /\ t.g[b] = s.g[b] /\ t.g[d] = s.g[d]
        BY <1>3, <1>7, <3>2, <4>2
      <4> QED
        BY <4>1, <4>2, <4>3
    <3> QED
      BY <3>1, <3>2
  <2> QED
    BY <2>1, <2>2 DEF Origins
<1>13. FoundSoFar(t, from)
  <2> SUFFICES ASSUME NEW found, Rounds(found, from), NEW d \in DOMAIN t.g
               PROVE  \E f \in found[Cardinality(t.closed)] : f.cell = d /\ f.cost <= t.g[d]
    BY DEF FoundSoFar
  <2> DEFINE n == Cardinality(s.closed)
             M == N * N
  <2>1. n \in Nat /\ n + 1 \in 1 .. M /\ Cardinality(t.closed) = n + 1 /\ n \in 0 .. M /\ (n + 1) - 1 = n
    <3>1. s.closed \in SUBSET Cells /\ t.closed \in SUBSET Cells
      BY <1>1, <1>2, <1>3, <1>4 DEF Labelled
    <3>2. IsFiniteSet(s.closed) /\ n \in 0 .. M /\ Cardinality(t.closed) \in 0 .. M /\ M \in Nat
      BY <3>1, CellsFinite
    <3>3. Cardinality(s.closed \cup {c}) = n + 1
      BY <1>1, <3>2, FS_AddElement
    <3>4. Cardinality(t.closed) = n + 1
      BY <1>3, <3>3
    <3> HIDE DEF n, M
    <3> QED
      BY <3>2, <3>4
  <2> HIDE DEF n
  <2>2. found[n + 1] = Further(found[n]) /\ found[n] \in SUBSET Ways
    <3>1. found \in [0 .. M -> SUBSET Ways] /\ \A i \in 1 .. M : found[i] = Further(found[i - 1])
      BY DEF Rounds
    <3> HIDE DEF M
    <3>2. found[n + 1] = Further(found[(n + 1) - 1])
      BY <2>1, <3>1
    <3> QED
      BY <2>1, <3>1, <3>2
  <2>3. \A b \in DOMAIN s.g : \E f \in found[n] : f.cell = b /\ f.cost <= s.g[b]
    BY <1>2 DEF FoundSoFar, n
  <2>4. CASE d \notin better
    <3>1. d \in DOMAIN s.g /\ t.g[d] = s.g[d] /\ s.g[d] \in Nat
      BY <1>4, <1>7, <2>4
    <3>2. PICK f \in found[n] : f.cell = d /\ f.cost <= s.g[d]
      BY <2>3, <3>1
    <3>3. PICK h \in found[n + 1] : h.cell = d /\ h.cost <= f.cost
      BY <2>2, <3>2, FurtherFacts
    <3>4. h.cost \in Nat /\ f.cost \in Nat
      BY <2>2, FurtherFacts DEF Ways
    <3> QED
      BY <2>1, <3>1, <3>2, <3>3, <3>4
  <2>5. CASE d \in better
    <3>1. PICK f \in found[n] : f.cell = c /\ f.cost <= s.g[c]
      BY <1>1, <2>3
    <3>2. d \in OpenCells /\ Adjacent(f.cell, d) /\ StepCost(c, d) \in Nat
      BY <1>1, <1>5, <1>6, <2>5, <3>1
    <3>3. PICK h \in found[n + 1] : h.cell = d /\ h.cost <= f.cost + StepCost(f.cell, d)
      BY <2>2, <3>2, FurtherFacts
    <3>4. h.cost \in Nat /\ f.cost \in Nat
      BY <2>2, FurtherFacts DEF Ways
    <3>5. t.g[d] = s.g[c] + StepCost(c, d) /\ s.g[c] \in Nat
      BY <1>1, <1>7, <2>5
    <3>6. h.cost <= t.g[d]
      BY <3>1, <3>2, <3>3, <3>4, <3>5
    <3> QED
      BY <2>1, <3>3, <3>6
  <2> QED
    BY <2>4, <2>5
<1> QED
  BY <1>9, <1>10, <1>11, <1>12, <1>13 DEF SearchIs

-----------------------------------------------------------------------------
(* Sums *)

(* What a sum has come to at each place.                                   *)
RunningSum(s, upTo) ==
    /\ upTo \in [0 .. Len(s) -> Nat] /\ upTo[0] = 0
    /\ \A n \in 1 .. Len(s) : upTo[n] = upTo[n - 1] + s[n]

(* The sum of a sequence is the last of its running sums.                  *)
LEMMA TotalIs ==
    ASSUME NEW s \in Seq(Nat)
    PROVE  \E upTo : RunningSum(s, upTo) /\ Total(s) = upTo[Len(s)]
<1> DEFINE M == Len(s)
           step == [x \in Nat |-> [n \in Nat |-> IF n \in 1 .. M THEN x + s[n] ELSE x]]
           Step(f, n) == IF n = 0 THEN 0 ELSE f[n - 1] + s[n]
<1>1. M \in Nat /\ \A n \in 1 .. M : s[n] \in Nat
  OBVIOUS
<1> HIDE DEF M
<1>2. step \in [Nat -> [Nat -> Nat]]
  BY <1>1
<1> DEFINE first == 0
<1>3. first \in Nat
  OBVIOUS
<1> HIDE DEF step, first
<1>4. PICK f : Recursive(f, Nat, first, step, M)
  BY <1>1, <1>2, <1>3, Recursion
<1>5. f \in [0 .. M -> Nat] /\ f[0] = 0 /\ \A n \in 1 .. M : f[n] = step[f[n - 1]][n]
  BY <1>4 DEF Recursive, first
<1>6. \A n \in 1 .. M : f[n] = f[n - 1] + s[n]
  <2> TAKE n \in 1 .. M
  <2>1. n - 1 \in 0 .. M /\ n \in Nat
    BY <1>1
  <2>2. f[n - 1] \in Nat
    BY <1>5, <2>1
  <2>3. step[f[n - 1]][n] = f[n - 1] + s[n]
    BY <2>1, <2>2 DEF step
  <2> QED
    BY <1>5, <2>3
<1>7. \A n \in 0 .. M : f[n] = Step(f, n)
  BY <1>1, <1>5, <1>6
<1>8. f = [n \in 0 .. M |-> f[n]]
  BY <1>5
<1>9. f = [n \in 0 .. M |-> Step(f, n)]
  BY <1>7, <1>8, Zenon
<1> DEFINE g == CHOOSE h : h = [n \in 0 .. M |-> Step(h, n)]
<1>10. g = [n \in 0 .. M |-> Step(g, n)]
  BY <1>9, Zenon
<1>11. Total(s) = g[M]
  BY DEF Total, M
<1> HIDE DEF g
<1>12. g[0] = 0 /\ \A n \in 1 .. M : g[n] = g[n - 1] + s[n]
  <2>1. \A n \in 0 .. M : g[n] = Step(g, n)
    BY <1>10
  <2> QED
    BY <1>1, <2>1
<1>13. \A n \in 0 .. M : g[n] \in Nat
  <2> DEFINE Bad == {n \in 0 .. M : g[n] \notin Nat}
  <2> SUFFICES ASSUME Bad # {} PROVE FALSE
    OBVIOUS
  <2>1. PICK n \in Bad : \A m \in Bad : n <= m
    <3>1. Bad \in SUBSET Nat
      BY <1>1
    <3> HIDE DEF Bad
    <3> QED
      BY <3>1, LeastNumber
  <2>2. n \in 1 .. M /\ g[n] \notin Nat
    BY <1>1, <1>12
  <2>3. n - 1 \in 0 .. M /\ ~(n <= n - 1)
    BY <1>1, <2>2
  <2>4. g[n - 1] \in Nat
    BY <2>1, <2>3
  <2>5. s[n] \in Nat
    BY <1>1, <2>2
  <2>6. g[n] = g[n - 1] + s[n]
    BY <1>12, <2>2
  <2>7. g[n - 1] + s[n] \in Nat
    BY <2>4, <2>5
  <2> QED
    BY <2>2, <2>6, <2>7
<1>14. g \in [0 .. M -> Nat]
  <2>1. g = [n \in 0 .. M |-> g[n]]
    BY <1>10
  <2> QED
    BY <1>13, <2>1
<1> QED
  BY <1>11, <1>12, <1>14 DEF RunningSum, M

(* Two sums that grow alike keep their distance.                           *)
LEMMA SameGrowth ==
    ASSUME NEW m \in Nat, NEW u \in [0 .. m -> Int], NEW v \in [0 .. m -> Int],
           \A n \in 1 .. m : u[n] - u[n - 1] = v[n] - v[n - 1]
    PROVE  u[m] - v[m] = u[0] - v[0]
<1> DEFINE Bad == {n \in 0 .. m : u[n] - v[n] # u[0] - v[0]}
<1> SUFFICES ASSUME Bad # {} PROVE FALSE
  <2>1. m \in 0 .. m
    OBVIOUS
  <2> QED
    BY <2>1
<1>1. PICK n \in Bad : \A k \in Bad : n <= k
  <2>1. Bad \in SUBSET Nat
    OBVIOUS
  <2> HIDE DEF Bad
  <2> QED
    BY <2>1, LeastNumber
<1>2. n \in 1 .. m /\ u[n] - v[n] # u[0] - v[0]
  OBVIOUS
<1>3. n - 1 \in 0 .. m /\ ~(n <= n - 1)
  BY <1>2
<1>4. n - 1 \notin Bad
  BY <1>1, <1>3
<1>5. u[n - 1] - v[n - 1] = u[0] - v[0]
  BY <1>3, <1>4
<1>6. u[n] \in Int /\ v[n] \in Int /\ u[n - 1] \in Int /\ v[n - 1] \in Int /\ u[0] \in Int /\ v[0] \in Int
  BY <1>2, <1>3
<1>7. u[n] - u[n - 1] = v[n] - v[n - 1]
  BY <1>2
<1> DEFINE a == u[n]
           b == v[n]
           c == u[n - 1]
           d == v[n - 1]
           e == u[0]
           f == v[0]
<1>8. /\ a - b # e - f /\ c - d = e - f /\ a - c = b - d
      /\ a \in Int /\ b \in Int /\ c \in Int /\ d \in Int /\ e \in Int /\ f \in Int
  BY <1>2, <1>5, <1>6, <1>7
<1> HIDE DEF Bad, a, b, c, d, e, f
<1> QED
  BY <1>8

(* It is a number.                                                         *)
LEMMA TotalIsNat ==
    ASSUME NEW s \in Seq(Nat)
    PROVE  Total(s) \in Nat
<1>1. PICK u : RunningSum(s, u) /\ Total(s) = u[Len(s)]
  BY TotalIs
<1>2. Len(s) \in 0 .. Len(s)
  OBVIOUS
<1> QED
  BY <1>1, <1>2 DEF RunningSum

(* Nothing adds up to nothing.                                             *)
LEMMA TotalOfEmpty == Total(<<>>) = 0
<1>1. <<>> \in Seq(Nat) /\ Len(<<>>) = 0
  OBVIOUS
<1>2. PICK u : RunningSum(<<>>, u) /\ Total(<<>>) = u[Len(<<>>)]
  BY <1>1, TotalIs
<1> QED
  BY <1>1, <1>2 DEF RunningSum

(* The sum of two sequences, one behind the other.                         *)
LEMMA TotalOfBoth ==
    ASSUME NEW s \in Seq(Nat), NEW t \in Seq(Nat)
    PROVE  Total(s \o t) = Total(s) + Total(t)
<1> DEFINE m == Len(s)
           k == Len(t)
           b == s \o t
<1>1. /\ m \in Nat /\ k \in Nat /\ b \in Seq(Nat) /\ Len(b) = m + k
      /\ \A n \in 1 .. m : b[n] = s[n] /\ s[n] \in Nat
      /\ \A n \in 1 .. k : b[m + n] = t[n] /\ t[n] \in Nat
  OBVIOUS
<1>2. PICK u : RunningSum(s, u) /\ Total(s) = u[m]
  BY TotalIs
<1>3. PICK v : RunningSum(t, v) /\ Total(t) = v[k]
  BY TotalIs
<1>4. PICK w : RunningSum(b, w) /\ Total(b) = w[m + k]
  BY <1>1, TotalIs
<1>5. /\ u \in [0 .. m -> Nat] /\ u[0] = 0 /\ \A n \in 1 .. m : u[n] = u[n - 1] + s[n]
      /\ v \in [0 .. k -> Nat] /\ v[0] = 0 /\ \A n \in 1 .. k : v[n] = v[n - 1] + t[n]
      /\ w \in [0 .. m + k -> Nat] /\ w[0] = 0 /\ \A n \in 1 .. m + k : w[n] = w[n - 1] + b[n]
  BY <1>1, <1>2, <1>3, <1>4 DEF RunningSum
<1> HIDE DEF m, k, b
<1>6. w[m] = u[m]
  <2> DEFINE x == [n \in 0 .. m |-> w[n]]
  <2>1. x \in [0 .. m -> Int] /\ u \in [0 .. m -> Int]
    BY <1>1, <1>5
  <2>2. \A n \in 1 .. m : x[n] - x[n - 1] = u[n] - u[n - 1]
    <3> TAKE n \in 1 .. m
    <3>1. n \in 0 .. m /\ n - 1 \in 0 .. m /\ n \in 1 .. m + k /\ n \in 0 .. m + k /\ n - 1 \in 0 .. m + k
      BY <1>1
    <3>2. x[n] = w[n] /\ x[n - 1] = w[n - 1] /\ w[n] = w[n - 1] + s[n] /\ u[n] = u[n - 1] + s[n]
      BY <1>1, <1>5, <3>1
    <3>3. w[n - 1] \in Nat /\ u[n - 1] \in Nat /\ s[n] \in Nat
      BY <1>1, <1>5, <3>1
    <3> QED
      BY <3>2, <3>3
  <2>3. x[0] = w[0] /\ x[m] = w[m]
    BY <1>1
  <2> HIDE DEF x
  <2>4. x[m] - u[m] = x[0] - u[0]
    BY <1>1, <2>1, <2>2, SameGrowth
  <2>5. w[m] \in Nat /\ u[m] \in Nat
    BY <1>1, <1>5
  <2> QED
    BY <1>5, <2>3, <2>4, <2>5
<1>7. w[m + k] - w[m] = v[k]
  <2> DEFINE x == [n \in 0 .. k |-> w[m + n]]
  <2>1. x \in [0 .. k -> Int] /\ v \in [0 .. k -> Int]
    BY <1>1, <1>5
  <2>2. \A n \in 1 .. k : x[n] - x[n - 1] = v[n] - v[n - 1]
    <3> TAKE n \in 1 .. k
    <3>1. n \in 0 .. k /\ n - 1 \in 0 .. k /\ m + n \in 1 .. m + k /\ m + n \in 0 .. m + k /\ m + (n - 1) \in 0 .. m + k
            /\ (m + n) - 1 = m + (n - 1)
      BY <1>1
    <3>2. x[n] = w[m + n] /\ x[n - 1] = w[m + (n - 1)] /\ w[m + n] = w[m + (n - 1)] + t[n] /\ v[n] = v[n - 1] + t[n]
      <4>1. w[m + n] = w[(m + n) - 1] + b[m + n]
        BY <1>5, <3>1
      <4>2. b[m + n] = t[n]
        BY <1>1
      <4> QED
        BY <1>5, <3>1, <4>1, <4>2
    <3>3. w[m + (n - 1)] \in Nat /\ v[n - 1] \in Nat /\ t[n] \in Nat
      BY <1>1, <1>5, <3>1
    <3> QED
      BY <3>2, <3>3
  <2>3. x[0] = w[m] /\ x[k] = w[m + k]
    BY <1>1
  <2> HIDE DEF x
  <2>4. x[k] - v[k] = x[0] - v[0]
    BY <1>1, <2>1, <2>2, SameGrowth
  <2>5. w[m] \in Nat /\ w[m + k] \in Nat /\ v[k] \in Nat
    BY <1>1, <1>5
  <2> QED
    BY <1>5, <2>3, <2>4, <2>5
<1>8. w[m] \in Nat /\ w[m + k] \in Nat /\ v[k] \in Nat
  BY <1>1, <1>5
<1> QED
  BY <1>2, <1>3, <1>4, <1>6, <1>7, <1>8 DEF b

(* The sum of a sequence that is a multiple of another.                    *)
LEMMA TotalScaled ==
    ASSUME NEW s \in Seq(Nat), NEW t \in Seq(Nat), Len(t) = Len(s), NEW k \in Nat,
           \A n \in 1 .. Len(s) : t[n] = k * s[n]
    PROVE  Total(t) = k * Total(s)
<1> DEFINE m == Len(s)
<1>1. m \in Nat /\ Len(t) = m /\ \A n \in 1 .. m : s[n] \in Nat
  OBVIOUS
<1>2. PICK u : RunningSum(s, u) /\ Total(s) = u[m]
  BY TotalIs
<1>3. PICK v : RunningSum(t, v) /\ Total(t) = v[m]
  BY TotalIs
<1>4. /\ u \in [0 .. m -> Nat] /\ u[0] = 0 /\ \A n \in 1 .. m : u[n] = u[n - 1] + s[n]
      /\ v \in [0 .. m -> Nat] /\ v[0] = 0 /\ \A n \in 1 .. m : v[n] = v[n - 1] + k * s[n]
  BY <1>1, <1>2, <1>3 DEF RunningSum
<1> HIDE DEF m
<1> DEFINE x == [n \in 0 .. m |-> k * u[n]]
<1>5. \A n \in 0 .. m : k * u[n] \in Nat
  BY <1>1, <1>4, Multiplied
<1>6. x \in [0 .. m -> Int] /\ v \in [0 .. m -> Int]
  BY <1>1, <1>4, <1>5
<1>7. \A n \in 1 .. m : x[n] - x[n - 1] = v[n] - v[n - 1]
  <2> TAKE n \in 1 .. m
  <2>1. n \in 0 .. m /\ n - 1 \in 0 .. m
    BY <1>1
  <2>2. u[n - 1] \in Nat /\ s[n] \in Nat /\ v[n - 1] \in Nat /\ u[n] = u[n - 1] + s[n] /\ v[n] = v[n - 1] + k * s[n]
    BY <1>1, <1>4, <2>1
  <2>3. k * u[n] = k * u[n - 1] + k * s[n]
    BY <2>2
  <2>4. k * u[n - 1] \in Nat /\ k * s[n] \in Nat
    BY <2>2, Multiplied
  <2>5. x[n] = k * u[n] /\ x[n - 1] = k * u[n - 1]
    BY <2>1
  <2> DEFINE a == k * u[n - 1]
             b == k * s[n]
             c == k * u[n]
  <2>6. a \in Nat /\ b \in Nat /\ c = a + b /\ x[n] = c /\ x[n - 1] = a /\ v[n] = v[n - 1] + b /\ v[n - 1] \in Nat
    BY <2>2, <2>3, <2>4, <2>5
  <2> HIDE DEF a, b, c, x
  <2> QED
    BY <2>6
<1>8. x[0] = 0 /\ x[m] = k * u[m]
  <2>1. k * 0 = 0
    OBVIOUS
  <2> QED
    BY <1>1, <1>4, <2>1
<1> HIDE DEF x
<1>9. x[m] - v[m] = x[0] - v[0]
  BY <1>1, <1>6, <1>7, SameGrowth
<1>10. v[m] \in Int /\ x[m] \in Int
  BY <1>1, <1>6
<1>11. x[m] = v[m]
  BY <1>4, <1>8, <1>9, <1>10
<1> QED
  BY <1>2, <1>3, <1>8, <1>11 DEF m

-----------------------------------------------------------------------------
(* The end of a search *)

(* A way to a cell at a cost is behind a search when the search has closed  *)
(* the cell at no greater cost, or is not to overlook the way: something is *)
(* open that is tried first.                                               *)
Considered(s, to, c, x) ==
    (c \in s.closed /\ s.g[c] <= x) \/ \E e \in s.open : e[1] <= x + Estimate(c, to)

(* The search considers its own start.                                     *)
LEMMA StartConsidered ==
    ASSUME SurfaceIs(surface), Penalised, NEW from, NEW to, NEW s, SearchIs(s, from, to)
    PROVE  Considered(s, to, from, 0)
<1>1. from \in DOMAIN s.g /\ s.g[from] = 0 /\ from \in Cells /\ to \in Cells
  BY DEF SearchIs, Labelled, OpenCells
<1>2. CASE from \in s.closed
  BY <1>1, <1>2 DEF Considered
<1>3. CASE from \notin s.closed
  <2>1. <<s.g[from] + Estimate(from, to), from>> \in s.open
    BY <1>1, <1>3 DEF SearchIs, Frontier
  <2>2. Estimate(from, to) \in Nat
    BY <1>1, EstimateFacts
  <2>3. 0 + Estimate(from, to) <= 0 + Estimate(from, to)
    BY <2>2
  <2> QED
    BY <1>1, <2>1, <2>3 DEF Considered
<1> QED
  BY <1>2, <1>3

(* It considers a step from what it considers: a closed cell passes the    *)
(* price on, and an open one waits no dearer.                              *)
LEMMA StepConsidered ==
    ASSUME SurfaceIs(surface), Penalised, NEW from, NEW to, NEW s, SearchIs(s, from, to),
           NEW c \in OpenCells, NEW d \in OpenCells, Adjacent(c, d), NEW x \in Nat, Considered(s, to, c, x)
    PROVE  Considered(s, to, d, x + StepCost(c, d))
<1>1. /\ c \in Cells /\ d \in Cells /\ to \in Cells
      /\ Frontier(s, to) /\ Settled(s) /\ Labelled(s, from, to)
  BY DEF SearchIs, Labelled, OpenCells
<1>2. /\ Estimate(c, to) \in Nat /\ Estimate(d, to) \in Nat /\ StepCost(c, d) \in Nat
      /\ Estimate(c, to) <= StepCost(c, d) + Estimate(d, to)
  BY <1>1, EstimateFacts
<1>3. CASE c \in s.closed /\ s.g[c] <= x
  <2>1. d \in DOMAIN s.g /\ s.g[d] <= s.g[c] + StepCost(c, d)
    BY <1>1, <1>3 DEF Settled
  <2>2. s.g[c] \in Nat /\ s.g[d] \in Nat
    BY <1>1, <1>3, <2>1 DEF Labelled
  <2>3. s.g[d] <= x + StepCost(c, d)
    BY <1>2, <1>3, <2>1, <2>2
  <2>4. CASE d \in s.closed
    BY <2>3, <2>4 DEF Considered
  <2>5. CASE d \notin s.closed
    <3>1. <<s.g[d] + Estimate(d, to), d>> \in s.open
      BY <1>1, <2>1, <2>5 DEF Frontier
    <3>2. s.g[d] + Estimate(d, to) <= x + StepCost(c, d) + Estimate(d, to)
      BY <1>2, <2>2, <2>3
    <3> QED
      BY <3>1, <3>2 DEF Considered
  <2> QED
    BY <2>4, <2>5
<1>4. CASE \E e \in s.open : e[1] <= x + Estimate(c, to)
  <2>1. PICK e \in s.open : e[1] <= x + Estimate(c, to)
    BY <1>4
  <2>2. e[1] \in Nat
    BY <1>1 DEF Frontier
  <2>3. e[1] <= x + StepCost(c, d) + Estimate(d, to)
    BY <1>2, <2>1, <2>2
  <2> QED
    BY <2>3 DEF Considered
<1> QED
  BY <1>3, <1>4 DEF Considered

(* So does all that the rounds find.                                       *)
LEMMA RoundsConsidered ==
    ASSUME SurfaceIs(surface), Penalised, NEW from, NEW to, NEW s, SearchIs(s, from, to),
           NEW found, Rounds(found, from), NEW e \in found[N * N]
    PROVE  Considered(s, to, e.cell, e.cost)
<1> DEFINE M == N * N
           Bad == {n \in 0 .. M : \E w \in found[n] : ~Considered(s, to, w.cell, w.cost)}
<1>1. M \in Nat
  BY CellsFinite
<1>2. /\ found \in [0 .. M -> SUBSET Ways] /\ found[0] = {[cell |-> from, cost |-> 0]}
      /\ \A n \in 1 .. M : found[n] = Further(found[n - 1])
  BY DEF Rounds
<1> SUFFICES ASSUME Bad # {} PROVE FALSE
  <2>1. M \in 0 .. M
    BY <1>1
  <2> QED
    BY <2>1
<1> HIDE DEF M
<1>3. PICK n \in Bad : \A m \in Bad : n <= m
  <2>1. Bad \in SUBSET Nat
    BY <1>1
  <2> HIDE DEF Bad
  <2> QED
    BY <2>1, LeastNumber
<1>4. PICK w \in found[n] : ~Considered(s, to, w.cell, w.cost)
  OBVIOUS
<1>5. n # 0
  <2> SUFFICES ASSUME n = 0 PROVE FALSE
    OBVIOUS
  <2>1. w.cell = from /\ w.cost = 0
    BY <1>2
  <2> QED
    BY <1>4, <2>1, StartConsidered
<1>6. n \in 1 .. M /\ n - 1 \in 0 .. M /\ ~(n <= n - 1)
  BY <1>1, <1>5
<1>7. \A v \in found[n - 1] : Considered(s, to, v.cell, v.cost)
  BY <1>3, <1>6
<1>8. found[n - 1] \in SUBSET Ways /\ found[n] = Further(found[n - 1]) /\ found[n] \in SUBSET Ways
  BY <1>2, <1>6
<1>9. w \notin found[n - 1]
  BY <1>4, <1>7
<1> HIDE DEF Bad
<1>10. PICK v \in found[n - 1] : Adjacent(v.cell, w.cell) /\ w.cost = v.cost + StepCost(v.cell, w.cell)
  BY <1>8, <1>9, FurtherFacts
<1>11. v.cell \in OpenCells /\ w.cell \in OpenCells /\ v.cost \in Nat
  BY <1>8 DEF Ways
<1>12. Considered(s, to, w.cell, v.cost + StepCost(v.cell, w.cell))
  BY <1>7, <1>10, <1>11, StepConsidered
<1> QED
  BY <1>4, <1>10, <1>12

(* The goal at the top: no way to it that was considered costs less.       *)
LEMMA GoalIsCheapest ==
    ASSUME SurfaceIs(surface), Penalised, NEW from, NEW to, NEW s, SearchIs(s, from, to),
           NEW e \in s.open, \A f \in s.open : e[1] <= f[1], e[2] = to,
           NEW x \in Nat, Considered(s, to, to, x)
    PROVE  s.g[to] <= x
<1>1. to \notin s.closed /\ to \in Cells
  BY DEF SearchIs, Labelled, OpenCells
<1>2. Estimate(to, to) = 0
  BY <1>1, EstimateFacts
<1>3. PICK f \in s.open : f[1] <= x + Estimate(to, to)
  BY <1>1 DEF Considered
<1>4. e[1] <= f[1] /\ e[1] \in Nat /\ f[1] \in Nat /\ s.g[to] + Estimate(to, to) <= e[1] /\ to \in DOMAIN s.g
  BY DEF SearchIs, Frontier
<1>5. s.g[to] \in Nat
  BY <1>4 DEF SearchIs, Labelled
<1> QED
  BY <1>2, <1>3, <1>4, <1>5

(* What the rounds find stays found.                                       *)
LEMMA RoundsKeep ==
    ASSUME SurfaceIs(surface), Penalised, NEW from, NEW found, Rounds(found, from),
           NEW k \in 0 .. N * N, NEW e \in found[k]
    PROVE  \E f \in found[N * N] : f.cell = e.cell /\ f.cost <= e.cost
<1> DEFINE M == N * N
           Kept(n) == \E f \in found[n] : f.cell = e.cell /\ f.cost <= e.cost
           Bad == {n \in k .. M : ~Kept(n)}
<1>1. M \in Nat /\ k \in 0 .. M
  BY CellsFinite
<1>2. found \in [0 .. M -> SUBSET Ways] /\ \A n \in 1 .. M : found[n] = Further(found[n - 1])
  BY DEF Rounds
<1>3. e.cost \in Nat
  BY <1>1, <1>2 DEF Ways
<1> HIDE DEF M
<1>4. Kept(k)
  BY <1>3
<1> HIDE DEF Kept
<1>5. Bad = {}
  <2> SUFFICES ASSUME Bad # {} PROVE FALSE
    OBVIOUS
  <2>1. PICK n \in Bad : \A m \in Bad : n <= m
    <3>1. Bad \in SUBSET Nat
      BY <1>1
    <3> HIDE DEF Bad
    <3> QED
      BY <3>1, LeastNumber
  <2>2. n \in k .. M /\ n # k
    BY <1>4
  <2>3. n - 1 \in k .. M /\ n \in 1 .. M /\ n - 1 \in 0 .. M /\ ~(n <= n - 1)
    BY <1>1, <2>2
  <2>4. Kept(n - 1) /\ ~Kept(n)
    BY <2>1, <2>3
  <2>5. PICK f \in found[n - 1] : f.cell = e.cell /\ f.cost <= e.cost
    BY <2>4 DEF Kept
  <2>6. found[n - 1] \in SUBSET Ways /\ found[n] = Further(found[n - 1]) /\ found[n] \in SUBSET Ways
    BY <1>2, <2>3
  <2>7. PICK h \in found[n] : h.cell = f.cell /\ h.cost <= f.cost
    BY <2>6, FurtherFacts
  <2>8. h.cost \in Nat /\ f.cost \in Nat
    BY <2>6 DEF Ways
  <2>9. Kept(n)
    BY <1>3, <2>5, <2>7, <2>8 DEF Kept
  <2> QED
    BY <2>4, <2>9
<1> QED
  <2>1. M \in k .. M
    BY <1>1
  <2>2. Kept(M)
    BY <1>5, <2>1
  <2> QED
    BY <2>2 DEF Kept, M

(* A search that ends has found what the rounds find, and nothing else.    *)
LEMMA SearchEnds ==
    ASSUME SurfaceIs(surface), Penalised, NEW from, NEW to, NEW s, SearchIs(s, from, to),
           NEW e \in s.open, \A f \in s.open : e[1] <= f[1], e[2] = to
    PROVE  {w \in CheapestFrom(from) : w.cell = to} = {[cell |-> to, cost |-> s.g[to]]}
<1>1. from \in OpenCells /\ to \in OpenCells /\ to \in DOMAIN s.g /\ s.g[to] \in Nat /\ s.closed \in SUBSET Cells
  BY DEF SearchIs, Labelled, Frontier, OpenCells
<1>2. PICK found : Rounds(found, from) /\ CheapestFrom(from) = found[N * N]
  BY <1>1, CheapestFromIs
<1>3. found[N * N] \in SUBSET Ways /\ \A w, v \in found[N * N] : w.cell = v.cell => w = v
  <2> DEFINE M == N * N
  <2>1. M \in Nat \ {0}
    BY CellsFinite
  <2>2. found \in [0 .. M -> SUBSET Ways] /\ \A n \in 1 .. M : found[n] = Further(found[n - 1])
    BY <1>2 DEF Rounds
  <2> HIDE DEF M
  <2>3. M \in 1 .. M /\ M - 1 \in 0 .. M /\ M \in 0 .. M
    BY <2>1
  <2>4. found[M - 1] \in SUBSET Ways /\ found[M] = Further(found[M - 1]) /\ found[M] \in SUBSET Ways
    BY <2>2, <2>3
  <2>5. \A w, v \in found[M] : w.cell = v.cell => w = v
    BY <2>4, FurtherFacts
  <2> QED
    BY <2>4, <2>5 DEF M
<1>4. PICK v \in found[N * N] : v.cell = to /\ v.cost <= s.g[to]
  <2>1. PICK w \in found[Cardinality(s.closed)] : w.cell = to /\ w.cost <= s.g[to]
    BY <1>1, <1>2 DEF SearchIs, FoundSoFar
  <2>2. Cardinality(s.closed) \in 0 .. N * N
    BY <1>1, CellsFinite
  <2>3. PICK v \in found[N * N] : v.cell = w.cell /\ v.cost <= w.cost
    BY <1>2, <2>1, <2>2, RoundsKeep
  <2>4. w.cost \in Nat /\ v.cost \in Nat
    <3>1. found[Cardinality(s.closed)] \in SUBSET Ways
      BY <1>2, <2>2 DEF Rounds
    <3> QED
      BY <1>3, <3>1 DEF Ways
  <2> QED
    BY <1>1, <2>1, <2>3, <2>4
<1>5. v.cost \in Nat
  BY <1>3 DEF Ways
<1>6. Considered(s, to, to, v.cost)
  BY <1>2, <1>4, RoundsConsidered
<1>7. s.g[to] <= v.cost
  BY <1>5, <1>6, GoalIsCheapest
<1>8. v.cost = s.g[to]
  BY <1>1, <1>4, <1>5, <1>7
<1>9. v = [cell |-> to, cost |-> s.g[to]]
  BY <1>1, <1>3, <1>4, <1>8, WayIs
<1> QED
  BY <1>2, <1>3, <1>4, <1>9

(* A heap that runs empty without the target says that no round finds it.  *)
LEMMA SearchFails ==
    ASSUME SurfaceIs(surface), Penalised, NEW from, NEW to, NEW s, SearchIs(s, from, to), s.open = {}
    PROVE  {w \in CheapestFrom(from) : w.cell = to} = {}
<1>1. from \in OpenCells /\ to \notin s.closed
  BY DEF SearchIs, Labelled
<1>2. PICK found : Rounds(found, from) /\ CheapestFrom(from) = found[N * N]
  BY <1>1, CheapestFromIs
<1>3. \A w \in found[N * N] : Considered(s, to, w.cell, w.cost)
  BY <1>2, RoundsConsidered
<1> QED
  BY <1>1, <1>2, <1>3 DEF Considered

(* The sum of larger numbers is larger.                                    *)
LEMMA TotalGrows ==
    ASSUME NEW s \in Seq(Nat), NEW t \in Seq(Nat), Len(t) = Len(s),
           \A n \in 1 .. Len(s) : s[n] <= t[n]
    PROVE  Total(s) <= Total(t)
<1> DEFINE m == Len(s)
<1>1. m \in Nat /\ Len(t) = m /\ \A n \in 1 .. m : s[n] \in Nat /\ t[n] \in Nat /\ s[n] <= t[n]
  OBVIOUS
<1>2. PICK u : RunningSum(s, u) /\ Total(s) = u[m]
  BY TotalIs
<1>3. PICK v : RunningSum(t, v) /\ Total(t) = v[m]
  BY TotalIs
<1>4. /\ u \in [0 .. m -> Nat] /\ u[0] = 0 /\ \A n \in 1 .. m : u[n] = u[n - 1] + s[n]
      /\ v \in [0 .. m -> Nat] /\ v[0] = 0 /\ \A n \in 1 .. m : v[n] = v[n - 1] + t[n]
  BY <1>1, <1>2, <1>3 DEF RunningSum
<1> HIDE DEF m
<1> DEFINE Bad == {n \in 0 .. m : ~(u[n] <= v[n])}
<1>5. Bad = {}
  <2> SUFFICES ASSUME Bad # {} PROVE FALSE
    OBVIOUS
  <2>1. PICK n \in Bad : \A k \in Bad : n <= k
    <3>1. Bad \in SUBSET Nat
      BY <1>1
    <3> HIDE DEF Bad
    <3> QED
      BY <3>1, LeastNumber
  <2>2. n \in 1 .. m /\ ~(u[n] <= v[n])
    BY <1>1, <1>4
  <2>3. n - 1 \in 0 .. m /\ ~(n <= n - 1)
    BY <1>1, <2>2
  <2>4. u[n - 1] <= v[n - 1]
    BY <2>1, <2>3
  <2>5. /\ u[n] = u[n - 1] + s[n] /\ v[n] = v[n - 1] + t[n] /\ s[n] <= t[n]
        /\ s[n] \in Nat /\ t[n] \in Nat /\ u[n - 1] \in Nat /\ v[n - 1] \in Nat
    BY <1>1, <1>4, <2>2, <2>3
  <2> QED
    BY <2>2, <2>4, <2>5
<1>6. m \in 0 .. m
  BY <1>1
<1> QED
  BY <1>2, <1>3, <1>5, <1>6 DEF m

-----------------------------------------------------------------------------
(* Walks *)

Weights == [Cells \X Cells -> Nat]

(* What a walk comes to by the weight of its steps.                        *)
Along(W, w) == Total([i \in 1 .. Len(w) - 1 |-> W[<<w[i], w[i + 1]>>]])

(* The sequences of cells that are not empty.                              *)
Paths == {w \in Seq(Cells) : Len(w) >= 1}

(* What one is.                                                            *)
LEMMA PathFacts ==
    ASSUME NEW w \in Paths
    PROVE  /\ w \in Seq(Cells) /\ Len(w) \in Nat /\ Len(w) >= 1
           /\ \A i \in 1 .. Len(w) : w[i] \in Cells
BY DEF Paths

(* The weights of the edges of a path.                                     *)
LEMMA EdgesFacts ==
    ASSUME NEW W \in Weights, NEW w \in Paths, NEW s,
           s = [i \in 1 .. Len(w) - 1 |-> W[<<w[i], w[i + 1]>>]]
    PROVE  /\ s \in Seq(Nat) /\ Len(s) = Len(w) - 1 /\ Along(W, w) = Total(s)
           /\ \A i \in 1 .. Len(w) - 1 : s[i] = W[<<w[i], w[i + 1]>>]
<1> DEFINE k == Len(w) - 1
<1>1. k \in Nat /\ \A i \in 1 .. k : w[i] \in Cells /\ w[i + 1] \in Cells
  BY PathFacts
<1>2. \A i \in 1 .. k : W[<<w[i], w[i + 1]>>] \in Nat
  BY <1>1 DEF Weights
<1>3. s = [i \in 1 .. k |-> W[<<w[i], w[i + 1]>>]] /\ Along(W, w) = Total(s)
  BY DEF Along
<1> HIDE DEF k
<1>4. s \in [1 .. k -> Nat]
  BY <1>2, <1>3
<1>5. s \in Seq(Nat) /\ Len(s) = k
  <2>1. s \in Seq(Nat)
    BY <1>1, <1>4, SeqDef
  <2> DEFINE m == Len(s)
  <2>2. m \in Nat /\ DOMAIN s = 1 .. m
    BY <2>1, LenProperties
  <2>3. DOMAIN s = 1 .. k
    BY <1>4
  <2> HIDE DEF m
  <2>4. k \in 1 .. k \/ k = 0
    BY <1>1
  <2>5. m \in 1 .. m \/ m = 0
    BY <2>2
  <2>6. m = k
    BY <1>1, <2>2, <2>3, <2>4, <2>5
  <2> QED
    BY <2>1, <2>6 DEF m
<1> QED
  BY <1>3, <1>5 DEF k

(* They add up to a number.                                                *)
LEMMA AlongIsNat ==
    ASSUME NEW W \in Weights, NEW w \in Paths
    PROVE  Along(W, w) \in Nat
<1> DEFINE s == [i \in 1 .. Len(w) - 1 |-> W[<<w[i], w[i + 1]>>]]
<1>1. s \in Seq(Nat) /\ Along(W, w) = Total(s)
  BY EdgesFacts
<1> HIDE DEF s
<1> QED
  BY <1>1, TotalIsNat

(* A single cell weighs nothing.                                           *)
LEMMA AlongOne ==
    ASSUME NEW W \in Weights, NEW w \in Paths, Len(w) = 1
    PROVE  Along(W, w) = 0
<1> DEFINE s == [i \in 1 .. Len(w) - 1 |-> W[<<w[i], w[i + 1]>>]]
<1>1. s \in Seq(Nat) /\ Along(W, w) = Total(s) /\ Len(s) = Len(w) - 1
  BY EdgesFacts
<1> HIDE DEF s
<1>2. s = <<>>
  BY <1>1
<1> QED
  BY <1>1, <1>2, TotalOfEmpty

(* A walk is as long as its two parts, which have a cell in common.        *)
Parts(w, u, v) ==
    /\ Len(w) = Len(u) + Len(v) - 1
    /\ \A i \in 1 .. Len(u) : w[i] = u[i]
    /\ \A i \in 1 .. Len(v) : w[Len(u) - 1 + i] = v[i]

(* A path weighs as much as its parts.                                     *)
LEMMA AlongParts ==
    ASSUME NEW W \in Weights, NEW w \in Paths, NEW u \in Paths, NEW v \in Paths, Parts(w, u, v)
    PROVE  Along(W, w) = Along(W, u) + Along(W, v)
<1> DEFINE sw == [i \in 1 .. Len(w) - 1 |-> W[<<w[i], w[i + 1]>>]]
           su == [i \in 1 .. Len(u) - 1 |-> W[<<u[i], u[i + 1]>>]]
           sv == [i \in 1 .. Len(v) - 1 |-> W[<<v[i], v[i + 1]>>]]
           a == Len(u) - 1
           b == Len(v) - 1
<1>1. /\ sw \in Seq(Nat) /\ Len(sw) = Len(w) - 1 /\ Along(W, w) = Total(sw)
      /\ \A i \in 1 .. Len(w) - 1 : sw[i] = W[<<w[i], w[i + 1]>>]
  BY EdgesFacts
<1>2. /\ su \in Seq(Nat) /\ Len(su) = Len(u) - 1 /\ Along(W, u) = Total(su)
      /\ \A i \in 1 .. Len(u) - 1 : su[i] = W[<<u[i], u[i + 1]>>]
  BY EdgesFacts
<1>3. /\ sv \in Seq(Nat) /\ Len(sv) = Len(v) - 1 /\ Along(W, v) = Total(sv)
      /\ \A i \in 1 .. Len(v) - 1 : sv[i] = W[<<v[i], v[i + 1]>>]
  BY EdgesFacts
<1> HIDE DEF sw, su, sv
<1>4. a \in Nat /\ b \in Nat /\ Len(u) = a + 1 /\ Len(v) = b + 1 /\ Len(w) - 1 = a + b
  BY PathFacts DEF Parts
<1>5. /\ \A i \in 1 .. a + 1 : w[i] = u[i]
      /\ \A i \in 1 .. b + 1 : w[a + i] = v[i]
  BY <1>4 DEF Parts
<1> HIDE DEF a, b
<1>6. Len(sw) = a + b /\ Len(su) = a /\ Len(sv) = b
  BY <1>1, <1>2, <1>3, <1>4
<1>7. \A i \in 1 .. a : sw[i] = su[i]
  <2> TAKE i \in 1 .. a
  <2>1. i \in 1 .. Len(w) - 1 /\ i \in 1 .. Len(u) - 1 /\ i \in 1 .. a + 1 /\ i + 1 \in 1 .. a + 1
    BY <1>4
  <2> QED
    BY <1>1, <1>2, <1>5, <2>1
<1>8. \A i \in 1 .. b : sw[a + i] = sv[i]
  <2> TAKE i \in 1 .. b
  <2>1. a + i \in 1 .. Len(w) - 1 /\ i \in 1 .. Len(v) - 1 /\ i \in 1 .. b + 1 /\ i + 1 \in 1 .. b + 1 /\ (a + i) + 1 = a + (i + 1)
    BY <1>4
  <2>2. w[a + i] = v[i] /\ w[(a + i) + 1] = v[i + 1]
    BY <1>5, <2>1
  <2> QED
    BY <1>1, <1>3, <2>1, <2>2
<1>9. sw = su \o sv
  <2> DEFINE j == su \o sv
  <2>1. su \in Seq(Nat) /\ sv \in Seq(Nat)
    BY <1>2, <1>3
  <2>2. /\ j \in Seq(Nat) /\ Len(j) = Len(su) + Len(sv)
        /\ \A i \in 1 .. Len(j) : j[i] = IF i <= Len(su) THEN su[i] ELSE sv[i - Len(su)]
    BY <2>1, ConcatProperties
  <2> HIDE DEF j
  <2>3. j \in Seq(Nat) /\ Len(j) = a + b /\ \A i \in 1 .. a + b : j[i] = IF i <= a THEN su[i] ELSE sv[i - a]
    BY <1>6, <2>2
  <2>4. \A i \in 1 .. a + b : i \in 1 .. a \/ (i - a \in 1 .. b /\ a + (i - a) = i)
    BY <1>4
  <2>5. \A i \in 1 .. a + b : j[i] = sw[i]
    <3> TAKE i \in 1 .. a + b
    <3>1. CASE i \in 1 .. a
      <4>1. i <= a
        BY <1>4, <3>1
      <4>2. j[i] = su[i]
        BY <2>3, <4>1
      <4>3. sw[i] = su[i]
        BY <1>7, <3>1
      <4> QED
        BY <4>2, <4>3
    <3>2. CASE i - a \in 1 .. b /\ a + (i - a) = i
      <4>1. ~(i <= a)
        BY <1>4, <3>2
      <4> QED
        BY <1>8, <2>3, <3>2, <4>1
    <3> QED
      BY <2>4, <3>1, <3>2
  <2>6. sw = j
    BY <1>1, <1>4, <1>6, <2>3, <2>5
  <2> QED
    BY <2>6 DEF j
<1>10. Total(su \o sv) = Total(su) + Total(sv)
  BY <1>2, <1>3, TotalOfBoth
<1> QED
  BY <1>1, <1>2, <1>3, <1>9, <1>10

(* A path weighs more where every edge does.                               *)
LEMMA AlongGrows ==
    ASSUME NEW V \in Weights, NEW W \in Weights, NEW w \in Paths,
           \A p \in Cells \X Cells : V[p] <= W[p]
    PROVE  Along(V, w) <= Along(W, w)
<1> DEFINE s == [i \in 1 .. Len(w) - 1 |-> V[<<w[i], w[i + 1]>>]]
           t == [i \in 1 .. Len(w) - 1 |-> W[<<w[i], w[i + 1]>>]]
<1>1. /\ s \in Seq(Nat) /\ Len(s) = Len(w) - 1 /\ Along(V, w) = Total(s)
      /\ \A i \in 1 .. Len(w) - 1 : s[i] = V[<<w[i], w[i + 1]>>]
  BY EdgesFacts
<1>2. /\ t \in Seq(Nat) /\ Len(t) = Len(w) - 1 /\ Along(W, w) = Total(t)
      /\ \A i \in 1 .. Len(w) - 1 : t[i] = W[<<w[i], w[i + 1]>>]
  BY EdgesFacts
<1>3. \A i \in 1 .. Len(w) - 1 : <<w[i], w[i + 1]>> \in Cells \X Cells
  BY PathFacts
<1> HIDE DEF s, t
<1>4. \A i \in 1 .. Len(s) : s[i] <= t[i]
  BY <1>1, <1>2, <1>3
<1> QED
  BY <1>1, <1>2, <1>4, TotalGrows

(* A path weighs a multiple where every edge does.                         *)
LEMMA AlongScaled ==
    ASSUME NEW V \in Weights, NEW W \in Weights, NEW w \in Paths, NEW k \in Nat,
           \A p \in Cells \X Cells : W[p] = k * V[p]
    PROVE  Along(W, w) = k * Along(V, w)
<1> DEFINE s == [i \in 1 .. Len(w) - 1 |-> V[<<w[i], w[i + 1]>>]]
           t == [i \in 1 .. Len(w) - 1 |-> W[<<w[i], w[i + 1]>>]]
<1>1. /\ s \in Seq(Nat) /\ Len(s) = Len(w) - 1 /\ Along(V, w) = Total(s)
      /\ \A i \in 1 .. Len(w) - 1 : s[i] = V[<<w[i], w[i + 1]>>]
  BY EdgesFacts
<1>2. /\ t \in Seq(Nat) /\ Len(t) = Len(w) - 1 /\ Along(W, w) = Total(t)
      /\ \A i \in 1 .. Len(w) - 1 : t[i] = W[<<w[i], w[i + 1]>>]
  BY EdgesFacts
<1>3. \A i \in 1 .. Len(w) - 1 : <<w[i], w[i + 1]>> \in Cells \X Cells
  BY PathFacts
<1> HIDE DEF s, t
<1>4. \A i \in 1 .. Len(s) : t[i] = k * s[i]
  BY <1>1, <1>2, <1>3
<1> QED
  BY <1>1, <1>2, <1>4, TotalScaled

(* A walk over open cells from one cell to another.                        *)
Between(w, open, from, to) ==
    /\ w \in Seq(open) /\ Len(w) >= 1 /\ w[1] = from /\ w[Len(w)] = to
    /\ \A i \in 1 .. Len(w) - 1 : Adjacent(w[i], w[i + 1])

(* It is a path.                                                           *)
LEMMA BetweenFacts ==
    ASSUME NEW open \in SUBSET Cells, NEW from, NEW to, NEW w, Between(w, open, from, to)
    PROVE  w \in Paths /\ Len(w) \in Nat /\ \A i \in 1 .. Len(w) : w[i] \in open
BY DEF Between, Paths

(* Two cells weigh their edge.                                             *)
LEMMA AlongTwo ==
    ASSUME NEW W \in Weights, NEW c \in Cells, NEW d \in Cells
    PROVE  Along(W, <<c, d>>) = W[<<c, d>>]
<1> DEFINE w == <<c, d>>
           s == [i \in 1 .. Len(w) - 1 |-> W[<<w[i], w[i + 1]>>]]
<1>1. w \in Paths /\ Len(w) = 2 /\ w[1] = c /\ w[2] = d
  BY DEF Paths
<1> HIDE DEF w
<1>2. /\ s \in Seq(Nat) /\ Len(s) = Len(w) - 1 /\ Along(W, w) = Total(s)
      /\ \A i \in 1 .. Len(w) - 1 : s[i] = W[<<w[i], w[i + 1]>>]
  BY <1>1, EdgesFacts
<1> HIDE DEF s
<1>3. Len(s) = 1 /\ s[1] = W[<<c, d>>] /\ s[1] \in Nat
  BY <1>1, <1>2
<1>4. PICK u : RunningSum(s, u) /\ Total(s) = u[Len(s)]
  BY <1>2, TotalIs
<1>5. u[1] = s[1]
  BY <1>3, <1>4 DEF RunningSum
<1> QED
  BY <1>2, <1>3, <1>4, <1>5 DEF w

(* One step further.                                                       *)
LEMMA Extended ==
    ASSUME NEW open \in SUBSET Cells, NEW W \in Weights, NEW from, NEW b, NEW u, Between(u, open, from, b),
           NEW c \in open, Adjacent(b, c)
    PROVE  LET w == Append(u, c)
           IN  Between(w, open, from, c) /\ Along(W, w) = Along(W, u) + W[<<b, c>>]
<1> DEFINE w == Append(u, c)
           v == <<b, c>>
           n == Len(u)
<1>1. u \in Seq(open) /\ n \in Nat /\ n >= 1 /\ u[n] = b /\ u[1] = from /\ u \in Paths /\ b \in open
        /\ \A i \in 1 .. n - 1 : Adjacent(u[i], u[i + 1])
  BY BetweenFacts DEF Between
<1>2. w \in Seq(open) /\ Len(w) = n + 1 /\ (\A i \in 1 .. n : w[i] = u[i]) /\ w[n + 1] = c
  BY <1>1, AppendProperties
<1>3. v \in Paths /\ Len(v) = 2 /\ v[1] = b /\ v[2] = c
  BY <1>1 DEF Paths
<1> HIDE DEF w, v, n
<1>4. w \in Paths
  BY <1>1, <1>2 DEF Paths
<1>5. \A i \in 1 .. n : Adjacent(w[i], w[i + 1])
  <2> TAKE i \in 1 .. n
  <2>1. CASE i = n
    BY <1>1, <1>2, <2>1
  <2>2. CASE i # n
    <3>1. i \in 1 .. n - 1 /\ i + 1 \in 1 .. n
      BY <1>1, <2>2
    <3> QED
      BY <1>1, <1>2, <3>1
  <2> QED
    BY <2>1, <2>2
<1>6. Between(w, open, from, c)
  <2>1. w[1] = from /\ Len(w) - 1 = n /\ Len(w) >= 1 /\ w[Len(w)] = c
    BY <1>1, <1>2
  <2> QED
    BY <1>2, <1>5, <2>1 DEF Between
<1>7. Parts(w, u, v)
  <2>1. Len(w) = Len(u) + Len(v) - 1
    BY <1>1, <1>2, <1>3 DEF n
  <2>2. \A i \in 1 .. Len(v) : w[Len(u) - 1 + i] = v[i]
    <3> TAKE i \in 1 .. Len(v)
    <3>1. (i = 1 /\ n - 1 + i = n) \/ (i = 2 /\ n - 1 + i = n + 1)
      BY <1>1, <1>3
    <3>2. w[n - 1 + i] = v[i]
      BY <1>1, <1>2, <1>3, <3>1
    <3> QED
      BY <3>2 DEF n
  <2>3. \A i \in 1 .. Len(u) : w[i] = u[i]
    BY <1>2 DEF n
  <2> QED
    BY <2>1, <2>2, <2>3 DEF Parts
<1>8. Along(W, w) = Along(W, u) + Along(W, v)
  BY <1>1, <1>3, <1>4, <1>7, AlongParts
<1>9. Along(W, v) = W[<<b, c>>]
  BY <1>1, AlongTwo DEF v
<1> QED
  BY <1>6, <1>8, <1>9 DEF w

(* What the search charges for an edge.                                    *)
Tolls == [p \in Cells \X Cells |-> StepCost(p[1], p[2])]

(* That is a weight.                                                       *)
LEMMA TollsFacts ==
    ASSUME SurfaceIs(surface), Penalised
    PROVE  Tolls \in Weights /\ \A c, d \in Cells : Tolls[<<c, d>>] = StepCost(c, d)
<1>1. ASSUME NEW c \in Cells, NEW d \in Cells PROVE StepCost(c, d) \in Nat
  <2>1. surface.rate[c] + surface.rate[d] + 2 * penalty[d] \in Nat
    BY DEF SurfaceIs, Penalised
  <2>2. Length(c, d) \in Nat
    BY DEF Length
  <2> QED
    BY <2>1, <2>2, Multiplied DEF StepCost
<1>2. \A c, d \in Cells : Tolls[<<c, d>>] = StepCost(c, d)
  <2> TAKE c, d \in Cells
  <2>1. <<c, d>> \in Cells \X Cells /\ <<c, d>>[1] = c /\ <<c, d>>[2] = d
    OBVIOUS
  <2> QED
    BY <2>1, Zenon DEF Tolls
<1>3. \A p \in Cells \X Cells : StepCost(p[1], p[2]) \in Nat
  BY <1>1
<1> QED
  BY <1>2, <1>3 DEF Tolls, Weights

(* No walk is overlooked.                                                  *)
LEMMA WalkConsidered ==
    ASSUME SurfaceIs(surface), Penalised, NEW from, NEW to, NEW s, SearchIs(s, from, to),
           NEW w, Between(w, OpenCells, from, to)
    PROVE  Considered(s, to, to, Along(Tolls, w))
<1> DEFINE edges == [i \in 1 .. Len(w) - 1 |-> Tolls[<<w[i], w[i + 1]>>]]
           k == Len(w) - 1
<1>1. OpenCells \in SUBSET Cells
  BY DEF OpenCells
<1>2. /\ w \in Paths /\ k \in Nat /\ w[1] = from /\ w[k + 1] = to
      /\ \A i \in 1 .. k + 1 : w[i] \in OpenCells
      /\ \A i \in 1 .. k : Adjacent(w[i], w[i + 1])
  BY <1>1, BetweenFacts DEF Between
<1>3. Tolls \in Weights /\ \A c, d \in Cells : Tolls[<<c, d>>] = StepCost(c, d)
  BY TollsFacts
<1>4. /\ edges \in Seq(Nat) /\ Len(edges) = k /\ Along(Tolls, w) = Total(edges)
      /\ \A i \in 1 .. k : edges[i] = Tolls[<<w[i], w[i + 1]>>]
  BY <1>2, <1>3, EdgesFacts
<1> HIDE DEF edges, k
<1>5. PICK u : RunningSum(edges, u) /\ Total(edges) = u[k]
  BY <1>4, TotalIs
<1>6. u \in [0 .. k -> Nat] /\ u[0] = 0 /\ \A n \in 1 .. k : u[n] = u[n - 1] + edges[n]
  BY <1>4, <1>5 DEF RunningSum
<1> DEFINE Bad == {n \in 0 .. k : ~Considered(s, to, w[n + 1], u[n])}
<1>7. Bad = {}
  <2> SUFFICES ASSUME Bad # {} PROVE FALSE
    OBVIOUS
  <2>1. PICK n \in Bad : \A m \in Bad : n <= m
    <3>1. Bad \in SUBSET Nat
      BY <1>2
    <3> HIDE DEF Bad
    <3> QED
      BY <3>1, LeastNumber
  <2>2. n \in 0 .. k /\ ~Considered(s, to, w[n + 1], u[n])
    OBVIOUS
  <2>3. n # 0
    <3> SUFFICES ASSUME n = 0 PROVE FALSE
      OBVIOUS
    <3>1. w[n + 1] = from /\ u[n] = 0
      BY <1>2, <1>6
    <3> QED
      BY <2>2, <3>1, StartConsidered
  <2>4. n \in 1 .. k /\ n - 1 \in 0 .. k /\ ~(n <= n - 1) /\ (n - 1) + 1 = n /\ n \in 1 .. k + 1 /\ n + 1 \in 1 .. k + 1
    BY <1>2, <2>2, <2>3
  <2>5. Considered(s, to, w[n], u[n - 1])
    BY <2>1, <2>4
  <2>6. /\ w[n] \in OpenCells /\ w[n + 1] \in OpenCells /\ Adjacent(w[n], w[n + 1]) /\ u[n - 1] \in Nat
        /\ w[n] \in Cells /\ w[n + 1] \in Cells
    BY <1>1, <1>2, <1>6, <2>4
  <2>7. u[n] = u[n - 1] + StepCost(w[n], w[n + 1])
    <3>1. u[n] = u[n - 1] + edges[n]
      BY <1>6, <2>4
    <3>2. edges[n] = Tolls[<<w[n], w[n + 1]>>]
      BY <1>4, <2>4
    <3>3. Tolls[<<w[n], w[n + 1]>>] = StepCost(w[n], w[n + 1])
      BY <1>3, <2>6
    <3> QED
      BY <3>1, <3>2, <3>3
  <2>8. Considered(s, to, w[n + 1], u[n - 1] + StepCost(w[n], w[n + 1]))
    BY <2>5, <2>6, StepConsidered
  <2> QED
    BY <2>2, <2>7, <2>8
<1>8. k \in 0 .. k
  BY <1>2
<1> QED
  BY <1>2, <1>4, <1>5, <1>7, <1>8

(* Hence what a search returns is no dearer than any walk, which it has    *)
(* considered.                                                             *)
LEMMA FoundIsCheapest ==
    ASSUME SurfaceIs(surface), Penalised, NEW from, NEW to, NEW s, SearchIs(s, from, to),
           NEW e \in s.open, \A f \in s.open : e[1] <= f[1], e[2] = to,
           NEW w, Between(w, OpenCells, from, to)
    PROVE  s.g[to] <= Along(Tolls, w)
<1>1. w \in Paths /\ Tolls \in Weights
  <2>1. OpenCells \in SUBSET Cells
    BY DEF OpenCells
  <2> QED
    BY <2>1, BetweenFacts, TollsFacts
<1>2. Along(Tolls, w) \in Nat
  BY <1>1, AlongIsNat
<1>3. Considered(s, to, to, Along(Tolls, w))
  BY WalkConsidered
<1> QED
  BY <1>2, <1>3, GoalIsCheapest

(* And where it returns nothing there is no walk at all.                   *)
LEMMA NoneToBeFound ==
    ASSUME SurfaceIs(surface), Penalised, NEW from, NEW to, NEW s, SearchIs(s, from, to), s.open = {},
           NEW w, Between(w, OpenCells, from, to)
    PROVE  FALSE
<1>1. Considered(s, to, to, Along(Tolls, w))
  BY WalkConsidered
<1>2. to \notin s.closed
  BY DEF SearchIs, Labelled
<1> QED
  BY <1>1, <1>2 DEF Considered

-----------------------------------------------------------------------------
(* The path back *)

LEMMA BoundedOnFinite ==
    ASSUME NEW S, IsFiniteSet(S), NEW g \in [S -> Nat]
    PROVE  \E m \in Nat : \A c \in S : g[c] <= m
<1>1. PICK f \in Seq(S) : \A c \in S : \E i \in 1 .. Len(f) : f[i] = c
  BY DEF IsFiniteSet
<1> DEFINE n == Len(f)
<1>2. n \in Nat
  OBVIOUS
<1>3. f \in [1 .. n -> S] /\ \A c \in S : \E i \in 1 .. n : f[i] = c
  BY <1>1
<1> HIDE DEF n
<1> DEFINE Bounded(k) == \E m \in Nat : \A i \in 1 .. k : g[f[i]] <= m
           Bad == {k \in 0 .. n : ~Bounded(k)}
<1>4. Bounded(0)
  BY 0 \in Nat
<1>5. ASSUME NEW k \in 1 .. n, Bounded(k - 1) PROVE Bounded(k)
  <2>1. PICK m \in Nat : \A i \in 1 .. k - 1 : g[f[i]] <= m
    BY <1>5
  <2> DEFINE h == IF g[f[k]] <= m THEN m ELSE g[f[k]]
  <2>2. g[f[k]] \in Nat
    BY <1>3
  <2>3. h \in Nat /\ m <= h /\ g[f[k]] <= h
    BY <2>2
  <2> HIDE DEF h
  <2>4. \A i \in 1 .. k : g[f[i]] <= h
    <3> TAKE i \in 1 .. k
    <3>1. CASE i = k
      BY <2>3, <3>1
    <3>2. CASE i # k
      <4>1. i \in 1 .. k - 1 /\ i \in 1 .. n
        BY <1>2, <3>2
      <4>2. g[f[i]] <= m /\ g[f[i]] \in Nat
        BY <1>3, <2>1, <4>1
      <4> QED
        BY <2>3, <4>2
    <3> QED
      BY <3>1, <3>2
  <2> QED
    BY <2>3, <2>4
<1> HIDE DEF Bounded
<1>6. Bad = {}
  <2> SUFFICES ASSUME Bad # {} PROVE FALSE
    OBVIOUS
  <2>1. PICK k \in Bad : \A m \in Bad : k <= m
    <3>1. Bad \in SUBSET Nat
      BY <1>2
    <3> HIDE DEF Bad
    <3> QED
      BY <3>1, LeastNumber
  <2>2. k \in 1 .. n /\ k - 1 \in 0 .. n /\ ~(k <= k - 1)
    BY <1>2, <1>4
  <2>3. Bounded(k - 1) /\ ~Bounded(k)
    BY <2>1, <2>2
  <2> QED
    BY <1>5, <2>2, <2>3
<1>7. Bounded(n)
  <2>1. n \in 0 .. n
    BY <1>2
  <2> QED
    BY <1>6, <2>1
<1>8. PICK m \in Nat : \A i \in 1 .. n : g[f[i]] <= m
  BY <1>7 DEF Bounded
<1>9. \A c \in S : g[c] <= m
  BY <1>3, <1>8
<1> QED
  BY <1>9

(* A path is that of the cell it came from, and that cell.                 *)
Back(came, f, c) == IF c \in DOMAIN came THEN Append(f[came[c]], c) ELSE <<c>>

(* The paths back along came exist, because costs fall along it.           *)
LEMMA PathsExist ==
    ASSUME NEW g, NEW came, DOMAIN g \in SUBSET Cells, g \in [DOMAIN g -> Nat],
           \A c \in DOMAIN came : c \in DOMAIN g /\ came[c] \in DOMAIN g /\ g[came[c]] < g[c]
    PROVE  \E f : f = [c \in Cells |-> Back(came, f, c)]
<1>1. PICK M \in Nat : \A c \in DOMAIN g : g[c] <= M
  BY CellsFinite, BoundedOnFinite
<1> DEFINE S == [Cells -> Seq(Cells)]
           start == [c \in Cells |-> <<c>>]
           step == [h \in S |-> [n \in Nat |-> [c \in Cells |-> Back(came, h, c)]]]
<1>2. start \in S
  OBVIOUS
<1>3. ASSUME NEW h \in S PROVE [c \in Cells |-> Back(came, h, c)] \in S
  <2>1. ASSUME NEW c \in Cells PROVE Back(came, h, c) \in Seq(Cells)
    <3>1. CASE c \in DOMAIN came
      <4>1. h[came[c]] \in Seq(Cells)
        BY <3>1
      <4> QED
        BY <3>1, <4>1 DEF Back
    <3>2. CASE c \notin DOMAIN came
      BY <3>2 DEF Back
    <3> QED
      BY <3>1, <3>2
  <2> QED
    BY <2>1
<1>4. step \in [S -> [Nat -> S]]
  BY <1>3
<1> HIDE DEF S, start, step
<1>5. PICK f : Recursive(f, S, start, step, M + 1)
  <2>1. M + 1 \in Nat
    OBVIOUS
  <2> QED
    BY <1>2, <1>4, <2>1, Recursion
<1>6. f \in [0 .. M + 1 -> S] /\ f[0] = start /\ \A n \in 1 .. M + 1 : f[n] = step[f[n - 1]][n]
  BY <1>5 DEF Recursive
<1>7. \A n \in 1 .. M + 1 : f[n] = [c \in Cells |-> Back(came, f[n - 1], c)]
  <2> TAKE n \in 1 .. M + 1
  <2>1. n - 1 \in 0 .. M + 1 /\ n \in Nat
    OBVIOUS
  <2>2. f[n - 1] \in S
    BY <1>6, <2>1
  <2>3. step[f[n - 1]][n] = [c \in Cells |-> Back(came, f[n - 1], c)]
    BY <2>1, <2>2 DEF step
  <2> QED
    BY <1>6, <2>3
<1>8. \A n \in 1 .. M + 1, c \in Cells : f[n][c] = Back(came, f[n - 1], c)
  BY <1>7
<1> DEFINE Bad == {n \in 0 .. M : \E c \in Cells : (c \in DOMAIN came => g[c] <= n) /\ f[n + 1][c] # f[n][c]}
<1>9. Bad = {}
  <2> SUFFICES ASSUME Bad # {} PROVE FALSE
    OBVIOUS
  <2>1. PICK n \in Bad : \A m \in Bad : n <= m
    <3>1. Bad \in SUBSET Nat
      OBVIOUS
    <3> HIDE DEF Bad
    <3> QED
      BY <3>1, LeastNumber
  <2>2. PICK c \in Cells : (c \in DOMAIN came => g[c] <= n) /\ f[n + 1][c] # f[n][c]
    OBVIOUS
  <2>3. n + 1 \in 1 .. M + 1 /\ (n + 1) - 1 = n /\ n \in 0 .. M
    OBVIOUS
  <2>4. f[n + 1][c] = Back(came, f[n], c)
    BY <1>8, <2>3
  <2>5. CASE c \notin DOMAIN came
    <3>1. CASE n = 0
      <4>1. f[n][c] = <<c>>
        BY <1>6, <3>1 DEF start
      <4> QED
        BY <2>2, <2>4, <2>5, <4>1 DEF Back
    <3>2. CASE n # 0
      <4>1. n \in 1 .. M + 1
        BY <2>3, <3>2
      <4>2. f[n][c] = Back(came, f[n - 1], c)
        BY <1>8, <4>1
      <4> QED
        BY <2>2, <2>4, <2>5, <4>2 DEF Back
    <3> QED
      BY <3>1, <3>2
  <2>6. CASE c \in DOMAIN came
    <3> DEFINE b == came[c]
    <3>1. b \in DOMAIN g /\ c \in DOMAIN g /\ g[b] < g[c] /\ g[c] <= n /\ b \in Cells
      BY <2>2, <2>6
    <3>2. g[b] \in Nat /\ g[c] \in Nat
      BY <3>1
    <3>3. n \in 1 .. M + 1 /\ n - 1 \in 0 .. M /\ ~(n <= n - 1) /\ (n - 1) + 1 = n /\ g[b] <= n - 1
      BY <2>3, <3>1, <3>2
    <3>4. f[n][b] = f[n - 1][b]
      <4>1. n - 1 \notin Bad
        BY <2>1, <3>3
      <4> HIDE DEF b
      <4>2. \A d \in Cells : (d \in DOMAIN came => g[d] <= n - 1) => f[(n - 1) + 1][d] = f[n - 1][d]
        BY <3>3, <4>1
      <4> QED
        BY <3>1, <3>3, <4>2
    <3>5. f[n][c] = Append(f[n - 1][b], c) /\ f[n + 1][c] = Append(f[n][b], c)
      <4>1. f[n][c] = Back(came, f[n - 1], c)
        BY <1>8, <3>3
      <4> QED
        BY <2>4, <2>6, <4>1 DEF Back
    <3> QED
      BY <2>2, <3>4, <3>5
  <2> QED
    BY <2>5, <2>6
<1>10. \A c \in Cells : f[M + 1][c] = f[M][c]
  <2>1. M \in 0 .. M /\ M \notin Bad
    BY <1>9
  <2> HIDE <1>9
  <2>2. \A c \in Cells : c \in DOMAIN came => g[c] <= M
    BY <1>1
  <2> QED
    BY <2>1, <2>2
<1> DEFINE h == f[M]
<1>11. h \in S
  BY <1>6
<1>12. \A c \in Cells : h[c] = Back(came, h, c)
  <2>1. M + 1 \in 1 .. M + 1 /\ (M + 1) - 1 = M
    OBVIOUS
  <2> QED
    BY <1>8, <1>10, <2>1
<1> HIDE DEF h
<1>13. h = [c \in Cells |-> h[c]]
  BY <1>11 DEF S
<1>14. h = [c \in Cells |-> Back(came, h, c)]
  BY <1>12, <1>13, Zenon
<1> QED
  BY <1>14, Zenon

(* The path found is a walk at the cost of its end.                        *)
LEMMA PathFoundIs ==
    ASSUME SurfaceIs(surface), Penalised, NEW from, SearchIs(search, from, search.to), search.to \in DOMAIN search.g
    PROVE  Between(PathFound, OpenCells, from, search.to) /\ Along(Tolls, PathFound) = search.g[search.to]
<1> DEFINE g == search.g
           came == search.came
           to == search.to
           path == CHOOSE f : f = [c \in Cells |-> Back(came, f, c)]
<1>1. PathFound = path[to]
  BY DEF PathFound, Back
<1>2. /\ g \in [DOMAIN g -> Nat] /\ DOMAIN g \in SUBSET OpenCells /\ from \in DOMAIN g /\ g[from] = 0
      /\ search.closed \in SUBSET (DOMAIN g)
      /\ DOMAIN came = DOMAIN g \ {from}
      /\ \A d \in DOMAIN came :
           came[d] \in search.closed /\ Adjacent(came[d], d) /\ g[d] = g[came[d]] + StepCost(came[d], d)
      /\ to \in DOMAIN g
  BY DEF SearchIs, Labelled, Origins
<1>3. OpenCells \in SUBSET Cells
  BY DEF OpenCells
<1>4. Tolls \in Weights /\ \A c, d \in Cells : Tolls[<<c, d>>] = StepCost(c, d)
  BY TollsFacts
<1> HIDE DEF g, came, to
<1>5. ASSUME NEW d \in DOMAIN came
      PROVE  /\ d \in DOMAIN g /\ came[d] \in DOMAIN g /\ g[came[d]] < g[d]
             /\ d \in OpenCells /\ came[d] \in OpenCells /\ Adjacent(came[d], d)
             /\ g[d] = g[came[d]] + Tolls[<<came[d], d>>]
  <2> DEFINE b == came[d]
  <2>1. d \in DOMAIN g /\ b \in DOMAIN g /\ d \in OpenCells /\ b \in OpenCells /\ Adjacent(b, d) /\ g[d] = g[b] + StepCost(b, d)
    BY <1>2
  <2>2. g[b] \in Nat /\ b \in Cells /\ d \in Cells
    BY <1>2, <1>3, <2>1
  <2>3. StepCost(b, d) \in Nat /\ StepCost(b, d) > 0
    BY <2>1, <2>2, EstimateFacts
  <2>4. Tolls[<<b, d>>] = StepCost(b, d)
    BY <1>4, <2>2
  <2> HIDE DEF b
  <2>5. g[b] < g[d]
    BY <2>1, <2>2, <2>3
  <2> QED
    BY <2>1, <2>4, <2>5 DEF b
<1>6. path = [c \in Cells |-> Back(came, path, c)]
  <2>1. DOMAIN g \in SUBSET Cells
    BY <1>2, <1>3
  <2>2. \E f : f = [c \in Cells |-> Back(came, f, c)]
    BY <1>2, <1>5, <2>1, PathsExist
  <2> QED
    BY <2>2, Zenon
<1> HIDE DEF path
<1>7. \A c \in Cells : path[c] = Back(came, path, c)
  BY <1>6
<1> DEFINE Good(c) == Between(path[c], OpenCells, from, c) /\ Along(Tolls, path[c]) = g[c]
           Bad == {g[c] : c \in {d \in DOMAIN g : ~Good(d)}}
<1>8. Bad = {}
  <2> SUFFICES ASSUME Bad # {} PROVE FALSE
    OBVIOUS
  <2>1. PICK k \in Bad : \A m \in Bad : k <= m
    <3>1. Bad \in SUBSET Nat
      BY <1>2
    <3> HIDE DEF Bad
    <3> QED
      BY <3>1, LeastNumber
  <2>2. PICK c \in DOMAIN g : ~Good(c) /\ k = g[c]
    OBVIOUS
  <2>3. \A d \in DOMAIN g : ~Good(d) => k <= g[d]
    BY <2>1
  <2>4. c \in OpenCells /\ c \in Cells /\ g[c] \in Nat
    BY <1>2, <1>3
  <2> HIDE DEF Bad
  <2>5. CASE c \notin DOMAIN came
    <3>1. c = from /\ g[c] = 0
      BY <1>2, <2>5
    <3>2. path[c] = <<c>>
      BY <1>7, <2>4, <2>5 DEF Back
    <3> DEFINE w == path[c]
    <3>3. w \in Seq(OpenCells) /\ Len(w) = 1 /\ w[1] = c
      BY <2>4, <3>2
    <3> HIDE DEF w
    <3>4. Between(w, OpenCells, from, c)
      BY <3>1, <3>3 DEF Between
    <3>5. w \in Paths
      BY <1>3, <3>4, BetweenFacts
    <3>6. Along(Tolls, w) = 0
      BY <1>4, <3>3, <3>5, AlongOne
    <3> QED
      BY <2>2, <3>1, <3>4, <3>6 DEF w
  <2>6. CASE c \in DOMAIN came
    <3> DEFINE b == came[c]
    <3>1. /\ b \in DOMAIN g /\ g[b] < g[c] /\ b \in OpenCells /\ Adjacent(b, c)
          /\ g[c] = g[b] + Tolls[<<b, c>>]
      BY <1>5, <2>6
    <3>2. g[b] \in Nat
      BY <1>2, <3>1
    <3>3. path[c] = Append(path[b], c)
      BY <1>7, <2>4, <2>6 DEF Back
    <3> HIDE DEF b
    <3>4. Good(b)
      <4> HIDE DEF Good
      <4>1. ~Good(b) => k <= g[b]
        BY <2>3, <3>1
      <4>2. ~(k <= g[b])
        BY <2>2, <2>4, <3>1, <3>2
      <4> QED
        BY <4>1, <4>2
    <3>5. Between(Append(path[b], c), OpenCells, from, c)
            /\ Along(Tolls, Append(path[b], c)) = Along(Tolls, path[b]) + Tolls[<<b, c>>]
      BY <1>3, <1>4, <2>4, <3>1, <3>4, Extended
    <3> QED
      BY <2>2, <3>1, <3>3, <3>4, <3>5
  <2> QED
    BY <2>5, <2>6
<1>9. Good(to)
  BY <1>2, <1>8
<1> QED
  BY <1>1, <1>9 DEF g, to

-----------------------------------------------------------------------------
(* Journeys *)

(* A walk over open cells that comes by the first n stops, one after the    *)
(* other, and ends at the last of them.                                    *)
ComesBy(w, stops, n, at) ==
    /\ at \in [1 .. n -> 1 .. Len(w)] /\ at[1] = 1 /\ at[n] = Len(w)
    /\ \A i \in 1 .. n : w[at[i]] = stops[i]
    /\ \A i \in 1 .. n - 1 : at[i] <= at[i + 1]

(* A walk over open cells that comes by the first n stops in their order.  *)
Journey(w, open, stops, n) ==
    /\ w \in Seq(open) /\ Len(w) >= 1
    /\ \A i \in 1 .. Len(w) - 1 : Adjacent(w[i], w[i + 1])
    /\ \E at : ComesBy(w, stops, n, at)

(* It begins at the first of them and ends at the last.                    *)
LEMMA JourneyFacts ==
    ASSUME NEW open \in SUBSET Cells, NEW stops, NEW n \in Nat, n >= 1, NEW w, Journey(w, open, stops, n)
    PROVE  w \in Paths /\ Len(w) \in Nat /\ Len(w) >= 1 /\ w[1] = stops[1] /\ w[Len(w)] = stops[n]
           /\ \A i \in 1 .. Len(w) : w[i] \in open
<1>1. w \in Paths /\ Len(w) \in Nat /\ Len(w) >= 1 /\ \A i \in 1 .. Len(w) : w[i] \in open
  BY DEF Journey, Paths
<1>2. PICK at : ComesBy(w, stops, n, at)
  BY DEF Journey
<1> QED
  BY <1>1, <1>2 DEF ComesBy

(* A piece of a walk.                                                      *)
LEMMA PieceFacts ==
    ASSUME NEW open \in SUBSET Cells, NEW w \in Seq(open),
           \A i \in 1 .. Len(w) - 1 : Adjacent(w[i], w[i + 1]),
           NEW a \in 1 .. Len(w), NEW b \in a .. Len(w)
    PROVE  LET v == SubSeq(w, a, b)
           IN  /\ Between(v, open, w[a], w[b]) /\ Len(v) = b - a + 1
               /\ \A i \in 1 .. b - a + 1 : v[i] = w[a + i - 1]
<1> DEFINE v == SubSeq(w, a, b)
           m == Len(w)
<1>1. m \in Nat /\ \A i \in 1 .. m : w[i] \in open
  OBVIOUS
<1>2. a \in 1 .. m /\ b \in a .. m /\ a \in Int /\ b \in Int /\ a <= b
  BY <1>1
<1>3. \A i \in a .. b : w[i] \in open
  BY <1>1, <1>2
<1>4. v \in Seq(open) /\ Len(v) = b - a + 1 /\ \A i \in 1 .. b - a + 1 : v[i] = w[a + i - 1]
  BY <1>2, <1>3, SubSeqProperties
<1> HIDE DEF v
<1>5. \A i \in 1 .. Len(v) - 1 : Adjacent(v[i], v[i + 1])
  <2> TAKE i \in 1 .. Len(v) - 1
  <2>1. i \in 1 .. b - a + 1 /\ i + 1 \in 1 .. b - a + 1 /\ a + i - 1 \in 1 .. m - 1 /\ a + (i + 1) - 1 = (a + i - 1) + 1
    BY <1>1, <1>2, <1>4
  <2>2. v[i] = w[a + i - 1] /\ v[i + 1] = w[(a + i - 1) + 1]
    BY <1>4, <2>1
  <2> QED
    BY <2>1, <2>2
<1>6. v[1] = w[a] /\ v[Len(v)] = w[b] /\ Len(v) >= 1
  <2>1. 1 \in 1 .. b - a + 1 /\ b - a + 1 \in 1 .. b - a + 1 /\ a + 1 - 1 = a /\ a + (b - a + 1) - 1 = b
    BY <1>2
  <2> QED
    BY <1>4, <2>1
<1> QED
  BY <1>4, <1>5, <1>6 DEF Between, v

(* One leg of a journey, and the journey before its last leg.               *)
LEMMA JourneyLeg ==
    ASSUME NEW open \in SUBSET Cells, NEW stops, NEW m \in Nat, NEW n \in 1 .. m - 1, NEW w, Journey(w, open, stops, m)
    PROVE  \E v : Between(v, open, stops[n], stops[n + 1])
<1>1. PICK at : ComesBy(w, stops, m, at)
  BY DEF Journey
<1>2. n \in 1 .. m /\ n + 1 \in 1 .. m
  OBVIOUS
<1>3. at[n] \in 1 .. Len(w) /\ at[n + 1] \in 1 .. Len(w) /\ at[n] <= at[n + 1]
        /\ w[at[n]] = stops[n] /\ w[at[n + 1]] = stops[n + 1]
  BY <1>1, <1>2 DEF ComesBy
<1> DEFINE a == at[n]
           b == at[n + 1]
<1>4. a \in 1 .. Len(w) /\ b \in a .. Len(w) /\ w[a] = stops[n] /\ w[b] = stops[n + 1]
  BY <1>3
<1> HIDE DEF a, b
<1>5. Between(SubSeq(w, a, b), open, w[a], w[b])
  BY <1>4, PieceFacts DEF Journey
<1> QED
  BY <1>4, <1>5

(* A journey is one to the last stop but one, and a walk from there.       *)
LEMMA JourneySplits ==
    ASSUME NEW open \in SUBSET Cells, NEW stops, NEW n \in Nat, n >= 1, NEW w, Journey(w, open, stops, n + 1)
    PROVE  \E u, v : /\ Journey(u, open, stops, n) /\ Between(v, open, stops[n], stops[n + 1])
                     /\ Parts(w, u, v)
<1> DEFINE m == Len(w)
<1>1. PICK at : ComesBy(w, stops, n + 1, at)
  BY DEF Journey
<1>2. /\ at \in [1 .. n + 1 -> 1 .. m] /\ at[1] = 1 /\ at[n + 1] = m
      /\ \A i \in 1 .. n + 1 : w[at[i]] = stops[i]
      /\ \A i \in 1 .. n : at[i] <= at[i + 1]
  BY <1>1 DEF ComesBy
<1>3. w \in Seq(open) /\ m \in Nat /\ m >= 1 /\ \A i \in 1 .. Len(w) - 1 : Adjacent(w[i], w[i + 1])
  BY DEF Journey
<1> DEFINE k == at[n]
           u == SubSeq(w, 1, k)
           v == SubSeq(w, k, m)
<1>4. k \in 1 .. m /\ w[k] = stops[n] /\ w[m] = stops[n + 1] /\ n \in 1 .. n + 1 /\ n + 1 \in 1 .. n + 1 /\ 1 \in 1 .. n + 1
  <2>1. n \in 1 .. n + 1 /\ n + 1 \in 1 .. n + 1 /\ 1 \in 1 .. n + 1
    OBVIOUS
  <2> QED
    BY <1>2, <2>1
<1>5. /\ Between(u, open, w[1], w[k]) /\ Len(u) = k - 1 + 1
      /\ \A i \in 1 .. k - 1 + 1 : u[i] = w[1 + i - 1]
  <2>1. 1 \in 1 .. Len(w) /\ k \in 1 .. Len(w)
    BY <1>3, <1>4
  <2> HIDE DEF k
  <2> QED
    BY <1>3, <2>1, PieceFacts
<1>6. /\ Between(v, open, w[k], w[m]) /\ Len(v) = m - k + 1
      /\ \A i \in 1 .. m - k + 1 : v[i] = w[k + i - 1]
  <2>1. k \in 1 .. Len(w) /\ m \in k .. Len(w)
    BY <1>3, <1>4
  <2> HIDE DEF k, m
  <2> QED
    BY <1>3, <2>1, PieceFacts
<1> HIDE DEF u, v, m
<1>7. Len(u) = k /\ (\A i \in 1 .. k : u[i] = w[i]) /\ k \in Nat
  <2> HIDE DEF k
  <2>1. k \in Nat /\ k - 1 + 1 = k /\ \A i \in 1 .. k : 1 + i - 1 = i
    BY <1>3, <1>4
  <2> QED
    BY <1>5, <2>1
<1>8. Journey(u, open, stops, n)
  <2> DEFINE by == [i \in 1 .. n |-> at[i]]
  <2>1. \A i \in 1 .. n : at[i] \in 1 .. k
    <3> DEFINE Bad == {j \in 0 .. n - 1 : ~(at[n - j] <= k)}
    <3>1. Bad = {}
      <4> SUFFICES ASSUME Bad # {} PROVE FALSE
        OBVIOUS
      <4>1. PICK j \in Bad : \A i \in Bad : j <= i
        <5>1. Bad \in SUBSET Nat
          OBVIOUS
        <5> HIDE DEF Bad
        <5> QED
          BY <5>1, LeastNumber
      <4>2. j \in 0 .. n - 1 /\ ~(at[n - j] <= k)
        OBVIOUS
      <4>3. j # 0
        BY <1>4, <1>7, <4>2
      <4>4. j - 1 \in 0 .. n - 1 /\ ~(j <= j - 1) /\ n - j \in 1 .. n /\ (n - j) + 1 = n - (j - 1) /\ n - (j - 1) \in 1 .. n + 1
        BY <4>2, <4>3
      <4>5. at[n - (j - 1)] <= k
        BY <4>1, <4>4
      <4>6. at[n - j] <= at[n - (j - 1)] /\ at[n - j] \in 1 .. m /\ at[n - (j - 1)] \in 1 .. m
        BY <1>2, <4>4
      <4> QED
        BY <1>3, <1>7, <4>2, <4>5, <4>6
    <3> TAKE i \in 1 .. n
    <3>2. n - i \in 0 .. n - 1 /\ n - (n - i) = i
      OBVIOUS
    <3>3. n - i \notin Bad
      BY <3>1
    <3>4. at[i] <= k
      BY <3>2, <3>3
    <3>5. at[i] \in 1 .. m
      BY <1>2
    <3> QED
      BY <1>3, <1>7, <3>4, <3>5
  <2> HIDE DEF k
  <2>2. by \in [1 .. n -> 1 .. Len(u)]
    BY <1>7, <2>1
  <2>3. by[1] = 1 /\ by[n] = Len(u)
    BY <1>2, <1>7 DEF k
  <2>4. \A i \in 1 .. n : u[by[i]] = stops[i]
    <3> TAKE i \in 1 .. n
    <3>1. i \in 1 .. n + 1 /\ at[i] \in 1 .. k /\ by[i] = at[i]
      BY <2>1
    <3> HIDE DEF by
    <3> QED
      BY <1>2, <1>7, <3>1
  <2>5. \A i \in 1 .. n - 1 : by[i] <= by[i + 1]
    <3> TAKE i \in 1 .. n - 1
    <3>1. i \in 1 .. n /\ i + 1 \in 1 .. n
      OBVIOUS
    <3> QED
      BY <1>2, <3>1
  <2> HIDE DEF by
  <2>6. ComesBy(u, stops, n, by)
    BY <2>2, <2>3, <2>4, <2>5 DEF ComesBy
  <2> QED
    BY <1>5, <2>6 DEF Journey, Between
<1>9. Parts(w, u, v)
  <2> HIDE DEF k
  <2>1. m = Len(u) + Len(v) - 1
    BY <1>3, <1>4, <1>6, <1>7
  <2>2. \A i \in 1 .. Len(v) : w[Len(u) - 1 + i] = v[i]
    <3> TAKE i \in 1 .. Len(v)
    <3>1. k + i - 1 = k - 1 + i /\ i \in 1 .. m - k + 1
      BY <1>3, <1>6, <1>7
    <3> QED
      BY <1>6, <1>7, <3>1
  <2> QED
    BY <1>7, <2>1, <2>2 DEF Parts, m
<1>10. Between(v, open, stops[n], stops[n + 1])
  BY <1>4, <1>6
<1> QED
  BY <1>8, <1>9, <1>10

(* A path is the first leg of a journey, or its next.                      *)
LEMMA JourneyBegins ==
    ASSUME NEW open \in SUBSET Cells, NEW stops, NEW v, Between(v, open, stops[1], stops[2])
    PROVE  Journey(v, open, stops, 2)
<1> DEFINE at == [i \in 1 .. 2 |-> IF i = 1 THEN 1 ELSE Len(v)]
<1>1. Len(v) \in Nat /\ Len(v) >= 1 /\ v[1] = stops[1] /\ v[Len(v)] = stops[2]
  BY DEF Between
<1>2. at[1] = 1 /\ at[2] = Len(v) /\ at \in [1 .. 2 -> 1 .. Len(v)]
  BY <1>1
<1> HIDE DEF at
<1>3. \A i \in 1 .. 2 : v[at[i]] = stops[i]
  BY <1>1, <1>2
<1>4. \A i \in 1 .. 2 - 1 : at[i] <= at[i + 1]
  BY <1>1, <1>2
<1>5. ComesBy(v, stops, 2, at)
  BY <1>2, <1>3, <1>4 DEF ComesBy
<1> QED
  BY <1>5 DEF Journey, Between

(* And such a walk makes the journey longer: Tail drops the stop that both *)
(* have.                                                                   *)
LEMMA JourneyJoins ==
    ASSUME NEW open \in SUBSET Cells, NEW stops, NEW n \in Nat, n >= 1, NEW u, Journey(u, open, stops, n),
           NEW v, Between(v, open, stops[n], stops[n + 1])
    PROVE  Journey(u \o Tail(v), open, stops, n + 1) /\ Parts(u \o Tail(v), u, v)
<1> DEFINE w == u \o Tail(v)
           a == Len(u)
           b == Len(v)
<1>1. u \in Seq(open) /\ a \in Nat /\ a >= 1 /\ u[a] = stops[n] /\ (\A i \in 1 .. Len(u) - 1 : Adjacent(u[i], u[i + 1]))
        /\ Len(u) = a
  BY JourneyFacts DEF Journey
<1>2. v \in Seq(open) /\ b \in Nat /\ b >= 1 /\ v[1] = stops[n] /\ v[b] = stops[n + 1]
        /\ (\A i \in 1 .. Len(v) - 1 : Adjacent(v[i], v[i + 1])) /\ Len(v) = b
  BY DEF Between
<1>3. v # <<>>
  BY <1>2
<1>4. Tail(v) \in Seq(open) /\ Len(Tail(v)) = b - 1 /\ \A i \in 1 .. b - 1 : Tail(v)[i] = v[i + 1]
  BY <1>2, <1>3, HeadTailProperties
<1> DEFINE t == Tail(v)
<1>5. /\ w \in Seq(open) /\ Len(w) = Len(u) + Len(t)
      /\ \A i \in 1 .. Len(u) + Len(t) : w[i] = IF i <= Len(u) THEN u[i] ELSE t[i - Len(u)]
  BY <1>1, <1>4, ConcatProperties
<1> HIDE DEF w, a, b, t
<1>6. Len(w) = a + b - 1 /\ \A i \in 1 .. a : w[i] = u[i]
  <2>1. Len(t) = b - 1
    BY <1>4 DEF t
  <2>2. Len(w) = a + (b - 1) /\ \A i \in 1 .. a + (b - 1) : w[i] = IF i <= a THEN u[i] ELSE t[i - a]
    BY <1>1, <1>5, <2>1
  <2>3. \A i \in 1 .. a : i \in 1 .. a + (b - 1) /\ i <= a
    BY <1>1, <1>2
  <2>4. a + (b - 1) = a + b - 1
    BY <1>1, <1>2
  <2> QED
    BY <2>2, <2>3, <2>4
<1>7. \A i \in 1 .. b : w[a - 1 + i] = v[i]
  <2> TAKE i \in 1 .. b
  <2>1. CASE i = 1
    BY <1>1, <1>2, <1>6, <2>1
  <2>2. CASE i # 1
    <3>1. i - 1 \in 1 .. b - 1 /\ (i - 1) + 1 = i /\ a - 1 + i \in 1 .. a + (b - 1) /\ ~(a - 1 + i <= a)
            /\ (a - 1 + i) - a = i - 1
      BY <1>1, <1>2, <2>2
    <3>2. Len(t) = b - 1 /\ t[i - 1] = v[i]
      BY <1>4, <3>1 DEF t
    <3> QED
      BY <1>1, <1>5, <3>1, <3>2
  <2> QED
    BY <2>1, <2>2
<1>8. Parts(w, u, v)
  BY <1>1, <1>2, <1>6, <1>7 DEF Parts
<1>9. \A i \in 1 .. Len(w) - 1 : Adjacent(w[i], w[i + 1])
  <2> TAKE i \in 1 .. Len(w) - 1
  <2>1. CASE i + 1 <= a
    <3>1. i \in 1 .. Len(u) - 1 /\ i \in 1 .. a /\ i + 1 \in 1 .. a
      BY <1>1, <1>2, <1>6, <2>1
    <3> QED
      BY <1>1, <1>6, <3>1
  <2>2. CASE ~(i + 1 <= a)
    <3> DEFINE j == i - (a - 1)
    <3>1. j \in 1 .. Len(v) - 1 /\ j \in 1 .. b /\ j + 1 \in 1 .. b /\ a - 1 + j = i /\ a - 1 + (j + 1) = i + 1
      BY <1>1, <1>2, <1>6, <2>2
    <3> HIDE DEF j
    <3>2. w[a - 1 + j] = v[j] /\ w[a - 1 + (j + 1)] = v[j + 1]
      BY <1>7, <3>1
    <3> QED
      BY <1>2, <3>1, <3>2
  <2> QED
    BY <2>1, <2>2
<1>10. PICK at : ComesBy(u, stops, n, at)
  BY DEF Journey
<1>11. /\ at \in [1 .. n -> 1 .. a] /\ at[1] = 1 /\ at[n] = a
       /\ \A i \in 1 .. n : u[at[i]] = stops[i]
       /\ \A i \in 1 .. n - 1 : at[i] <= at[i + 1]
  BY <1>1, <1>10 DEF ComesBy
<1> DEFINE m == a + b - 1
           by == [i \in 1 .. n + 1 |-> IF i = n + 1 THEN m ELSE at[i]]
<1>12. m \in Nat /\ a <= m /\ m >= 1 /\ Len(w) = m /\ w[m] = stops[n + 1]
  <2>1. a - 1 + b = m /\ b \in 1 .. b /\ m \in Nat /\ a <= m /\ m >= 1
    BY <1>1, <1>2
  <2>2. w[a - 1 + b] = v[b]
    BY <1>7, <2>1
  <2> QED
    BY <1>2, <1>6, <2>1, <2>2
<1> HIDE DEF m
<1>13. /\ \A i \in 1 .. n + 1 : i = n + 1 \/ (i \in 1 .. n /\ i # n + 1)
       /\ \A i \in 1 .. n : by[i] = at[i]
       /\ by[n + 1] = m
  OBVIOUS
<1>14. by \in [1 .. n + 1 -> 1 .. m]
  <2> SUFFICES ASSUME NEW i \in 1 .. n + 1 PROVE by[i] \in 1 .. m
    OBVIOUS
  <2>1. CASE i = n + 1
    BY <1>12, <1>13, <2>1
  <2>2. CASE i \in 1 .. n
    <3>1. at[i] \in 1 .. a
      BY <1>11, <2>2
    <3> QED
      BY <1>1, <1>12, <1>13, <2>2, <3>1
  <2> QED
    BY <1>13, <2>1, <2>2
<1> HIDE DEF by
<1>15. \A i \in 1 .. n + 1 : w[by[i]] = stops[i]
  <2> TAKE i \in 1 .. n + 1
  <2>1. CASE i = n + 1
    BY <1>12, <1>13, <2>1
  <2>2. CASE i \in 1 .. n
    <3>1. at[i] \in 1 .. a
      BY <1>11, <2>2
    <3> QED
      BY <1>6, <1>11, <1>13, <2>2, <3>1
  <2> QED
    BY <1>13, <2>1, <2>2
<1>16. \A i \in 1 .. (n + 1) - 1 : by[i] <= by[i + 1]
  <2> TAKE i \in 1 .. (n + 1) - 1
  <2>1. i \in 1 .. n /\ at[i] \in 1 .. a /\ by[i] = at[i]
    BY <1>11, <1>13
  <2>2. CASE i = n
    BY <1>1, <1>12, <1>13, <2>1, <2>2
  <2>3. CASE i # n
    <3>1. i \in 1 .. n - 1 /\ i + 1 \in 1 .. n
      BY <2>1, <2>3
    <3> QED
      BY <1>11, <1>13, <2>1, <3>1
  <2> QED
    BY <2>2, <2>3
<1>17. ComesBy(w, stops, n + 1, by)
  <2>1. by[1] = 1 /\ by[n + 1] = Len(w)
    BY <1>11, <1>12, <1>13
  <2> QED
    BY <1>12, <1>14, <1>15, <1>16, <2>1 DEF ComesBy
<1>18. Journey(w, open, stops, n + 1)
  <2>1. Len(w) >= 1 /\ w \in Seq(open)
    BY <1>5, <1>12
  <2> QED
    BY <1>9, <1>17, <2>1 DEF Journey
<1> QED
  BY <1>8, <1>18 DEF w

(* No journey by these stops has less weight.                              *)
Lightest(W, w, open, stops, n) ==
    /\ Journey(w, open, stops, n)
    /\ \A j : Journey(j, open, stops, n) => Along(W, w) <= Along(W, j)

(* The lightest walk of the first leg is the lightest journey.             *)
LEMMA LightestBegins ==
    ASSUME NEW open \in SUBSET Cells, NEW stops, NEW W, NEW v, Between(v, open, stops[1], stops[2]),
           \A j : Between(j, open, stops[1], stops[2]) => Along(W, v) <= Along(W, j)
    PROVE  Lightest(W, v, open, stops, 2)
<1>1. Journey(v, open, stops, 2)
  BY JourneyBegins
<1>2. ASSUME NEW j, Journey(j, open, stops, 2) PROVE Between(j, open, stops[1], stops[2])
  <2>1. PICK at : ComesBy(j, stops, 2, at)
    BY <1>2 DEF Journey
  <2>2. at[1] = 1 /\ at[2] = Len(j) /\ j[at[1]] = stops[1] /\ j[at[2]] = stops[2]
    BY <2>1 DEF ComesBy
  <2>3. Len(j) >= 1 /\ j[1] = stops[1] /\ j[Len(j)] = stops[2]
    BY <1>2, <2>2 DEF Journey
  <2> QED
    BY <1>2, <2>3 DEF Journey, Between
<1> QED
  BY <1>1, <1>2 DEF Lightest

(* The lightest walk of the next leg makes the lightest journey longer.    *)
LEMMA LightestJoins ==
    ASSUME NEW open \in SUBSET Cells, NEW stops, NEW W \in Weights, NEW n \in Nat, n >= 1,
           NEW u, Lightest(W, u, open, stops, n), NEW v, Between(v, open, stops[n], stops[n + 1]),
           \A j : Between(j, open, stops[n], stops[n + 1]) => Along(W, v) <= Along(W, j)
    PROVE  Lightest(W, u \o Tail(v), open, stops, n + 1)
<1> DEFINE w == u \o Tail(v)
<1>1. Journey(u, open, stops, n)
  BY DEF Lightest
<1>2. Journey(w, open, stops, n + 1) /\ Parts(w, u, v)
  BY <1>1, JourneyJoins
<1> HIDE DEF w
<1>3. n + 1 \in Nat /\ n + 1 >= 1
  OBVIOUS
<1>4. u \in Paths /\ v \in Paths /\ w \in Paths
  BY <1>1, <1>2, <1>3, JourneyFacts, BetweenFacts
<1>5. Along(W, w) = Along(W, u) + Along(W, v)
  BY <1>2, <1>4, AlongParts
<1>6. ASSUME NEW j, Journey(j, open, stops, n + 1) PROVE Along(W, w) <= Along(W, j)
  <2>1. PICK x, y : Journey(x, open, stops, n) /\ Between(y, open, stops[n], stops[n + 1]) /\ Parts(j, x, y)
    BY <1>6, JourneySplits
  <2>2. x \in Paths /\ y \in Paths /\ j \in Paths
    BY <1>3, <1>6, <2>1, JourneyFacts, BetweenFacts
  <2>3. Along(W, j) = Along(W, x) + Along(W, y)
    BY <2>1, <2>2, AlongParts
  <2>4. Along(W, u) <= Along(W, x) /\ Along(W, v) <= Along(W, y)
    BY <2>1 DEF Lightest
  <2>5. Along(W, u) \in Nat /\ Along(W, v) \in Nat /\ Along(W, x) \in Nat /\ Along(W, y) \in Nat
    BY <1>4, <2>2, AlongIsNat
  <2> QED
    BY <1>5, <2>3, <2>4, <2>5
<1> QED
  BY <1>2, <1>6 DEF Lightest, w

-----------------------------------------------------------------------------
(* What a route costs on a surface                                         *)

Charges(on) == [p \in Cells \X Cells |-> (on.rate[p[1]] + on.rate[p[2]]) * Length(p[1], p[2])]

(* The length of an edge, in twelfths.                                     *)
Lengths == [p \in Cells \X Cells |-> Length(p[1], p[2])]

(* That is a weight.                                                       *)
LEMMA LengthsFacts == Lengths \in Weights
<1>1. \A p \in Cells \X Cells : Length(p[1], p[2]) \in Nat
  BY DEF Length
<1> QED
  BY <1>1 DEF Lengths, Weights

(* So is what a surface charges for an edge.                               *)
LEMMA ChargesFacts ==
    ASSUME NEW on, SurfaceIs(on)
    PROVE  Charges(on) \in Weights
<1>1. \A p \in Cells \X Cells : (on.rate[p[1]] + on.rate[p[2]]) * Length(p[1], p[2]) \in Nat
  <2> TAKE p \in Cells \X Cells
  <2>1. on.rate[p[1]] + on.rate[p[2]] \in Nat
    BY DEF SurfaceIs
  <2>2. Length(p[1], p[2]) \in Nat
    BY DEF Length
  <2> QED
    BY <2>1, <2>2, Multiplied
<1> QED
  BY <1>1 DEF Charges, Weights

(* The cost of a route is the weight of its charges.                       *)
LEMMA CostIs ==
    ASSUME NEW on, NEW w \in Paths
    PROVE  Cost(w, on) = Along(Charges(on), w)
<1> DEFINE k == Len(w) - 1
           s == [i \in 1 .. k |-> (on.rate[w[i]] + on.rate[w[i + 1]]) * Length(w[i], w[i + 1])]
           t == [i \in 1 .. k |-> Charges(on)[<<w[i], w[i + 1]>>]]
<1>1. k \in Nat /\ \A i \in 1 .. k : w[i] \in Cells /\ w[i + 1] \in Cells
  BY PathFacts
<1>2. \A c, d \in Cells : Charges(on)[<<c, d>>] = (on.rate[c] + on.rate[d]) * Length(c, d)
  <2> TAKE c, d \in Cells
  <2>1. <<c, d>> \in Cells \X Cells /\ <<c, d>>[1] = c /\ <<c, d>>[2] = d
    OBVIOUS
  <2> QED
    BY <2>1, Zenon DEF Charges
<1>3. \A i \in 1 .. k : (on.rate[w[i]] + on.rate[w[i + 1]]) * Length(w[i], w[i + 1]) = Charges(on)[<<w[i], w[i + 1]>>]
  BY <1>1, <1>2
<1>4. s = t
  BY <1>3, Zenon
<1>5. Cost(w, on) = Total(s) /\ Along(Charges(on), w) = Total(t)
  BY Zenon DEF Cost, Along
<1> HIDE DEF s, t
<1> QED
  BY <1>4, <1>5

(* And its distance is the weight of its lengths.                          *)
LEMMA DistanceIs ==
    ASSUME NEW w \in Paths
    PROVE  Distance(w) = Along(Lengths, w)
<1> DEFINE k == Len(w) - 1
           s == [i \in 1 .. k |-> Length(w[i], w[i + 1])]
           t == [i \in 1 .. k |-> Lengths[<<w[i], w[i + 1]>>]]
<1>1. k \in Nat /\ \A i \in 1 .. k : w[i] \in Cells /\ w[i + 1] \in Cells
  BY PathFacts
<1>2. \A c, d \in Cells : Lengths[<<c, d>>] = Length(c, d)
  <2> TAKE c, d \in Cells
  <2>1. <<c, d>> \in Cells \X Cells /\ <<c, d>>[1] = c /\ <<c, d>>[2] = d
    OBVIOUS
  <2> QED
    BY <2>1, Zenon DEF Lengths
<1>3. \A i \in 1 .. k : Length(w[i], w[i + 1]) = Lengths[<<w[i], w[i + 1]>>]
  BY <1>1, <1>2
<1>4. s = t
  BY <1>3, Zenon
<1>5. Distance(w) = Total(s) /\ Along(Lengths, w) = Total(t)
  BY Zenon DEF Distance, Along
<1> HIDE DEF s, t
<1> QED
  BY <1>4, <1>5

(* Without penalties the search looks for what costs least.                *)
LEMMA TollsAreCharges ==
    ASSUME SurfaceIs(surface), penalty = Unpenalised
    PROVE  Tolls = Charges(surface)
<1>1. ASSUME NEW p \in Cells \X Cells
      PROVE  StepCost(p[1], p[2]) = (surface.rate[p[1]] + surface.rate[p[2]]) * Length(p[1], p[2])
  <2>1. penalty[p[2]] = 0 /\ surface.rate[p[1]] \in Nat /\ surface.rate[p[2]] \in Nat
    BY DEF Unpenalised, SurfaceIs
  <2>2. surface.rate[p[1]] + surface.rate[p[2]] + 2 * penalty[p[2]] = surface.rate[p[1]] + surface.rate[p[2]]
    BY <2>1
  <2> QED
    BY <2>2 DEF StepCost
<1> QED
  BY <1>1 DEF Tolls, Charges

-----------------------------------------------------------------------------
(* The stops of a request, and the corridors around its routes              *)

LEMMA StopsFacts ==
    ASSUME request \in RouteRequests, \A i \in DOMAIN request.points : request.points[i] \in Cells
    PROVE  Stops \in Seq(Cells)
<1> DEFINE points == request.points
           M == Len(points)
           S == Seq(Cells)
           first == <<>>
           Step(f, n) == IF n = 0 THEN <<>>
                         ELSE IF n > 1 /\ points[n] = points[n - 1] THEN f[n - 1]
                         ELSE Append(f[n - 1], points[n])
           step == [x \in S |-> [n \in Nat |->
                      IF n \in 1 .. M THEN IF n > 1 /\ points[n] = points[n - 1] THEN x ELSE Append(x, points[n])
                      ELSE x]]
<1>1. points \in Seq(Int \X Int)
  BY RouteAssumption DEF RouteRequest
<1>2. M \in Nat /\ \A n \in 1 .. M : points[n] \in Cells
  BY <1>1
<1>3. first \in S
  OBVIOUS
<1> HIDE DEF points, M
<1>4. \A x \in S, n \in 1 .. M : Append(x, points[n]) \in S
  BY <1>2
<1> HIDE DEF S, first
<1>5. step \in [S -> [Nat -> S]]
  BY <1>4
<1> HIDE DEF step
<1>6. PICK f : Recursive(f, S, first, step, M)
  BY <1>2, <1>3, <1>5, Recursion
<1>7. f \in [0 .. M -> S] /\ f[0] = <<>> /\ \A n \in 1 .. M : f[n] = step[f[n - 1]][n]
  BY <1>6 DEF Recursive, first
<1>8. \A n \in 0 .. M : f[n] = Step(f, n)
  <2> TAKE n \in 0 .. M
  <2>1. CASE n = 0
    BY <1>7, <2>1
  <2>2. CASE n # 0
    <3>1. n \in 1 .. M /\ n \in Nat /\ n - 1 \in 0 .. M
      BY <1>2, <2>2
    <3>2. f[n - 1] \in S
      BY <1>7, <3>1
    <3>3. step[f[n - 1]][n] = Step(f, n)
      BY <2>2, <3>1, <3>2 DEF step
    <3> QED
      BY <1>7, <3>1, <3>3
  <2> QED
    BY <2>1, <2>2
<1>9. f = [n \in 0 .. M |-> f[n]]
  BY <1>7
<1>10. f = [n \in 0 .. M |-> Step(f, n)]
  BY <1>8, <1>9, Zenon
<1> DEFINE g == CHOOSE h : h = [n \in 0 .. M |-> Step(h, n)]
<1>11. g = [n \in 0 .. M |-> Step(g, n)]
  BY <1>10, Zenon
<1>12. Stops = g[M]
  BY DEF Stops, M, points
<1> HIDE DEF g
<1>13. \A n \in 0 .. M : g[n] = Step(g, n)
  BY <1>11
<1> DEFINE Bad == {n \in 0 .. M : g[n] \notin S}
<1>14. Bad = {}
  <2> SUFFICES ASSUME Bad # {} PROVE FALSE
    OBVIOUS
  <2>1. PICK n \in Bad : \A m \in Bad : n <= m
    <3>1. Bad \in SUBSET Nat
      BY <1>2
    <3> HIDE DEF Bad
    <3> QED
      BY <3>1, LeastNumber
  <2>2. n \in 0 .. M /\ g[n] \notin S
    OBVIOUS
  <2>3. n # 0
    <3> SUFFICES ASSUME n = 0 PROVE FALSE
      OBVIOUS
    <3>1. g[n] = first
      BY <1>13, <2>2 DEF first
    <3> QED
      BY <1>3, <2>2, <3>1
  <2>4. n \in 1 .. M /\ n - 1 \in 0 .. M /\ ~(n <= n - 1)
    BY <1>2, <2>2, <2>3
  <2>5. g[n - 1] \in S
    BY <2>1, <2>4
  <2>6. g[n] = g[n - 1] \/ g[n] = Append(g[n - 1], points[n])
    BY <1>13, <2>2, <2>3
  <2> QED
    BY <1>4, <2>2, <2>4, <2>5, <2>6
<1>15. M \in 0 .. M
  BY <1>2
<1> QED
  BY <1>12, <1>14, <1>15 DEF S

(* The mean rate is a number.                                              *)
LEMMA MeanRateFacts ==
    ASSUME SurfaceIs(surface)
    PROVE  MeanRate \in Nat
<1> DEFINE Row(row) == [column \in 1 .. N |-> surface.rate[<<row - 1, column - 1>>]]
           sums == [row \in 1 .. N |-> Total(Row(row))]
<1>1. N \in Nat
  BY RouteAssumption
<1>2. ASSUME NEW row \in 1 .. N PROVE Total(Row(row)) \in Nat
  <2>1. \A column \in 1 .. N : <<row - 1, column - 1>> \in Cells
    BY <1>1 DEF Cells
  <2>2. \A column \in 1 .. N : surface.rate[<<row - 1, column - 1>>] \in Nat
    BY <2>1 DEF SurfaceIs
  <2>3. Row(row) \in [1 .. N -> Nat]
    BY <2>2
  <2> HIDE DEF Row
  <2>4. Row(row) \in Seq(Nat)
    BY <1>1, <2>3, SeqDef
  <2> QED
    BY <2>4, TotalIsNat
<1> HIDE DEF Row
<1>3. sums \in [1 .. N -> Nat]
  BY <1>2
<1>4. MeanRate = Total(sums) \div (N * N)
  BY DEF MeanRate, Row
<1> HIDE DEF sums
<1>5. sums \in Seq(Nat)
  BY <1>1, <1>3, SeqDef
<1>6. Total(sums) \in Nat /\ N * N \in Nat \ {0}
  BY <1>5, TotalIsNat, CellsFinite
<1> DEFINE M == N * N
<1>7. M \in Nat /\ M > 0
  BY <1>6
<1> HIDE DEF M
<1>8. Total(sums) \div M \in Nat
  BY <1>6, <1>7, Divided
<1> QED
  BY <1>4, <1>8 DEF M

(* A penalty for the corridor is added to the cells.                       *)
LEMMA CorridorFacts ==
    ASSUME SurfaceIs(surface), Penalised, NEW path \in Seq(Cells)
    PROVE  WithCorridor(path) \in [Cells -> Nat]
<1> DEFINE scale == (16 * Larger(ALPHA, MeanRate)) \div 10
           near(c) == {i \in DOMAIN path : Apart(c, path[i]) <= CORRIDOR}
<1>1. scale \in Nat
  <2>1. MeanRate \in Nat
    BY MeanRateFacts
  <2>2. 16 * Larger(ALPHA, MeanRate) \in Nat
    BY <2>1 DEF Larger, ALPHA
  <2> QED
    BY <2>2, Divided
<1>2. ASSUME NEW c \in Cells PROVE Cardinality(near(c)) \in Nat
  <2>1. IsFiniteSet(DOMAIN path)
    <3>1. DOMAIN path = 1 .. Len(path) /\ Len(path) \in Nat
      OBVIOUS
    <3> QED
      BY <3>1, FS_Interval
  <2>2. IsFiniteSet(near(c))
    BY <2>1, FS_Subset
  <2> QED
    BY <2>2, FS_CardinalityType
<1> HIDE DEF scale, near
<1>3. \A c \in Cells : penalty[c] + scale * Cardinality(near(c)) \in Nat
  <2> TAKE c \in Cells
  <2>1. scale * Cardinality(near(c)) \in Nat
    BY <1>1, <1>2, Multiplied
  <2> QED
    BY <2>1 DEF Penalised
<1>4. WithCorridor(path) = [c \in Cells |-> penalty[c] + scale * Cardinality(near(c))]
  BY DEF WithCorridor, scale, near
<1> QED
  BY <1>3, <1>4

-----------------------------------------------------------------------------
(* What a search knows does not change with anything else.                 *)
LEMMA KnownAfter ==
    ASSUME surface' = surface, penalty' = penalty, NEW from, NEW to
    PROVE  SearchIs(search', from, to) => SearchIs(search, from, to)'
<1>1. MinRate' = MinRate
  BY DEF MinRate
<1>2. \A c, d : Estimate(c, d)' = Estimate(c, d)
  BY <1>1 DEF Estimate
<1>3. \A c, d : StepCost(c, d)' = StepCost(c, d)
  BY DEF StepCost
<1>4. OpenCells' = OpenCells
  BY DEF OpenCells
<1>5. Ways' = Ways
  BY <1>4 DEF Ways
<1>6. \A reached : Further(reached)' = Further(reached)
  BY <1>3 DEF Further
<1>7. \A found : Rounds(found, from)' <=> Rounds(found, from)
  BY <1>5, <1>6 DEF Rounds
<1>8. Labelled(search', from, to) => Labelled(search, from, to)'
  BY <1>4 DEF Labelled
<1>9. Frontier(search', to) => Frontier(search, to)'
  BY <1>2 DEF Frontier
<1>10. Settled(search') => Settled(search)'
  BY <1>3, <1>4 DEF Settled
<1>11. Origins(search', from) => Origins(search, from)'
  BY <1>3 DEF Origins
<1>12. FoundSoFar(search', from) => FoundSoFar(search, from)'
  BY <1>7 DEF FoundSoFar
<1> QED
  BY <1>8, <1>9, <1>10, <1>11, <1>12 DEF SearchIs

(* What is asked for stays while the request does.                         *)
LEMMA AskedAfter ==
    ASSUME terrain' = terrain, request' = request
    PROVE  Stops' = Stops /\ \A name : CostSurface(name)' = CostSurface(name)
<1>1. Stops' = Stops
  BY DEF Stops
<1>2. \A name : CostSurface(name)' = CostSurface(name)
  BY DEF CostSurface
<1> QED
  BY <1>1, <1>2

-----------------------------------------------------------------------------
(* The invariant *)

Phases == {"recommended", "shortest", "before", "after"}

(* A route that is kept.                                                   *)
RouteRecord == [phase : Phases, label : Phases \cup {"alternative"}, cells : Seq(Cells)]

(* The cells that are open on a surface.                                   *)
OpenOn(on) == Cells \ on.blocked

(* The types.                                                              *)
RouteTypes ==
    /\ terrain \in Terrains /\ request \in RouteRequests
    /\ phase \in Phases /\ label \in {phase, "alternative"}
    /\ penalty \in [Cells -> Nat] /\ routes \in Seq(RouteRecord)

(* A route comes by all stops over open cells, and a main one costs least.   *)
RouteIs(r, stops, on) ==
    /\ r.label \in {r.phase, "alternative"}
    /\ Journey(r.cells, OpenOn(on), stops, Len(stops))
    /\ r.label # "alternative" => Lightest(Charges(on), r.cells, OpenOn(on), stops, Len(stops))

(* The routes that are kept are those of their phase.                      *)
RoutesAre ==
    \A i \in DOMAIN routes, name \in Phases :
        routes[i].phase = name => RouteIs(routes[i], Stops, CostSurface(name))

(* The routes after the first of a phase are alternatives, and new.         *)
RoutesDiffer ==
    \A i, j \in DOMAIN routes :
        i < j /\ routes[i].phase = routes[j].phase =>
            /\ routes[j].label = "alternative"
            /\ IsInjective(routes[j].cells) => routes[i].cells # routes[j].cells

(* The routes of the first phase are the only ones during it.              *)
FirstPhase == phase \in {"recommended", "before"} => \A i \in DOMAIN routes : routes[i].phase = phase

(* The phase has no route yet.                                             *)
NoneYet == \A i \in DOMAIN routes : routes[i].phase # phase

(* No search is under way.                                                 *)
AtRest == search = NoSearch /\ merged = <<>> /\ leg = 1

(* A phase that has no surface yet has searched nothing.                   *)
PhaseAhead == answer = "none" /\ surface = NoSurface => label = phase /\ AtRest /\ NoneYet

(* A phase that has one searches that of its name, without penalties until *)
(* it has its route.                                                       *)
PhaseUnderWay ==
    answer = "none" /\ surface # NoSurface =>
        /\ \A name : name = phase => surface = CostSurface(name)
        /\ Stops \in Seq(Cells) /\ leg \in 1 .. Len(Stops) - 1
        /\ label # "alternative" => penalty = Unpenalised /\ NoneYet
        /\ label = "alternative" => \E i \in DOMAIN routes : routes[i].phase = phase

(* The legs that are merged are a journey, and the lightest one before the *)
(* alternatives.                                                           *)
LegsSoFar ==
    answer = "none" /\ surface # NoSurface =>
        /\ leg = 1 => merged = <<>>
        /\ leg > 1 =>
             /\ Journey(merged, OpenOn(surface), Stops, leg)
             /\ label # "alternative" => Lightest(Charges(surface), merged, OpenOn(surface), Stops, leg)

(* The search under way is that of the leg.                                *)
LegUnderWay ==
    answer = "none" /\ surface # NoSurface =>
        \A from, to : search # NoSearch /\ from = Stops[leg] /\ to = Stops[leg + 1] => SearchIs(search, from, to)

(* The invariant.                                                          *)
RouteInv ==
    /\ RouteTypes /\ RoutesAre /\ RoutesDiffer /\ FirstPhase
    /\ PhaseAhead /\ PhaseUnderWay /\ LegsSoFar /\ LegUnderWay

(* It holds initially.                                                     *)
LEMMA RouteInitInv == RouteInit => RouteInv
<1> SUFFICES ASSUME RouteInit PROVE RouteInv
  OBVIOUS
<1>1. /\ phase \in Phases /\ label = phase /\ terrain \in Terrains /\ request \in RouteRequests
      /\ surface = NoSurface /\ penalty = Unpenalised /\ search = NoSearch /\ merged = <<>> /\ leg = 1
      /\ routes = <<>> /\ answer = "none"
  BY DEF RouteInit, Phases
<1>2. routes \in Seq(RouteRecord) /\ DOMAIN routes = {}
  BY <1>1
<1>3. Unpenalised \in [Cells -> Nat]
  BY DEF Unpenalised
<1> QED
  BY <1>1, <1>2, <1>3 DEF RouteInv, RouteTypes, RoutesAre, RoutesDiffer, FirstPhase, PhaseAhead, NoneYet, AtRest,
     PhaseUnderWay, LegsSoFar, LegUnderWay

(* What holds in the middle of a phase.                                    *)
LEMMA UnderWay ==
    ASSUME RouteInv, answer = "none", surface # NoSurface
    PROVE  /\ SurfaceIs(surface) /\ Penalised /\ surface = CostSurface(phase) /\ phase \in Phases
           /\ OpenOn(surface) \in SUBSET Cells /\ OpenCells = OpenOn(surface)
           /\ Charges(surface) \in Weights
           /\ Stops \in Seq(Cells) /\ Len(Stops) \in Nat /\ leg \in 1 .. Len(Stops) - 1
           /\ Stops[leg] \in Cells /\ Stops[leg + 1] \in Cells
<1>1. terrain \in Terrains /\ request \in RouteRequests /\ Penalised /\ phase \in Phases
  BY DEF RouteInv, RouteTypes, Penalised
<1>2. surface = CostSurface(phase) /\ Stops \in Seq(Cells) /\ leg \in 1 .. Len(Stops) - 1
  BY DEF RouteInv, PhaseUnderWay
<1>3. SurfaceIs(surface)
  <2>1. \A name : SurfaceIs(CostSurface(name))
    BY <1>1, SurfaceFacts
  <2> QED
    BY <1>2, <2>1
<1>4. Stops[leg] \in Cells /\ Stops[leg + 1] \in Cells /\ Len(Stops) \in Nat
  BY <1>2
<1> QED
  BY <1>1, <1>2, <1>3, <1>4, ChargesFacts DEF OpenOn, OpenCells

(* A search under way has both ends and a top.                              *)
LEMMA SearchUnderWay ==
    ASSUME RouteInv, Searching
    PROVE  /\ answer = "none" /\ surface # NoSurface /\ search # NoSearch
           /\ SearchIs(search, Stops[leg], Stops[leg + 1]) /\ search.to = Stops[leg + 1]
           /\ Top \in search.open /\ \A f \in search.open : Top[1] <= f[1]
<1>1. answer = "none" /\ search.open # {}
  BY DEF Searching
<1>2. search # NoSearch
  <2>1. NoSearch.open = {}
    BY DEF NoSearch
  <2> QED
    BY <1>1, <2>1
<1>3. surface # NoSurface
  BY <1>1, <1>2 DEF RouteInv, PhaseAhead, AtRest
<1>4. SearchIs(search, Stops[leg], Stops[leg + 1])
  BY <1>1, <1>2, <1>3 DEF RouteInv, LegUnderWay
<1>5. search.to = Stops[leg + 1] /\ DOMAIN search.g \in SUBSET Cells /\ search.open \in SUBSET (Nat \X DOMAIN search.g)
  BY <1>4 DEF SearchIs, Labelled, Frontier, OpenCells
<1> QED
  BY <1>1, <1>2, <1>3, <1>4, <1>5, TopFacts

(* A search that is begun or goes on.                                      *)
LEMMA SearchGoesOn ==
    ASSUME RouteInv, answer = "none", surface # NoSurface,
           UNCHANGED <<terrain, request, phase, label, surface, penalty, merged, leg, routes, tried, answer>>,
           SearchIs(search', Stops[leg], Stops[leg + 1])
    PROVE  RouteInv'
<1>1. /\ terrain' = terrain /\ request' = request /\ phase' = phase /\ label' = label /\ surface' = surface
      /\ penalty' = penalty /\ merged' = merged /\ leg' = leg /\ routes' = routes /\ answer' = answer
  OBVIOUS
<1>2. Stops' = Stops /\ \A name : CostSurface(name)' = CostSurface(name)
  BY <1>1, AskedAfter
<1>3. RouteTypes' /\ RoutesDiffer' /\ FirstPhase' /\ PhaseAhead'
  BY <1>1 DEF RouteInv, RouteTypes, RoutesDiffer, FirstPhase, PhaseAhead
<1>4. RoutesAre'
  BY <1>1, <1>2 DEF RouteInv, RoutesAre
<1>5. PhaseUnderWay'
  BY <1>1, <1>2 DEF RouteInv, PhaseUnderWay, NoneYet
<1>6. LegsSoFar'
  BY <1>1, <1>2 DEF RouteInv, LegsSoFar
<1>7. LegUnderWay'
  <2> SUFFICES ASSUME NEW from, NEW to, from = Stops[leg], to = Stops[leg + 1] PROVE SearchIs(search, from, to)'
    BY <1>1, <1>2 DEF LegUnderWay
  <2>1. SearchIs(search', from, to)
    OBVIOUS
  <2> QED
    BY <1>1, <2>1, KnownAfter
<1> QED
  BY <1>3, <1>4, <1>5, <1>6, <1>7 DEF RouteInv

(* Preparing a phase keeps it.                                             *)
LEMMA PrepareInv == RouteInv /\ Prepare => RouteInv'
<1> SUFFICES ASSUME RouteInv, Prepare PROVE RouteInv'
  OBVIOUS
<1>1. /\ answer = "none" /\ surface = NoSurface /\ surface' = CostSurface(phase) /\ penalty' = Unpenalised
      /\ terrain' = terrain /\ request' = request /\ phase' = phase /\ label' = label /\ search' = search
      /\ merged' = merged /\ leg' = leg /\ routes' = routes
  BY DEF Prepare, PenaltyAtStart
<1>2. answer' = "none" => (\A i \in DOMAIN request.points : request.points[i] \in Cells) /\ ~(Len(Stops) < 2)
  BY DEF Prepare
<1>3. Stops' = Stops /\ \A name : CostSurface(name)' = CostSurface(name)
  BY <1>1, AskedAfter
<1>4. label = phase /\ AtRest /\ NoneYet /\ phase \in Phases /\ phase # "alternative" /\ request \in RouteRequests
  BY <1>1 DEF RouteInv, PhaseAhead, RouteTypes, Phases
<1>5. RouteTypes'
  <2>1. Unpenalised \in [Cells -> Nat]
    BY DEF Unpenalised
  <2> QED
    BY <1>1, <2>1 DEF RouteInv, RouteTypes
<1>6. RoutesDiffer' /\ FirstPhase'
  BY <1>1 DEF RouteInv, RoutesDiffer, FirstPhase
<1>7. RoutesAre'
  BY <1>1, <1>3 DEF RouteInv, RoutesAre
<1>8. PhaseAhead'
  BY <1>1, <1>4 DEF PhaseAhead, AtRest, NoneYet
<1>9. PhaseUnderWay'
  <2> SUFFICES ASSUME answer' = "none"
               PROVE  /\ \A name : name = phase => surface' = CostSurface(name)
                      /\ Stops \in Seq(Cells) /\ leg \in 1 .. Len(Stops) - 1
    BY <1>1, <1>3, <1>4 DEF PhaseUnderWay, NoneYet
  <2>1. Stops \in Seq(Cells)
    BY <1>2, <1>4, StopsFacts
  <2>2. leg = 1
    BY <1>4 DEF AtRest
  <2> QED
    BY <1>1, <1>2, <2>1, <2>2
<1>10. LegsSoFar'
  BY <1>1, <1>4 DEF LegsSoFar, AtRest
<1>11. LegUnderWay'
  BY <1>1, <1>4 DEF LegUnderWay, AtRest
<1> QED
  BY <1>5, <1>6, <1>7, <1>8, <1>9, <1>10, <1>11 DEF RouteInv

(* So does passing over an entry of a closed cell.                         *)
LEMMA SkipClosedInv == RouteInv /\ SkipClosed => RouteInv'
<1> SUFFICES ASSUME RouteInv, SkipClosed PROVE RouteInv'
  OBVIOUS
<1>1. /\ Searching /\ Top[2] \in search.closed /\ search' = [search EXCEPT !.open = @ \ {Top}]
      /\ UNCHANGED <<terrain, request, phase, label, surface, penalty, merged, leg, routes, tried, answer>>
  BY DEF SkipClosed
<1>2. /\ answer = "none" /\ surface # NoSurface /\ SearchIs(search, Stops[leg], Stops[leg + 1]) /\ Top \in search.open
  BY <1>1, SearchUnderWay
<1>3. SurfaceIs(surface) /\ Penalised
  BY <1>2, UnderWay
<1> DEFINE from == Stops[leg]
           to == Stops[leg + 1]
           t == search'
           e == Top
<1>4. SearchIs(search, from, to) /\ e \in search.open /\ e[2] \in search.closed /\ t = [search EXCEPT !.open = @ \ {e}]
  BY <1>1, <1>2
<1> HIDE DEF from, to, t, e
<1>5. SearchIs(t, from, to)
  BY <1>3, <1>4, SearchSkips
<1> QED
  BY <1>1, <1>2, <1>5, SearchGoesOn DEF t, from, to

(* So does an expansion.                                                   *)
LEMMA ExpandInv == RouteInv /\ Expand => RouteInv'
<1> SUFFICES ASSUME RouteInv, Expand PROVE RouteInv'
  OBVIOUS
<1> DEFINE from == Stops[leg]
           to == Stops[leg + 1]
           t == search'
           e == Top
           c == Top[2]
           better == {d \in Neighbours(c) : d \in DOMAIN search.g => search.g[c] + StepCost(c, d) < search.g[d]}
<1>1. /\ Searching /\ e[2] \notin search.closed /\ e[2] # search.to /\ c = e[2]
      /\ t = [search EXCEPT
               !.closed = @ \cup {c},
               !.g = [d \in DOMAIN @ \cup better |-> IF d \in better THEN search.g[c] + StepCost(c, d) ELSE @[d]],
               !.came = [d \in DOMAIN @ \cup better |-> IF d \in better THEN c ELSE @[d]],
               !.open = (@ \ {e}) \cup {<<search.g[c] + StepCost(c, d) + Estimate(d, search.to), d>> : d \in better}]
      /\ UNCHANGED <<terrain, request, phase, label, surface, penalty, merged, leg, routes, tried, answer>>
  BY DEF Expand
<1>2. /\ answer = "none" /\ surface # NoSurface /\ SearchIs(search, from, to) /\ search.to = to
      /\ e \in search.open /\ \A f \in search.open : e[1] <= f[1]
  BY <1>1, SearchUnderWay
<1>3. SurfaceIs(surface) /\ Penalised
  BY <1>2, UnderWay
<1>4. better = Improved(search, c)
  BY DEF Improved, Neighbours, OpenCells, Adjacent
<1> HIDE DEF from, to, t, e, c, better
<1>5. Expanded(search, to, e, c, better, t)
  BY <1>1, <1>2 DEF Expanded
<1>6. e[2] # to
  BY <1>1, <1>2
<1>7. SearchIs(t, from, to)
  BY <1>1, <1>2, <1>3, <1>4, <1>5, <1>6, SearchExpands
<1> QED
  BY <1>1, <1>2, <1>7, SearchGoesOn DEF t, from, to

(* A request that is refused, or answered, or turns to its next phase.       *)
LEMMA PhaseEnds ==
    ASSUME RouteTypes, NextPhase \/ (answer' # "none" /\ UNCHANGED <<phase, label, surface, tried>>),
           terrain' = terrain, request' = request, penalty' \in [Cells -> Nat], routes' \in Seq(RouteRecord),
           phase \in {"recommended", "before"} => \A i \in DOMAIN routes' : routes'[i].phase = phase,
           NoMoreSearch, RoutesAre', RoutesDiffer'
    PROVE  RouteInv'
<1>1. search' = NoSearch /\ merged' = <<>> /\ leg' = 1
  BY DEF NoMoreSearch
<1>2. phase \in Phases /\ label \in {phase, "alternative"} /\ terrain \in Terrains /\ request \in RouteRequests
  BY DEF RouteTypes
<1>3. CASE answer' # "none" /\ phase' = phase /\ label' = label
  <2>1. RouteTypes' /\ FirstPhase'
    BY <1>2, <1>3 DEF RouteTypes, FirstPhase
  <2>2. PhaseAhead' /\ PhaseUnderWay' /\ LegsSoFar' /\ LegUnderWay'
    BY <1>3 DEF PhaseAhead, PhaseUnderWay, LegsSoFar, LegUnderWay
  <2> QED
    BY <2>1, <2>2 DEF RouteInv
<1>4. CASE \E next \in {"shortest", "after"} :
             /\ phase' = next /\ label' = next /\ surface' = NoSurface
             /\ phase \in {"recommended", "before"}
  <2>1. PICK next \in {"shortest", "after"} : phase' = next /\ label' = next /\ surface' = NoSurface
    BY <1>4
  <2>2. \A i \in DOMAIN routes' : routes'[i].phase = phase /\ phase # phase'
    BY <1>4, <2>1
  <2>3. RouteTypes' /\ FirstPhase'
    BY <1>2, <2>1 DEF RouteTypes, FirstPhase, Phases
  <2>4. PhaseAhead'
    BY <1>1, <2>1, <2>2 DEF PhaseAhead, AtRest, NoneYet
  <2>5. PhaseUnderWay' /\ LegsSoFar' /\ LegUnderWay'
    BY <2>1 DEF PhaseUnderWay, LegsSoFar, LegUnderWay
  <2> QED
    BY <2>3, <2>4, <2>5 DEF RouteInv
<1>5. CASE NextPhase
  <2>1. CASE phase = "recommended"
    BY <1>4, <1>5, <2>1 DEF NextPhase, TurnTo
  <2>2. CASE phase = "before"
    BY <1>4, <1>5, <2>2 DEF NextPhase, TurnTo
  <2>3. CASE phase \notin {"recommended", "before"}
    BY <1>3, <1>5, <2>3 DEF NextPhase
  <2> QED
    BY <2>1, <2>2, <2>3
<1> QED
  BY <1>3, <1>5

(* So does a request that fails.                                           *)
LEMMA FailsInv ==
    ASSUME RouteInv, NEW reason, reason # "none", RouteFails(reason)
    PROVE  RouteInv'
<1>1. /\ NoMoreSearch /\ terrain' = terrain /\ request' = request /\ penalty' = penalty /\ routes' = routes
      /\ NextPhase \/ (answer' = reason /\ UNCHANGED <<phase, label, surface, tried>>)
  BY DEF RouteFails
<1>2. Stops' = Stops /\ \A name : CostSurface(name)' = CostSurface(name)
  BY <1>1, AskedAfter
<1>3. RoutesAre' /\ RoutesDiffer'
  BY <1>1, <1>2 DEF RouteInv, RoutesAre, RoutesDiffer
<1>4. /\ RouteTypes /\ penalty' \in [Cells -> Nat] /\ routes' \in Seq(RouteRecord)
      /\ phase \in {"recommended", "before"} => \A i \in DOMAIN routes' : routes'[i].phase = phase
  BY <1>1 DEF RouteInv, RouteTypes, FirstPhase
<1> QED
  BY <1>1, <1>3, <1>4, PhaseEnds

(* So does the first entry of a leg.                                       *)
LEMMA BeginLegInv == RouteInv /\ BeginLeg => RouteInv'
<1> SUFFICES ASSUME RouteInv, BeginLeg PROVE RouteInv'
  OBVIOUS
<1> DEFINE from == Stops[leg]
           to == Stops[leg + 1]
<1>1. answer = "none" /\ surface # NoSurface /\ search = NoSearch
  BY DEF BeginLeg
<1>2. SurfaceIs(surface) /\ Penalised /\ from \in Cells /\ to \in Cells
  BY <1>1, UnderWay
<1>3. CASE from \in surface.blocked \/ to \in surface.blocked
  <2>1. RouteFails("start_blocked") \/ RouteFails("goal_blocked")
    BY <1>3 DEF BeginLeg
  <2> QED
    BY <2>1, FailsInv
<1>4. CASE ~(from \in surface.blocked \/ to \in surface.blocked)
  <2> DEFINE t == search'
  <2>1. /\ t = [to |-> to, g |-> [c \in {from} |-> 0], came |-> <<>>, closed |-> {},
                open |-> {<<Estimate(from, to), from>>}]
        /\ UNCHANGED <<terrain, request, phase, label, surface, penalty, merged, leg, routes, tried, answer>>
    BY <1>4 DEF BeginLeg
  <2>2. from \in OpenCells /\ to \in OpenCells
    BY <1>2, <1>4 DEF OpenCells
  <2> HIDE DEF from, to, t
  <2>3. SearchIs(t, from, to)
    BY <1>2, <2>1, <2>2, SearchBegins
  <2> QED
    BY <1>1, <2>1, <2>3, SearchGoesOn DEF t, from, to
<1> QED
  BY <1>3, <1>4

(* So does a leg that has no path.                                         *)
LEMMA LegUnreachableInv == RouteInv /\ LegUnreachable => RouteInv'
<1> SUFFICES ASSUME RouteInv, LegUnreachable PROVE RouteInv'
  OBVIOUS
<1>1. RouteFails("unreachable")
  BY DEF LegUnreachable
<1> QED
  BY <1>1, FailsInv

(* With the leg that is found, the path is a journey by one stop more.       *)
LEMMA PathIs ==
    ASSUME RouteInv, Searching, Top[2] = search.to,
           NEW path, path = IF merged = <<>> THEN PathFound ELSE merged \o Tail(PathFound)
    PROVE  /\ Journey(path, OpenOn(surface), Stops, leg + 1)
           /\ label # "alternative" => Lightest(Charges(surface), path, OpenOn(surface), Stops, leg + 1)
<1> DEFINE open == OpenOn(surface)
           W == Charges(surface)
           from == Stops[leg]
           to == Stops[leg + 1]
           p == PathFound
<1>1. /\ answer = "none" /\ surface # NoSurface /\ SearchIs(search, from, search.to) /\ search.to = to
      /\ Top \in search.open /\ \A f \in search.open : Top[1] <= f[1]
  BY SearchUnderWay
<1>2. /\ SurfaceIs(surface) /\ Penalised /\ open \in SUBSET Cells /\ OpenCells = open /\ W \in Weights
      /\ leg \in Nat /\ leg >= 1
  BY <1>1, UnderWay
<1>3. search.to \in DOMAIN search.g
  BY <1>1 DEF SearchIs, Frontier
<1>4. Between(p, open, from, to) /\ Along(Tolls, p) = search.g[search.to]
  BY <1>1, <1>2, <1>3, PathFoundIs
<1>5. label # "alternative" => \A j : Between(j, open, from, to) => Along(W, p) <= Along(W, j)
  <2> SUFFICES ASSUME label # "alternative", NEW j, Between(j, open, from, to) PROVE Along(W, p) <= Along(W, j)
    OBVIOUS
  <2>1. penalty = Unpenalised
    BY <1>1 DEF RouteInv, PhaseUnderWay
  <2>2. Tolls = W
    BY <1>2, <2>1, TollsAreCharges
  <2> DEFINE e == Top
             goal == search.to
  <2>3. SearchIs(search, from, goal) /\ e \in search.open /\ (\A f \in search.open : e[1] <= f[1]) /\ e[2] = goal
          /\ Between(j, OpenCells, from, goal)
    BY <1>1, <1>2
  <2> HIDE DEF e, goal, from
  <2>4. search.g[goal] <= Along(Tolls, j)
    BY <1>2, <2>3, FoundIsCheapest
  <2> QED
    BY <1>4, <2>2, <2>4 DEF goal
<1>6. /\ leg = 1 => merged = <<>>
      /\ leg > 1 => /\ Journey(merged, open, Stops, leg)
                    /\ label # "alternative" => Lightest(W, merged, open, Stops, leg)
  BY <1>1 DEF RouteInv, LegsSoFar
<1> HIDE DEF open, W, p
<1>7. CASE leg = 1
  <2>1. path = p /\ leg + 1 = 2
    BY <1>6, <1>7 DEF p
  <2>2. Between(p, open, Stops[1], Stops[2])
    BY <1>4, <1>7
  <2>3. label # "alternative" => \A j : Between(j, open, Stops[1], Stops[2]) => Along(W, p) <= Along(W, j)
    BY <1>5, <1>7
  <2>4. Journey(p, open, Stops, 2)
    BY <1>2, <2>2, JourneyBegins
  <2>5. label # "alternative" => Lightest(W, p, open, Stops, 2)
    BY <1>2, <2>2, <2>3, LightestBegins
  <2> QED
    BY <2>1, <2>4, <2>5 DEF open, W
<1>8. CASE leg # 1
  <2>1. leg > 1 /\ Journey(merged, open, Stops, leg)
    BY <1>2, <1>6, <1>8
  <2>2. merged # <<>>
    BY <2>1 DEF Journey
  <2>3. path = merged \o Tail(p)
    BY <2>2 DEF p
  <2>4. Journey(merged \o Tail(p), open, Stops, leg + 1)
    BY <1>2, <1>4, <2>1, JourneyJoins
  <2>5. label # "alternative" => Lightest(W, merged \o Tail(p), open, Stops, leg + 1)
    <3> SUFFICES ASSUME label # "alternative" PROVE Lightest(W, merged \o Tail(p), open, Stops, leg + 1)
      OBVIOUS
    <3>1. Lightest(W, merged, open, Stops, leg)
      BY <1>6, <2>1
    <3> QED
      BY <1>2, <1>4, <1>5, <3>1, LightestJoins
  <2> QED
    BY <2>3, <2>4, <2>5 DEF open, W
<1> QED
  BY <1>7, <1>8

(* A route that comes back to no cell is mostly in another of the same cells. *)
LEMMA SameIsMostlyIn ==
    ASSUME NEW path \in Seq(Cells), Len(path) >= 1, IsInjective(path)
    PROVE  MostlyIn(path, path)
<1> DEFINE n == Len(path)
           S == Range(path)
<1>1. n \in Nat /\ n >= 1 /\ DOMAIN path = 1 .. n
  OBVIOUS
<1>2. path \in [1 .. n -> S] /\ (\A s \in S : \E i \in 1 .. n : path[i] = s)
        /\ \A i, j \in 1 .. n : path[i] = path[j] => i = j
  BY <1>1 DEF Range, IsInjective
<1>3. ExistsBijection(1 .. n, S)
  BY <1>2 DEF ExistsBijection, Bijection, Injection, Surjection
<1>4. Cardinality(S) = n
  BY <1>1, <1>3, FS_CountingElements
<1>5. MostlyIn(path, path) <=> 100 * Cardinality(S \cap S) > 85 * n
  BY DEF MostlyIn
<1>6. S \cap S = S
  OBVIOUS
<1> HIDE DEF n, S
<1>7. 100 * n > 85 * n
  BY <1>1
<1>8. 100 * Cardinality(S \cap S) > 85 * n
  BY <1>4, <1>6, <1>7
<1> QED
  BY <1>5, <1>8, Zenon

(* A route that is kept.                                                   *)
LEMMA KeptFacts ==
    ASSUME RouteInv, answer = "none", surface # NoSurface, terrain' = terrain, request' = request,
           NEW path, Journey(path, OpenOn(surface), Stops, Len(Stops)),
           label # "alternative" => Lightest(Charges(surface), path, OpenOn(surface), Stops, Len(Stops)),
           label = "alternative" => \A r \in Rivals : ~MostlyIn(path, r.cells),
           Keep(path)
    PROVE  /\ routes' \in Seq(RouteRecord) /\ RoutesAre' /\ RoutesDiffer'
           /\ phase \in {"recommended", "before"} => \A i \in DOMAIN routes' : routes'[i].phase = phase
           /\ \E i \in DOMAIN routes' : routes'[i].phase = phase
<1> DEFINE r == [phase |-> phase, label |-> label, cells |-> path]
           m == Len(routes)
<1>1. /\ phase \in Phases /\ label \in {phase, "alternative"} /\ routes \in Seq(RouteRecord) /\ phase # "alternative"
  BY DEF RouteInv, RouteTypes, Phases
<1>2. /\ surface = CostSurface(phase) /\ OpenOn(surface) \in SUBSET Cells /\ Len(Stops) \in Nat /\ Len(Stops) >= 1
  BY UnderWay
<1>3. path \in Seq(Cells) /\ Len(path) >= 1
  BY <1>2 DEF Journey
<1>4. r \in RouteRecord /\ r.phase = phase /\ r.label = label /\ r.cells = path
  BY <1>1, <1>3 DEF RouteRecord
<1>5. RouteIs(r, Stops, surface)
  BY <1>1, <1>4 DEF RouteIs
<1> HIDE DEF r
<1>6. /\ m \in Nat /\ routes' \in Seq(RouteRecord) /\ DOMAIN routes' = 1 .. m + 1 /\ DOMAIN routes = 1 .. m
      /\ routes'[m + 1] = r /\ \A i \in 1 .. m : routes'[i] = routes[i]
  <2>1. routes' = Append(routes, r)
    BY DEF Keep, r
  <2> QED
    BY <1>1, <1>4, <2>1, AppendProperties
<1> HIDE DEF m
<1>7. Stops' = Stops /\ \A name : CostSurface(name)' = CostSurface(name)
  BY AskedAfter
<1>8. \A i \in 1 .. m + 1 : i = m + 1 \/ i \in 1 .. m
  BY <1>6
<1>9. RoutesAre'
  <2> SUFFICES ASSUME NEW i \in 1 .. m + 1, NEW name \in Phases, routes'[i].phase = name
               PROVE  RouteIs(routes'[i], Stops, CostSurface(name))
    BY <1>6, <1>7 DEF RoutesAre
  <2>1. CASE i = m + 1
    BY <1>2, <1>4, <1>5, <1>6, <2>1
  <2>2. CASE i \in 1 .. m
    BY <1>6, <2>2 DEF RouteInv, RoutesAre
  <2> QED
    BY <1>8, <2>1, <2>2
<1>10. RoutesDiffer'
  <2> SUFFICES ASSUME NEW i \in 1 .. m + 1, NEW j \in 1 .. m + 1, i < j, routes'[i].phase = routes'[j].phase
               PROVE  /\ routes'[j].label = "alternative"
                      /\ IsInjective(routes'[j].cells) => routes'[i].cells # routes'[j].cells
    BY <1>6 DEF RoutesDiffer
  <2>1. i \in 1 .. m
    BY <1>6
  <2>2. CASE j \in 1 .. m
    BY <1>6, <2>1, <2>2 DEF RouteInv, RoutesDiffer
  <2>3. CASE j = m + 1
    <3>1. routes[i].phase = phase /\ routes'[i] = routes[i] /\ routes'[j] = r
      BY <1>4, <1>6, <2>1, <2>3
    <3>2. label = "alternative"
      BY <1>6, <2>1, <3>1 DEF RouteInv, PhaseUnderWay, NoneYet
    <3>3. routes[i] \in Rivals
      BY <1>6, <2>1, <3>1 DEF Rivals, Range
    <3>4. ~MostlyIn(path, routes[i].cells)
      BY <3>2, <3>3
    <3>5. IsInjective(path) => routes[i].cells # path
      BY <1>3, <3>4, SameIsMostlyIn
    <3> QED
      BY <1>4, <3>1, <3>2, <3>5
  <2> QED
    BY <1>8, <2>2, <2>3
<1>11. phase \in {"recommended", "before"} => \A i \in 1 .. m + 1 : routes'[i].phase = phase
  BY <1>4, <1>6, <1>8 DEF RouteInv, FirstPhase
<1>12. m + 1 \in DOMAIN routes' /\ routes'[m + 1].phase = phase
  BY <1>4, <1>6
<1> QED
  BY <1>6, <1>9, <1>10, <1>11, <1>12

(* So does a leg that has one: it makes the journey longer, or the journey *)
(* is the route that is kept.                                              *)
LEMMA LegFoundInv == RouteInv /\ LegFound => RouteInv'
<1> SUFFICES ASSUME RouteInv, LegFound PROVE RouteInv'
  OBVIOUS
<1> DEFINE path == IF merged = <<>> THEN PathFound ELSE merged \o Tail(PathFound)
<1>1. /\ Searching /\ Top[2] = search.to /\ terrain' = terrain /\ request' = request
      /\ \/ /\ leg + 1 < Len(Stops)
            /\ search' = NoSearch /\ merged' = path /\ leg' = leg + 1
            /\ UNCHANGED <<phase, label, surface, penalty, routes, tried, answer>>
         \/ /\ ~(leg + 1 < Len(Stops))
            /\ NoMoreSearch
            /\ MainRouteFound(path) \/ AlternativeFound(path)
  BY DEF LegFound
<1>2. answer = "none" /\ surface # NoSurface
  BY <1>1, SearchUnderWay
<1>3. /\ SurfaceIs(surface) /\ Penalised /\ OpenOn(surface) \in SUBSET Cells /\ surface = CostSurface(phase)
      /\ Len(Stops) \in Nat /\ leg \in 1 .. Len(Stops) - 1 /\ Stops \in Seq(Cells)
  BY <1>2, UnderWay
<1>4. /\ Journey(path, OpenOn(surface), Stops, leg + 1)
      /\ label # "alternative" => Lightest(Charges(surface), path, OpenOn(surface), Stops, leg + 1)
  BY <1>1, PathIs
<1> HIDE DEF path
<1>5. Stops' = Stops /\ \A name : CostSurface(name)' = CostSurface(name)
  BY <1>1, AskedAfter
<1>6. CASE leg + 1 < Len(Stops)
  <2>1. /\ search' = NoSearch /\ merged' = path /\ leg' = leg + 1
        /\ phase' = phase /\ label' = label /\ surface' = surface /\ penalty' = penalty /\ routes' = routes
        /\ answer' = answer
    BY <1>1, <1>6
  <2>2. RouteTypes' /\ RoutesDiffer' /\ FirstPhase'
    BY <1>1, <2>1 DEF RouteInv, RouteTypes, RoutesDiffer, FirstPhase
  <2>3. RoutesAre'
    BY <1>5, <2>1 DEF RouteInv, RoutesAre
  <2>4. PhaseAhead'
    BY <1>2, <2>1 DEF PhaseAhead
  <2>5. PhaseUnderWay'
    <3>1. leg' \in 1 .. Len(Stops) - 1
      BY <1>3, <1>6, <2>1
    <3> QED
      BY <1>2, <1>5, <2>1, <3>1 DEF RouteInv, PhaseUnderWay, NoneYet
  <2>6. LegsSoFar'
    <3>1. leg' # 1
      BY <1>3, <2>1
    <3> QED
      BY <1>4, <1>5, <2>1, <3>1 DEF LegsSoFar
  <2>7. LegUnderWay'
    BY <2>1 DEF LegUnderWay
  <2> QED
    BY <2>2, <2>3, <2>4, <2>5, <2>6, <2>7 DEF RouteInv
<1>7. CASE ~(leg + 1 < Len(Stops))
  <2>1. NoMoreSearch /\ (MainRouteFound(path) \/ AlternativeFound(path))
    BY <1>1, <1>7
  <2>2. leg + 1 = Len(Stops)
    BY <1>3, <1>7
  <2>3. /\ Journey(path, OpenOn(surface), Stops, Len(Stops))
        /\ label # "alternative" => Lightest(Charges(surface), path, OpenOn(surface), Stops, Len(Stops))
    BY <1>4, <2>2
  <2>4. WithCorridor(path) \in [Cells -> Nat]
    <3>1. path \in Seq(Cells)
      BY <1>3, <2>3 DEF Journey
    <3> QED
      BY <1>3, <3>1, CorridorFacts
  <2>5. penalty' \in [Cells -> Nat]
    BY <1>3, <2>1, <2>4 DEF MainRouteFound, AlternativeFound, Penalised
  <2>6. /\ routes' \in Seq(RouteRecord) /\ RoutesAre' /\ RoutesDiffer'
        /\ phase \in {"recommended", "before"} => \A i \in DOMAIN routes' : routes'[i].phase = phase
        /\ \E i \in DOMAIN routes' : routes'[i].phase = phase
    <3>1. CASE Keep(path) /\ (label = "alternative" => \A r \in Rivals : ~MostlyIn(path, r.cells))
      BY <1>1, <1>2, <2>3, <3>1, KeptFacts
    <3>2. CASE routes' = routes /\ label = "alternative"
      BY <1>2, <1>5, <3>2 DEF RouteInv, RouteTypes, RoutesAre, RoutesDiffer, FirstPhase, PhaseUnderWay
    <3> QED
      BY <2>1, <3>1, <3>2 DEF MainRouteFound, AlternativeFound
  <2>7. CASE NextPhase
    BY <1>1, <2>1, <2>5, <2>6, <2>7, PhaseEnds DEF RouteInv
  <2>8. CASE label' = "alternative" /\ UNCHANGED <<phase, surface, answer>>
    <3>1. /\ search' = NoSearch /\ merged' = <<>> /\ leg' = 1
          /\ phase' = phase /\ label' = "alternative" /\ surface' = surface /\ answer' = answer
      BY <2>1, <2>8 DEF NoMoreSearch
    <3>2. RouteTypes' /\ FirstPhase'
      BY <1>1, <2>5, <2>6, <3>1 DEF RouteInv, RouteTypes, FirstPhase
    <3>3. PhaseAhead'
      BY <1>2, <3>1 DEF PhaseAhead
    <3>4. PhaseUnderWay'
      <4>1. leg' \in 1 .. Len(Stops) - 1
        BY <1>3, <3>1
      <4> QED
        BY <1>3, <1>5, <2>6, <3>1, <4>1 DEF PhaseUnderWay
    <3>5. LegsSoFar' /\ LegUnderWay'
      BY <3>1 DEF LegsSoFar, LegUnderWay
    <3> QED
      BY <2>6, <3>2, <3>3, <3>4, <3>5 DEF RouteInv
  <2> QED
    BY <2>1, <2>7, <2>8 DEF MainRouteFound, AlternativeFound
<1> QED
  BY <1>6, <1>7

(* So does every step.                                                     *)
LEMMA RouteStepInv == RouteInv /\ [RouteNext]_routeVars => RouteInv'
<1> SUFFICES ASSUME RouteInv, [RouteNext]_routeVars PROVE RouteInv'
  OBVIOUS
<1>1. CASE UNCHANGED routeVars
  <2>1. /\ terrain' = terrain /\ request' = request /\ phase' = phase /\ label' = label /\ surface' = surface
        /\ penalty' = penalty /\ search' = search /\ merged' = merged /\ leg' = leg /\ routes' = routes
        /\ tried' = tried /\ answer' = answer
    BY <1>1 DEF routeVars
  <2>2. Stops' = Stops /\ \A name : CostSurface(name)' = CostSurface(name)
    BY <2>1, AskedAfter
  <2>3. RouteTypes' /\ RoutesDiffer' /\ FirstPhase' /\ PhaseAhead'
    BY <2>1 DEF RouteInv, RouteTypes, RoutesDiffer, FirstPhase, PhaseAhead, AtRest, NoneYet
  <2>4. RoutesAre'
    BY <2>1, <2>2 DEF RouteInv, RoutesAre
  <2>5. PhaseUnderWay' /\ LegsSoFar'
    BY <2>1, <2>2 DEF RouteInv, PhaseUnderWay, LegsSoFar, NoneYet
  <2>6. LegUnderWay'
    <3> SUFFICES ASSUME answer = "none", surface # NoSurface, search # NoSearch,
                        NEW from, NEW to, from = Stops[leg], to = Stops[leg + 1] PROVE SearchIs(search, from, to)'
      BY <2>1, <2>2 DEF LegUnderWay
    <3>1. SearchIs(search', from, to)
      BY <2>1 DEF RouteInv, LegUnderWay
    <3> QED
      BY <2>1, <3>1, KnownAfter
  <2> QED
    BY <2>3, <2>4, <2>5, <2>6 DEF RouteInv
<1>2. CASE RouteNext
  BY <1>2, PrepareInv, BeginLegInv, SkipClosedInv, ExpandInv, LegFoundInv, LegUnreachableInv DEF RouteNext
<1> QED
  BY <1>1, <1>2

(* LegsAreCheapest *)
LEMMA RouteInvLegs == RouteInv => LegsAreCheapest
<1> SUFFICES ASSUME RouteInv PROVE LegsAreCheapest
  OBVIOUS
<1> DEFINE ends == Searching /\ Top[2] \notin search.closed /\ Top[2] = search.to
           fails == answer = "none" /\ search # NoSearch /\ search.open = {}
           ways == {e \in CheapestFrom(Stops[leg]) : e.cell = search.to}
<1>1. CASE ends
  <2> DEFINE from == Stops[leg]
             goal == search.to
             e == Top
  <2>1. /\ answer = "none" /\ surface # NoSurface /\ SearchIs(search, from, goal) /\ e[2] = goal
        /\ e \in search.open /\ \A f \in search.open : e[1] <= f[1]
    BY <1>1, SearchUnderWay
  <2>2. SurfaceIs(surface) /\ Penalised
    BY <2>1, UnderWay
  <2>3. ~fails
    BY <1>1 DEF Searching
  <2> HIDE DEF from, goal, e
  <2>4. {w \in CheapestFrom(from) : w.cell = goal} = {[cell |-> goal, cost |-> search.g[goal]]}
    BY <2>1, <2>2, SearchEnds
  <2>5. ways = {[cell |-> search.to, cost |-> search.g[search.to]]}
    BY <2>4 DEF from, goal
  <2> QED
    BY <2>3, <2>5, Zenon DEF LegsAreCheapest
<1>2. CASE fails
  <2> DEFINE from == Stops[leg]
             goal == search.to
  <2>1. surface # NoSurface
    BY <1>2 DEF RouteInv, PhaseAhead, AtRest
  <2>2. /\ SurfaceIs(surface) /\ Penalised /\ surface = CostSurface(phase) /\ phase \in Phases
        /\ OpenOn(surface) \in SUBSET Cells /\ OpenCells = OpenOn(surface)
        /\ Len(Stops) \in Nat /\ leg \in 1 .. Len(Stops) - 1
    BY <1>2, <2>1, UnderWay
  <2>3. SearchIs(search, from, Stops[leg + 1])
    BY <1>2, <2>1 DEF RouteInv, LegUnderWay
  <2>4. goal = Stops[leg + 1] /\ SearchIs(search, from, goal) /\ search.open = {}
    BY <1>2, <2>3 DEF SearchIs, Labelled
  <2> HIDE DEF from, goal
  <2>5. {w \in CheapestFrom(from) : w.cell = goal} = {}
    BY <2>2, <2>4, SearchFails
  <2>6. ways = {}
    BY <2>5 DEF from, goal
  <2>7. label # "alternative"
    <3> SUFFICES ASSUME label = "alternative" PROVE FALSE
      OBVIOUS
    <3>1. PICK i \in DOMAIN routes : routes[i].phase = phase
      BY <1>2, <2>1 DEF RouteInv, PhaseUnderWay
    <3>2. RouteIs(routes[i], Stops, surface)
      BY <2>2, <3>1 DEF RouteInv, RoutesAre
    <3>3. Journey(routes[i].cells, OpenOn(surface), Stops, Len(Stops))
      BY <3>2 DEF RouteIs
    <3>4. PICK v : Between(v, OpenOn(surface), Stops[leg], Stops[leg + 1])
      BY <2>2, <3>3, JourneyLeg
    <3>5. Between(v, OpenCells, from, goal)
      BY <2>2, <2>4, <3>4 DEF from
    <3> QED
      BY <2>2, <2>4, <3>5, NoneToBeFound
  <2> QED
    BY <1>2, <2>6, <2>7, Zenon DEF LegsAreCheapest
<1>3. CASE ~(ends \/ fails)
  BY <1>3, Zenon DEF LegsAreCheapest
<1> QED
  BY <1>1, <1>2, <1>3

(* What a route found is, on the surface of its phase.                     *)
LEMMA RoutesFound ==
    ASSUME RouteInv, NEW i \in DOMAIN routes
    PROVE  LET r == routes[i]
               on == CostSurface(r.phase)
               open == OpenOn(on)
           IN  /\ r.phase \in Phases /\ r.label \in {r.phase, "alternative"} /\ r.cells \in Seq(Cells)
               /\ r.cells \in Paths /\ SurfaceIs(on) /\ open \in SUBSET Cells /\ Charges(on) \in Weights
               /\ Journey(r.cells, open, Stops, Len(Stops))
               /\ r.label # "alternative" => Lightest(Charges(on), r.cells, open, Stops, Len(Stops))
<1> DEFINE r == routes[i]
           on == CostSurface(r.phase)
<1>1. routes \in Seq(RouteRecord) /\ terrain \in Terrains /\ request \in RouteRequests
  BY DEF RouteInv, RouteTypes
<1>2. r \in RouteRecord /\ r.phase \in Phases /\ r.cells \in Seq(Cells)
  <2>1. r \in RouteRecord
    BY <1>1
  <2> QED
    BY <2>1 DEF RouteRecord
<1>3. RouteIs(r, Stops, on)
  BY <1>2 DEF RouteInv, RoutesAre
<1>4. SurfaceIs(on)
  BY <1>1, SurfaceFacts
<1>5. Journey(r.cells, OpenOn(on), Stops, Len(Stops)) /\ r.label \in {r.phase, "alternative"}
        /\ (r.label # "alternative" => Lightest(Charges(on), r.cells, OpenOn(on), Stops, Len(Stops)))
  BY <1>3 DEF RouteIs
<1>6. r.cells \in Paths /\ OpenOn(on) \in SUBSET Cells
  BY <1>2, <1>5 DEF Journey, Paths, OpenOn
<1>7. Charges(on) \in Weights
  BY <1>4, ChargesFacts
<1> QED
  BY <1>2, <1>4, <1>5, <1>6, <1>7

(* The shortest route and the recommended one may enter the same cells.    *)
LEMMA SurfacesShare ==
    /\ CostSurface("shortest").blocked = CostSurface("recommended").blocked
    /\ CostSurface("shortest").rate = [c \in Cells |-> ALPHA]
BY DEF CostSurface

(* On the surface of the shortest route a path costs what its length does.   *)
LEMMA ShortestByLength ==
    ASSUME SurfaceIs(CostSurface("shortest")), NEW w \in Paths
    PROVE  Along(Charges(CostSurface("shortest")), w) = 2 * ALPHA * Distance(w)
<1> DEFINE on == CostSurface("shortest")
           k == 2 * ALPHA
<1>1. Charges(on) \in Weights /\ Lengths \in Weights
  BY ChargesFacts, LengthsFacts
<1>2. on.rate = [c \in Cells |-> ALPHA]
  BY SurfacesShare
<1>3. \A p \in Cells \X Cells : Charges(on)[p] = k * Lengths[p]
  <2> TAKE p \in Cells \X Cells
  <2>1. on.rate[p[1]] = ALPHA /\ on.rate[p[2]] = ALPHA /\ Length(p[1], p[2]) \in Nat /\ ALPHA + ALPHA = k
    BY <1>2 DEF Length, ALPHA
  <2>2. Charges(on)[p] = (on.rate[p[1]] + on.rate[p[2]]) * Length(p[1], p[2]) /\ Lengths[p] = Length(p[1], p[2])
    BY DEF Charges, Lengths
  <2> QED
    BY <2>1, <2>2
<1>4. k \in Nat
  BY DEF ALPHA
<1> HIDE DEF on, k
<1>5. Along(Charges(on), w) = k * Along(Lengths, w)
  BY <1>1, <1>3, <1>4, AlongScaled
<1>6. Distance(w) = Along(Lengths, w)
  BY DistanceIs
<1> QED
  BY <1>5, <1>6 DEF on, k

(* No path costs less than a safe one of its length.                       *)
LEMMA RiskIsNat ==
    ASSUME NEW on, SurfaceIs(on), NEW w \in Paths
    PROVE  Risk(w, on) \in Nat /\ Distance(w) \in Nat /\ Cost(w, on) \in Nat
           /\ Risk(w, on) = Cost(w, on) - 2 * ALPHA * Distance(w)
<1> DEFINE k == 2 * ALPHA
           W == Charges(on)
           V == [p \in Cells \X Cells |-> k * Lengths[p]]
<1>1. W \in Weights /\ Lengths \in Weights /\ k \in Nat
  BY ChargesFacts, LengthsFacts DEF ALPHA
<1>2. V \in Weights
  <2>1. \A p \in Cells \X Cells : Lengths[p] \in Nat
    BY <1>1 DEF Weights
  <2> HIDE DEF k
  <2>2. \A p \in Cells \X Cells : k * Lengths[p] \in Nat
    BY <1>1, <2>1, Multiplied
  <2> QED
    BY <2>2 DEF Weights
<1>3. \A p \in Cells \X Cells : V[p] <= W[p]
  <2> TAKE p \in Cells \X Cells
  <2>1. on.rate[p[1]] >= ALPHA /\ on.rate[p[2]] >= ALPHA /\ on.rate[p[1]] \in Nat /\ on.rate[p[2]] \in Nat
    BY DEF SurfaceIs
  <2>2. Length(p[1], p[2]) \in {12, 17}
    BY DEF Length
  <2>3. W[p] = (on.rate[p[1]] + on.rate[p[2]]) * Length(p[1], p[2]) /\ V[p] = k * Length(p[1], p[2])
    BY DEF Charges, Lengths
  <2> DEFINE a == on.rate[p[1]] + on.rate[p[2]]
             l == Length(p[1], p[2])
  <2>4. a \in Nat /\ k <= a /\ k \in Nat
    BY <2>1 DEF ALPHA
  <2> HIDE DEF a, k
  <2>5. k * 12 <= a * 12 /\ k * 17 <= a * 17
    BY <2>4
  <2>6. k * l <= a * l
    BY <2>2, <2>5
  <2> QED
    BY <2>3, <2>6 DEF a, l
<1>4. Along(V, w) <= Along(W, w) /\ Along(V, w) \in Nat /\ Along(W, w) \in Nat /\ Along(Lengths, w) \in Nat
  <2> HIDE DEF V, W
  <2> QED
    BY <1>1, <1>2, <1>3, AlongGrows, AlongIsNat
<1>5. \A p \in Cells \X Cells : V[p] = k * Lengths[p]
  OBVIOUS
<1>6. Along(V, w) = k * Along(Lengths, w)
  <2> HIDE DEF V, k
  <2> QED
    BY <1>1, <1>2, <1>5, AlongScaled
<1>7. Cost(w, on) = Along(W, w) /\ Distance(w) = Along(Lengths, w)
  BY CostIs, DistanceIs
<1>8. Risk(w, on) = Cost(w, on) - k * Distance(w)
  BY DEF Risk
<1> HIDE DEF V, W
<1> DEFINE x == k * Distance(w)
<1>9. x \in Nat /\ x <= Cost(w, on) /\ Cost(w, on) \in Nat /\ Risk(w, on) = Cost(w, on) - x
  BY <1>4, <1>6, <1>7, <1>8
<1> HIDE DEF x
<1>10. Risk(w, on) \in Nat
  BY <1>9
<1> QED
  BY <1>4, <1>7, <1>8, <1>9, <1>10 DEF k

(* A recommended route is no riskier by the kilometre than the shortest,   *)
(* which costs no less and is no longer.                                   *)
LEMMA RouteInvSafer == RouteInv => RecommendedIsSafer
<1> SUFFICES ASSUME RouteInv, NEW i \in DOMAIN routes, NEW j \in DOMAIN routes,
                    routes[i].label = "recommended", routes[j].label = "shortest"
             PROVE  LET on == CostSurface("recommended")
                        v == routes[i].cells
                        w == routes[j].cells
                    IN Distance(v) >= Distance(w) /\ Risk(v, on) * Distance(w) <= Risk(w, on) * Distance(v)
  BY DEF RecommendedIsSafer
<1> DEFINE on == CostSurface("recommended")
           short == CostSurface("shortest")
           open == OpenOn(on)
           v == routes[i].cells
           w == routes[j].cells
           n == Len(Stops)
<1>1. routes[i].phase = "recommended" /\ routes[j].phase = "shortest"
  BY RoutesFound
<1>2. /\ v \in Paths /\ SurfaceIs(on) /\ Charges(on) \in Weights
      /\ Journey(v, open, Stops, n) /\ Lightest(Charges(on), v, open, Stops, n)
  BY <1>1, RoutesFound
<1>3. /\ w \in Paths /\ SurfaceIs(short) /\ Charges(short) \in Weights
      /\ Journey(w, OpenOn(short), Stops, n) /\ Lightest(Charges(short), w, OpenOn(short), Stops, n)
  BY <1>1, RoutesFound
<1>4. OpenOn(short) = open
  BY SurfacesShare DEF OpenOn
<1>5. Along(Charges(on), v) <= Along(Charges(on), w) /\ Along(Charges(short), w) <= Along(Charges(short), v)
  BY <1>2, <1>3, <1>4 DEF Lightest
<1>6. Cost(v, on) = Along(Charges(on), v) /\ Cost(w, on) = Along(Charges(on), w)
  BY <1>2, <1>3, CostIs
<1>7. Along(Charges(short), w) = 2 * ALPHA * Distance(w) /\ Along(Charges(short), v) = 2 * ALPHA * Distance(v)
  BY <1>2, <1>3, ShortestByLength
<1>8. /\ Risk(v, on) \in Nat /\ Distance(v) \in Nat /\ Cost(v, on) \in Nat /\ Risk(v, on) = Cost(v, on) - 2 * ALPHA * Distance(v)
      /\ Risk(w, on) \in Nat /\ Distance(w) \in Nat /\ Cost(w, on) \in Nat /\ Risk(w, on) = Cost(w, on) - 2 * ALPHA * Distance(w)
  BY <1>2, <1>3, RiskIsNat
<1> HIDE DEF on, short, open, v, w, n
<1>9. Distance(w) <= Distance(v)
  BY <1>5, <1>7, <1>8 DEF ALPHA
<1>10. Risk(v, on) <= Risk(w, on)
  BY <1>5, <1>6, <1>8, <1>9 DEF ALPHA
<1>11. Risk(v, on) * Distance(w) <= Risk(w, on) * Distance(v)
  BY <1>8, <1>9, <1>10, Products
<1> QED
  BY <1>8, <1>9, <1>11 DEF on, v, w

(* An alternative is another route, unless it takes a cell twice, and no    *)
(* cheaper than the route of its phase.                                    *)
LEMMA RouteInvDiffer == RouteInv => AlternativesDiffer
<1> SUFFICES ASSUME RouteInv, NEW i \in DOMAIN routes, NEW j \in DOMAIN routes,
                    i < j, routes[i].phase = routes[j].phase
             PROVE  /\ IsInjective(routes[j].cells) => routes[i].cells # routes[j].cells
                    /\ routes[i].label # "alternative" =>
                         Cost(routes[i].cells, CostSurface(routes[i].phase)) <= Cost(routes[j].cells, CostSurface(routes[i].phase))
  BY DEF AlternativesDiffer
<1>1. IsInjective(routes[j].cells) => routes[i].cells # routes[j].cells
  BY DEF RouteInv, RoutesDiffer
<1>2. ASSUME routes[i].label # "alternative"
      PROVE  Cost(routes[i].cells, CostSurface(routes[i].phase)) <= Cost(routes[j].cells, CostSurface(routes[i].phase))
  <2> DEFINE on == CostSurface(routes[i].phase)
             v == routes[i].cells
             w == routes[j].cells
             n == Len(Stops)
  <2>1. /\ v \in Paths /\ SurfaceIs(on) /\ Lightest(Charges(on), v, OpenOn(on), Stops, n)
    BY <1>2, RoutesFound
  <2>2. w \in Paths /\ Journey(w, OpenOn(on), Stops, n)
    <3>1. routes[j].cells \in Paths /\ Journey(routes[j].cells, OpenOn(CostSurface(routes[j].phase)), Stops, Len(Stops))
      BY RoutesFound
    <3> QED
      BY <3>1
  <2>3. Along(Charges(on), v) <= Along(Charges(on), w)
    BY <2>1, <2>2 DEF Lightest
  <2>4. Cost(v, on) = Along(Charges(on), v) /\ Cost(w, on) = Along(Charges(on), w)
    BY <2>1, <2>2, CostIs
  <2> QED
    BY <2>3, <2>4
<1> QED
  BY <1>1, <1>2

(* The route for the conditions before is closed, or no cheaper, under     *)
(* those after.                                                            *)
LEMMA RouteInvChanged == RouteInv => ChangedForAReason
<1> SUFFICES ASSUME RouteInv, NEW i \in DOMAIN routes, NEW j \in DOMAIN routes,
                    routes[i].label = "before", routes[j].label = "after",
                    Range(routes[i].cells) \cap CostSurface("after").blocked = {}
             PROVE  Cost(routes[i].cells, CostSurface("after")) >= Cost(routes[j].cells, CostSurface("after"))
  BY DEF ChangedForAReason
<1> DEFINE on == CostSurface("after")
           v == routes[i].cells
           w == routes[j].cells
           n == Len(Stops)
<1>1. routes[j].phase = "after"
  BY RoutesFound
<1>2. /\ v \in Seq(Cells) /\ v \in Paths /\ Journey(v, OpenOn(CostSurface(routes[i].phase)), Stops, n)
  BY RoutesFound
<1>3. /\ w \in Paths /\ SurfaceIs(on) /\ Charges(on) \in Weights /\ Lightest(Charges(on), w, OpenOn(on), Stops, n)
  BY <1>1, RoutesFound
<1>4. Journey(v, OpenOn(on), Stops, n)
  <2>1. \A k \in 1 .. Len(v) : v[k] \in OpenOn(on)
    <3> TAKE k \in 1 .. Len(v)
    <3>1. v[k] \in Cells /\ v[k] \in Range(v)
      BY <1>2 DEF Range
    <3> QED
      BY <3>1 DEF OpenOn
  <2>2. v \in Seq(OpenOn(on))
    <3>1. Len(v) \in Nat /\ v = [k \in 1 .. Len(v) |-> v[k]]
      BY <1>2
    <3>2. v \in [1 .. Len(v) -> OpenOn(on)]
      BY <2>1, <3>1
    <3> QED
      BY <3>1, <3>2, SeqDef
  <2> QED
    BY <1>2, <2>2 DEF Journey
<1>5. Along(Charges(on), w) <= Along(Charges(on), v)
  BY <1>3, <1>4 DEF Lightest
<1>6. Cost(v, on) = Along(Charges(on), v) /\ Cost(w, on) = Along(Charges(on), w)
  BY <1>2, <1>3, CostIs
<1>7. Along(Charges(on), w) \in Nat /\ Along(Charges(on), v) \in Nat
  BY <1>2, <1>3, AlongIsNat
<1> QED
  BY <1>5, <1>6, <1>7

(* Every leg that the search returns costs what the cheapest walk does,    *)
(* and it returns none only where there is none (AStar of                  *)
(* routing/astar.py).                                                      *)
THEOREM LegsFoundCheapest == RouteSpec => []LegsAreCheapest
<1>1. RouteInit => RouteInv
  BY RouteInitInv
<1>2. RouteInv /\ [RouteNext]_routeVars => RouteInv'
  BY RouteStepInv
<1>3. RouteInv => LegsAreCheapest
  BY RouteInvLegs
<1> QED
  BY <1>1, <1>2, <1>3, PTL DEF RouteSpec

(* The routes of every plan are justified (routing/service.py): what is     *)
(* said of alternatives being others is said of routes that take no cell   *)
(* twice, because the code offers the rest again (astar.py:332).            *)
THEOREM RoutesAreJustified == RouteSpec => []RoutesJustified
<1>1. RouteInit => RouteInv
  BY RouteInitInv
<1>2. RouteInv /\ [RouteNext]_routeVars => RouteInv'
  BY RouteStepInv
<1>3. RouteInv => RoutesJustified
  BY RouteInvSafer, RouteInvDiffer, RouteInvChanged DEF RoutesJustified
<1> QED
  BY <1>1, <1>2, <1>3, PTL DEF RouteSpec

USE NoMappingAssumption, HubSchemasAssumption, MaxVersionsAssumption

-----------------------------------------------------------------------------
(* The data hub                                                            *)

(* What a request relies on between its transactions.                       *)
HubPlaces ==
    \A r \in HubRequests :
        /\ hub[r].pc = "idle" => hub[r].dataset = 0 /\ hub[r].parent = 0
        /\ hub[r].pc = "latest" => hub[r].dataset \in 1 .. datasets
        /\ hub[r].pc = "insert" =>
             \/ hub[r].dataset = 0 /\ hub[r].parent = 0
             \/ /\ hub[r].dataset # 0 /\ hub[r].parent \in DOMAIN versions
                /\ versions[hub[r].parent].dataset = hub[r].dataset
        /\ hub[r].pc \in {"report", "mappings", "canonical", "failed", "approve"} =>
             hub[r].version \in DOMAIN versions
        /\ hub[r].pc \in {"mappings", "canonical", "approve"} =>
             versions[hub[r].version].reported /\ versions[hub[r].version].passes

HubMappings ==
    \A r \in HubRequests :
        /\ hub[r].pc = "canonical" /\ hub[r].clean => hub[r].seen = versions[hub[r].version].mapping
        /\ hub[r].pc = "approve" /\ hub[r].clean /\ ~versions[hub[r].version].tainted =>
             versions[hub[r].version].canonical = versions[hub[r].version].mapping

DatasetsExist == \A v \in DOMAIN versions : versions[v].dataset \in 1 .. datasets

HubInv ==
    /\ HubTypeOK
    /\ HubPlaces
    /\ HubMappings
    /\ DatasetsExist
    /\ LineageNeverForks
    /\ UsableHasPassed
    /\ SnapshotIsOfMapping

(* What nothing takes back from a version.                                  *)
VersionsStay ==
    \A v \in DOMAIN versions :
        /\ v \in DOMAIN versions'
        /\ versions'[v].dataset = versions[v].dataset
        /\ versions[v].passes => versions'[v].passes
        /\ versions[v].reported => versions'[v].reported

LEMMA NoHubRequestType == NoHubRequest \in HubRequest
BY DEF NoHubRequest, HubRequest

LEMMA HubInvInit == HubInit => HubInv
<1> SUFFICES ASSUME HubInit PROVE HubInv
  OBVIOUS
<1>1. versions \in Seq(Version) /\ DOMAIN versions = {}
  BY DEF HubInit
<1>2. HubTypeOK
  BY <1>1, NoHubRequestType DEF HubInit, HubTypeOK
<1>3. HubPlaces /\ HubMappings
  BY DEF HubInit, HubPlaces, HubMappings, NoHubRequest
<1> QED BY <1>1, <1>2, <1>3 DEF HubInv, DatasetsExist, LineageNeverForks, UsableHasPassed, SnapshotIsOfMapping

(* A change of one row that leaves its place in the lineage.                *)
LEMMA RowStep ==
    ASSUME HubInv, NEW v \in DOMAIN versions, NEW row \in Version,
           versions' = [versions EXCEPT ![v] = row], datasets' = datasets,
           row.dataset = versions[v].dataset, row.tag = versions[v].tag, row.parent = versions[v].parent,
           row.passes = versions[v].passes, versions[v].reported => row.reported,
           row.status \in Usable => row.reported /\ row.passes,
           row.status \in Usable /\ ~row.tainted => row.canonical = row.mapping
    PROVE  /\ versions' \in Seq(Version)
           /\ DOMAIN versions' = DOMAIN versions
           /\ versions'[v] = row
           /\ \A w \in DOMAIN versions : w # v => versions'[w] = versions[w]
           /\ VersionsStay /\ DatasetsExist' /\ LineageNeverForks' /\ UsableHasPassed' /\ SnapshotIsOfMapping'
<1>1. versions \in Seq(Version)
  BY DEF HubInv, HubTypeOK
<1>2. /\ versions' \in Seq(Version) /\ DOMAIN versions' = DOMAIN versions /\ versions'[v] = row
      /\ \A w \in DOMAIN versions : w # v => versions'[w] = versions[w]
  BY <1>1
<1>3. \A w \in DOMAIN versions :
        /\ versions'[w].dataset = versions[w].dataset /\ versions'[w].tag = versions[w].tag
        /\ versions'[w].parent = versions[w].parent
  BY <1>2
<1>4. VersionsStay
  BY <1>2 DEF VersionsStay
<1>5. DatasetsExist'
  BY <1>2, <1>3 DEF DatasetsExist, HubInv
<1>6. LineageNeverForks'
  <2>1. ASSUME NEW w \in DOMAIN versions'
        PROVE  IF versions'[w].parent = 0 THEN versions'[w].tag = 1
               ELSE /\ versions'[w].parent \in 1 .. (w - 1)
                    /\ versions'[versions'[w].parent].dataset = versions'[w].dataset
                    /\ versions'[w].tag = versions'[versions'[w].parent].tag + 1
    <3>1. w \in DOMAIN versions
      BY <1>2, <2>1
    <3>2. CASE versions[w].parent = 0
      BY <1>3, <3>1, <3>2 DEF HubInv, LineageNeverForks
    <3>3. CASE versions[w].parent # 0
      <4>1. /\ versions[w].parent \in 1 .. (w - 1)
            /\ versions[versions[w].parent].dataset = versions[w].dataset
            /\ versions[w].tag = versions[versions[w].parent].tag + 1
        BY <3>1, <3>3 DEF HubInv, LineageNeverForks
      <4>2. versions[w].parent \in DOMAIN versions
        BY <1>1, <3>1, <4>1
      <4> QED BY <1>3, <3>1, <3>3, <4>1, <4>2
    <3> QED BY <3>2, <3>3
  <2>2. \A w, u \in DOMAIN versions' :
          versions'[w].parent = versions'[u].parent /\ versions'[w].dataset = versions'[u].dataset => w = u
    BY <1>2, <1>3 DEF HubInv, LineageNeverForks
  <2> QED BY <2>1, <2>2 DEF LineageNeverForks
<1>7. UsableHasPassed' /\ SnapshotIsOfMapping'
  BY <1>2 DEF HubInv, UsableHasPassed, SnapshotIsOfMapping
<1> QED BY <1>2, <1>4, <1>5, <1>6, <1>7

(* A request that changes nothing but itself.                               *)
LEMMA RequestStep ==
    ASSUME HubInv, NEW r \in HubRequests, NEW q \in HubRequest,
           hub' = [hub EXCEPT ![r] = q], UNCHANGED <<hubSchema, datasets, versions>>,
           q.pc = "idle" => q.dataset = 0 /\ q.parent = 0,
           q.pc = "latest" => q.dataset \in 1 .. datasets,
           q.pc = "insert" =>
             \/ q.dataset = 0 /\ q.parent = 0
             \/ /\ q.dataset # 0 /\ q.parent \in DOMAIN versions
                /\ versions[q.parent].dataset = q.dataset,
           q.pc \in {"report", "mappings", "canonical", "failed", "approve"} => q.version \in DOMAIN versions,
           q.pc \in {"mappings", "canonical", "approve"} =>
             versions[q.version].reported /\ versions[q.version].passes,
           q.pc = "canonical" /\ q.clean => q.seen = versions[q.version].mapping,
           q.pc = "approve" /\ q.clean /\ ~versions[q.version].tainted =>
             versions[q.version].canonical = versions[q.version].mapping
    PROVE  HubInv' /\ VersionsStay
<1>1. hub \in [HubRequests -> HubRequest]
  BY DEF HubInv, HubTypeOK
<1>2. /\ hub' \in [HubRequests -> HubRequest] /\ hub'[r] = q
      /\ \A p \in HubRequests : p # r => hub'[p] = hub[p]
  BY <1>1
<1>3. HubTypeOK'
  BY <1>2 DEF HubInv, HubTypeOK
<1>4. HubPlaces'
  BY <1>2 DEF HubInv, HubPlaces
<1>5. HubMappings'
  BY <1>2 DEF HubInv, HubMappings
<1>6. (DatasetsExist /\ LineageNeverForks /\ UsableHasPassed /\ SnapshotIsOfMapping)'
  BY DEF HubInv, DatasetsExist, LineageNeverForks, UsableHasPassed, SnapshotIsOfMapping, VersionsOf
<1> QED BY <1>3, <1>4, <1>5, <1>6 DEF HubInv, VersionsStay

(* A request that changes a row and then ends, or goes on knowing the row.   *)
LEMMA RowRequestStep ==
    ASSUME HubInv, NEW r \in HubRequests, NEW q \in HubRequest,
           NEW v \in DOMAIN versions, NEW row \in Version,
           versions' = [versions EXCEPT ![v] = row], hub' = [hub EXCEPT ![r] = q],
           UNCHANGED <<hubSchema, datasets>>,
           row.dataset = versions[v].dataset, row.tag = versions[v].tag, row.parent = versions[v].parent,
           row.passes = versions[v].passes, versions[v].reported => row.reported,
           row.status \in Usable => row.reported /\ row.passes,
           row.status \in Usable /\ ~row.tainted => row.canonical = row.mapping,
           row.mapping = versions[v].mapping,
           ~row.tainted => \/ row.canonical = row.mapping
                           \/ ~versions[v].tainted /\ row.canonical = versions[v].canonical,
           \/ q = NoHubRequest
           \/ q.pc = "failed" /\ q.version = v
           \/ q.pc = "mappings" /\ q.version = v /\ row.reported /\ row.passes
    PROVE  HubInv' /\ VersionsStay
<1>1. hub \in [HubRequests -> HubRequest] /\ versions \in Seq(Version)
  BY DEF HubInv, HubTypeOK
<1>2. /\ hub' \in [HubRequests -> HubRequest] /\ hub'[r] = q
      /\ \A p \in HubRequests : p # r => hub'[p] = hub[p]
  BY <1>1
<1>3. /\ versions' \in Seq(Version)
      /\ DOMAIN versions' = DOMAIN versions
      /\ versions'[v] = row
      /\ \A w \in DOMAIN versions : w # v => versions'[w] = versions[w]
      /\ VersionsStay /\ DatasetsExist' /\ LineageNeverForks' /\ UsableHasPassed' /\ SnapshotIsOfMapping'
  BY RowStep
<1>4. HubTypeOK'
  BY <1>2, <1>3 DEF HubInv, HubTypeOK
<1>5. HubPlaces'
  <2> SUFFICES ASSUME NEW p \in HubRequests
               PROVE  /\ hub'[p].pc = "idle" => hub'[p].dataset = 0 /\ hub'[p].parent = 0
                      /\ hub'[p].pc = "latest" => hub'[p].dataset \in 1 .. datasets
                      /\ hub'[p].pc = "insert" =>
                           \/ hub'[p].dataset = 0 /\ hub'[p].parent = 0
                           \/ /\ hub'[p].dataset # 0 /\ hub'[p].parent \in DOMAIN versions
                              /\ versions'[hub'[p].parent].dataset = hub'[p].dataset
                      /\ hub'[p].pc \in {"report", "mappings", "canonical", "failed", "approve"} =>
                           hub'[p].version \in DOMAIN versions
                      /\ hub'[p].pc \in {"mappings", "canonical", "approve"} =>
                           versions'[hub'[p].version].reported /\ versions'[hub'[p].version].passes
    BY <1>3 DEF HubPlaces
  <2>1. CASE p = r
    <3>1. CASE q = NoHubRequest
      BY <1>2, <2>1, <3>1 DEF NoHubRequest
    <3>2. CASE q.pc = "failed" /\ q.version = v
      BY <1>2, <2>1, <3>2
    <3>3. CASE q.pc = "mappings" /\ q.version = v /\ row.reported /\ row.passes
      BY <1>2, <1>3, <2>1, <3>3
    <3> QED BY <3>1, <3>2, <3>3
  <2>2. CASE p # r
    <3>1. hub'[p] = hub[p]
      BY <1>2, <2>2
    <3>2. \A w \in DOMAIN versions :
            /\ versions'[w].dataset = versions[w].dataset
            /\ versions[w].passes => versions'[w].passes
            /\ versions[w].reported => versions'[w].reported
      BY <1>3 DEF VersionsStay
    <3> QED BY <3>1, <3>2 DEF HubInv, HubPlaces
  <2> QED BY <2>1, <2>2
<1>6. HubMappings'
  <2> SUFFICES ASSUME NEW p \in HubRequests
               PROVE  /\ hub'[p].pc = "canonical" /\ hub'[p].clean =>
                           hub'[p].seen = versions'[hub'[p].version].mapping
                      /\ hub'[p].pc = "approve" /\ hub'[p].clean /\ ~versions'[hub'[p].version].tainted =>
                           versions'[hub'[p].version].canonical = versions'[hub'[p].version].mapping
    BY DEF HubMappings
  <2>1. CASE p = r
    BY <1>2, <2>1 DEF NoHubRequest
  <2>2. CASE p # r
    <3>1. hub'[p] = hub[p]
      BY <1>2, <2>2
    <3>2. hub[p].pc \in {"canonical", "approve"} => hub[p].version \in DOMAIN versions
      BY DEF HubInv, HubPlaces
    <3>3. /\ hub[p].pc = "canonical" /\ hub[p].clean => hub[p].seen = versions[hub[p].version].mapping
          /\ hub[p].pc = "approve" /\ hub[p].clean /\ ~versions[hub[p].version].tainted =>
               versions[hub[p].version].canonical = versions[hub[p].version].mapping
      BY DEF HubInv, HubMappings
    <3>4. CASE hub[p].version = v
      BY <1>3, <3>1, <3>3, <3>4
    <3>5. CASE hub[p].version # v
      BY <1>3, <3>1, <3>2, <3>3, <3>5
    <3> QED BY <3>4, <3>5
  <2> QED BY <2>1, <2>2
<1> QED BY <1>3, <1>4, <1>5, <1>6 DEF HubInv

LEMMA ReadsKeepHubInv ==
    ASSUME HubInv, NEW r \in HubRequests,
           \/ UploadFindDataset(r) \/ UploadFindLatest(r) \/ ValidateRead(r)
           \/ ValidateReadMappings(r) \/ ApproveRead(r) \/ HubAbort(r)
    PROVE  HubInv' /\ VersionsStay
<1>1. hub \in [HubRequests -> HubRequest] /\ versions \in Seq(Version) /\ datasets \in Nat
  BY DEF HubInv, HubTypeOK
<1>2. hub[r] \in HubRequest
  BY <1>1
<1>3. DOMAIN versions \subseteq Nat
  BY <1>1
<1>4. CASE UploadFindDataset(r)
  <2>1. CASE datasets = 0 /\ HubGoto(r, "insert")
    <3> DEFINE q == [hub[r] EXCEPT !.pc = "insert"]
    <3>1. q \in HubRequest /\ q.pc = "insert" /\ q.dataset = 0 /\ q.parent = 0
      BY <1>2, <1>4 DEF HubRequest, HubInv, HubPlaces, UploadFindDataset
    <3>2. hub' = [hub EXCEPT ![r] = q]
      BY <1>1, <2>1 DEF HubGoto
    <3> HIDE DEF q
    <3> QED BY <1>4, <3>1, <3>2, RequestStep DEF UploadFindDataset
  <2>2. ASSUME NEW d \in 1 .. datasets, hub' = [hub EXCEPT ![r].pc = "latest", ![r].dataset = d]
        PROVE  HubInv' /\ VersionsStay
    <3> DEFINE q == [hub[r] EXCEPT !.pc = "latest", !.dataset = d]
    <3>0. d \in Nat
      BY <1>1
    <3>1. q \in HubRequest /\ q.pc = "latest" /\ q.dataset = d
      BY <1>2, <3>0 DEF HubRequest
    <3>2. hub' = [hub EXCEPT ![r] = q]
      BY <1>1, <2>2
    <3> HIDE DEF q
    <3> QED BY <1>4, <3>1, <3>2, RequestStep DEF UploadFindDataset
  <2> QED BY <1>4, <2>1, <2>2 DEF UploadFindDataset
<1>5. CASE UploadFindLatest(r)
  <2>1. PICK v \in DOMAIN versions :
          /\ IsLatest(v, hub[r].dataset)
          /\ hub' = [hub EXCEPT ![r].pc = "insert", ![r].parent = v]
    BY <1>5 DEF UploadFindLatest
  <2> DEFINE q == [hub[r] EXCEPT !.pc = "insert", !.parent = v]
  <2>2. hub[r].dataset \in 1 .. datasets
    BY <1>5 DEF UploadFindLatest, HubInv, HubPlaces
  <2>3. q \in HubRequest /\ q.pc = "insert" /\ q.dataset = hub[r].dataset /\ q.parent = v
    BY <1>2, <1>3 DEF HubRequest
  <2>4. versions[v].dataset = hub[r].dataset
    BY <2>1 DEF IsLatest, VersionsOf
  <2>5. hub' = [hub EXCEPT ![r] = q]
    BY <1>1, <2>1
  <2>6. q.dataset # 0 /\ q.parent \in DOMAIN versions /\ versions[q.parent].dataset = q.dataset
    <3> HIDE DEF q
    <3> QED BY <1>1, <2>2, <2>3, <2>4
  <2>7. UNCHANGED <<hubSchema, datasets, versions>>
    BY <1>5 DEF UploadFindLatest
  <2> HIDE DEF q
  <2> QED BY <2>3, <2>5, <2>6, <2>7, RequestStep
<1>6. CASE ValidateRead(r)
  <2>1. PICK v \in DOMAIN versions : hub' = [hub EXCEPT ![r].pc = "report", ![r].version = v]
    BY <1>6 DEF ValidateRead
  <2> DEFINE q == [hub[r] EXCEPT !.pc = "report", !.version = v]
  <2>2. q \in HubRequest /\ q.pc = "report" /\ q.version = v
    BY <1>2, <1>3 DEF HubRequest
  <2>3. hub' = [hub EXCEPT ![r] = q]
    BY <1>1, <2>1
  <2> HIDE DEF q
  <2> QED BY <1>6, <2>2, <2>3, RequestStep DEF ValidateRead
<1>7. CASE ValidateReadMappings(r)
  <2> DEFINE m == versions[hub[r].version].mapping
             q == [hub[r] EXCEPT !.pc = "canonical", !.seen = m]
  <2>1. /\ hub[r].version \in DOMAIN versions
        /\ versions[hub[r].version].reported /\ versions[hub[r].version].passes
    BY <1>7 DEF ValidateReadMappings, HubInv, HubPlaces
  <2>2. m \in Mappings
    <3>1. versions[hub[r].version] \in Version
      BY <1>1, <2>1
    <3> QED BY <3>1 DEF Version
  <2>3. hub' = [hub EXCEPT ![r] = q]
    BY <1>1, <1>7 DEF ValidateReadMappings
  <2>4. q \in HubRequest /\ q.pc = "canonical" /\ q.version = hub[r].version /\ q.seen = m
    <3> HIDE DEF m
    <3> QED BY <1>2, <2>2 DEF HubRequest
  <2>5. /\ q.version \in DOMAIN versions /\ q.seen = versions[q.version].mapping
        /\ versions[q.version].reported /\ versions[q.version].passes
    <3> HIDE DEF q
    <3> QED BY <2>1, <2>4
  <2>6. UNCHANGED <<hubSchema, datasets, versions>>
    BY <1>7 DEF ValidateReadMappings
  <2> HIDE DEF q, m
  <2> QED BY <2>3, <2>4, <2>5, <2>6, RequestStep
<1>8. CASE ApproveRead(r)
  <2>1. PICK v \in DOMAIN versions :
          /\ versions[v].status = "VALIDATED"
          /\ hub' = [hub EXCEPT ![r].pc = "approve", ![r].version = v]
    BY <1>8 DEF ApproveRead
  <2> DEFINE q == [hub[r] EXCEPT !.pc = "approve", !.version = v]
  <2>2. q \in HubRequest /\ q.pc = "approve" /\ q.version = v
    BY <1>2, <1>3 DEF HubRequest
  <2>3. /\ versions[v].reported /\ versions[v].passes
        /\ ~versions[v].tainted => versions[v].canonical = versions[v].mapping
    BY <2>1 DEF HubInv, UsableHasPassed, SnapshotIsOfMapping, Usable
  <2>4. hub' = [hub EXCEPT ![r] = q]
    BY <1>1, <2>1
  <2> HIDE DEF q
  <2> QED BY <1>8, <2>2, <2>3, <2>4, RequestStep DEF ApproveRead
<1>9. CASE HubAbort(r)
  <2>1. hub' = [hub EXCEPT ![r] = NoHubRequest]
    BY <1>9 DEF HubAbort, HubAnswer
  <2>2. NoHubRequest.pc = "idle" /\ NoHubRequest.dataset = 0 /\ NoHubRequest.parent = 0
    BY DEF NoHubRequest
  <2> QED BY <1>9, <2>1, <2>2, NoHubRequestType, RequestStep DEF HubAbort
<1> QED BY <1>4, <1>5, <1>6, <1>7, <1>8, <1>9

LEMMA ReportsKeepHubInv ==
    ASSUME HubInv, NEW r \in HubRequests,
           \/ ValidateReport(r) \/ ValidateCommit(r) \/ ValidateFallback(r)
           \/ ValidateFailed(r) \/ ApproveCommit(r)
    PROVE  HubInv' /\ VersionsStay
<1> DEFINE v == hub[r].version
<1>1. hub \in [HubRequests -> HubRequest] /\ versions \in Seq(Version) /\ datasets \in Nat
  BY DEF HubInv, HubTypeOK
<1>2. hub[r] \in HubRequest
  BY <1>1
<1>3. hub[r].pc \in {"report", "mappings", "canonical", "failed", "approve"} => v \in DOMAIN versions
  BY DEF HubInv, HubPlaces
<1>4. v \in DOMAIN versions => versions[v] \in Version
  BY <1>1
<1>5. hub[r].pc \in {"mappings", "canonical", "approve"} => versions[v].reported /\ versions[v].passes
  BY DEF HubInv, HubPlaces
<1>6. v \in DOMAIN versions =>
        /\ versions[v].status \in Usable => versions[v].reported /\ versions[v].passes
        /\ versions[v].status \in Usable /\ ~versions[v].tainted => versions[v].canonical = versions[v].mapping
  BY DEF HubInv, UsableHasPassed, SnapshotIsOfMapping
<1>7. /\ hub[r].pc = "canonical" /\ hub[r].clean => hub[r].seen = versions[v].mapping
      /\ hub[r].pc = "approve" /\ hub[r].clean /\ ~versions[v].tainted => versions[v].canonical = versions[v].mapping
  BY DEF HubInv, HubMappings
<1>8. NoHubRequest \in HubRequest
  BY NoHubRequestType
<1>9. CASE ValidateReport(r)
  <2> DEFINE to == IF versions[v].passes THEN "mappings" ELSE "failed"
             q == [hub[r] EXCEPT !.pc = to]
             row == [versions[v] EXCEPT !.reported = TRUE]
  <2>1. v \in DOMAIN versions
    BY <1>3, <1>9 DEF ValidateReport
  <2>2. q \in HubRequest /\ q.version = v /\ q.pc = to
    BY <1>2 DEF HubRequest
  <2>3. /\ row \in Version /\ row.reported
        /\ row.dataset = versions[v].dataset /\ row.tag = versions[v].tag /\ row.parent = versions[v].parent
        /\ row.passes = versions[v].passes /\ row.status = versions[v].status
        /\ row.mapping = versions[v].mapping /\ row.canonical = versions[v].canonical
        /\ row.tainted = versions[v].tainted
    BY <1>4, <2>1 DEF Version
  <2>4. versions' = [versions EXCEPT ![v] = row]
    BY <1>1, <2>1, <1>9 DEF ValidateReport
  <2>5. hub' = [hub EXCEPT ![r] = q]
    BY <1>1, <1>9 DEF ValidateReport, HubGoto
  <2>6. \/ q.pc = "failed" /\ q.version = v
        \/ q.pc = "mappings" /\ q.version = v /\ row.reported /\ row.passes
    <3> HIDE DEF q, row
    <3> QED BY <2>2, <2>3
  <2>7. /\ row.status \in Usable => row.reported /\ row.passes
        /\ row.status \in Usable /\ ~row.tainted => row.canonical = row.mapping
        /\ ~row.tainted => ~versions[v].tainted /\ row.canonical = versions[v].canonical
    <3> HIDE DEF row
    <3> QED BY <1>6, <2>1, <2>3
  <2>8. UNCHANGED <<hubSchema, datasets>>
    BY <1>9 DEF ValidateReport
  <2> HIDE DEF q, row, v
  <2> QED BY <2>1, <2>2, <2>3, <2>4, <2>5, <2>6, <2>7, <2>8, RowRequestStep
<1>10. CASE ValidateCommit(r)
  <2> DEFINE row == [versions[v] EXCEPT !.status = "VALIDATED", !.canonical = hub[r].seen,
                                        !.tainted = ~hub[r].clean]
  <2>1. v \in DOMAIN versions
    BY <1>3, <1>10 DEF ValidateCommit
  <2>2. /\ row \in Version /\ row.reported = versions[v].reported
        /\ row.dataset = versions[v].dataset /\ row.tag = versions[v].tag /\ row.parent = versions[v].parent
        /\ row.passes = versions[v].passes
        /\ row.mapping = versions[v].mapping /\ row.canonical = hub[r].seen
        /\ row.tainted = ~hub[r].clean
    BY <1>2, <1>4, <2>1 DEF Version, HubRequest, HubStatuses
  <2>3. versions' = [versions EXCEPT ![v] = row]
    BY <1>1, <2>1, <1>10 DEF ValidateCommit
  <2>4. hub' = [hub EXCEPT ![r] = NoHubRequest]
    BY <1>10 DEF ValidateCommit, HubAnswer
  <2>5. row.reported /\ row.passes
    <3> HIDE DEF row
    <3> QED BY <1>5, <2>2, <1>10 DEF ValidateCommit
  <2>6. ~row.tainted => row.canonical = row.mapping
    <3> HIDE DEF row
    <3>1. hub[r].clean \in BOOLEAN
      BY <1>2 DEF HubRequest
    <3> QED BY <1>7, <2>2, <1>10, <3>1 DEF ValidateCommit
  <2>7. UNCHANGED <<hubSchema, datasets>>
    BY <1>10 DEF ValidateCommit
  <2> HIDE DEF row, v
  <2> QED BY <1>8, <2>1, <2>2, <2>3, <2>4, <2>5, <2>6, <2>7, RowRequestStep
<1>11. CASE ValidateFallback(r)
  <2> DEFINE row == [versions[v] EXCEPT !.status = "VALIDATED", !.tainted = TRUE]
  <2>1. v \in DOMAIN versions
    BY <1>3, <1>11 DEF ValidateFallback
  <2>2. /\ row \in Version /\ row.reported = versions[v].reported
        /\ row.dataset = versions[v].dataset /\ row.tag = versions[v].tag /\ row.parent = versions[v].parent
        /\ row.passes = versions[v].passes
        /\ row.mapping = versions[v].mapping /\ row.tainted
    BY <1>4, <2>1 DEF Version, HubStatuses
  <2>3. versions' = [versions EXCEPT ![v] = row]
    BY <1>1, <2>1, <1>11 DEF ValidateFallback
  <2>4. hub' = [hub EXCEPT ![r] = NoHubRequest]
    BY <1>11 DEF ValidateFallback, HubAnswer
  <2>5. row.reported /\ row.passes
    <3> HIDE DEF row
    <3> QED BY <1>5, <2>2, <1>11 DEF ValidateFallback
  <2>6. UNCHANGED <<hubSchema, datasets>>
    BY <1>11 DEF ValidateFallback
  <2> HIDE DEF row, v
  <2> QED BY <1>8, <2>1, <2>2, <2>3, <2>4, <2>5, <2>6, RowRequestStep
<1>12. CASE ValidateFailed(r)
  <2> DEFINE row == IF hubSchema = "init.sql" THEN versions[v]
                    ELSE [versions[v] EXCEPT !.status = "VALIDATION_FAILED"]
  <2>1. v \in DOMAIN versions
    BY <1>3, <1>12 DEF ValidateFailed
  <2>2. /\ row \in Version /\ row.reported = versions[v].reported
        /\ row.dataset = versions[v].dataset /\ row.tag = versions[v].tag /\ row.parent = versions[v].parent
        /\ row.passes = versions[v].passes /\ row.mapping = versions[v].mapping
        /\ row.canonical = versions[v].canonical /\ row.tainted = versions[v].tainted
        /\ row.status \in {versions[v].status, "VALIDATION_FAILED"}
    <3>1. CASE hubSchema = "init.sql"
      BY <1>4, <2>1, <3>1
    <3>2. CASE hubSchema # "init.sql"
      BY <1>4, <2>1, <3>2 DEF Version, HubStatuses
    <3> QED BY <3>1, <3>2
  <2>3. versions' = [versions EXCEPT ![v] = row]
    <3>1. CASE hubSchema = "init.sql"
      BY <1>1, <2>1, <1>12, <3>1 DEF ValidateFailed
    <3>2. CASE hubSchema # "init.sql"
      BY <1>1, <2>1, <1>12, <3>2 DEF ValidateFailed
    <3> QED BY <3>1, <3>2
  <2>4. hub' = [hub EXCEPT ![r] = NoHubRequest]
    BY <1>12 DEF ValidateFailed, HubAnswer
  <2>5. /\ row.status \in Usable => row.reported /\ row.passes
        /\ row.status \in Usable /\ ~row.tainted => row.canonical = row.mapping
        /\ ~row.tainted => ~versions[v].tainted /\ row.canonical = versions[v].canonical
    <3> HIDE DEF row
    <3> QED BY <1>6, <2>1, <2>2 DEF Usable
  <2>6. UNCHANGED <<hubSchema, datasets>>
    BY <1>12 DEF ValidateFailed
  <2> HIDE DEF row, v
  <2> QED BY <1>8, <2>1, <2>2, <2>3, <2>4, <2>5, <2>6, RowRequestStep
<1>13. CASE ApproveCommit(r)
  <2>1. v \in DOMAIN versions
    BY <1>3, <1>13 DEF ApproveCommit
  <2>2. hub' = [hub EXCEPT ![r] = NoHubRequest] /\ UNCHANGED <<hubSchema, datasets>>
    BY <1>13 DEF ApproveCommit, HubAnswer
  <2>3. CASE versions' = versions
    <3>1. /\ NoHubRequest.pc = "idle" /\ NoHubRequest.dataset = 0 /\ NoHubRequest.parent = 0
          /\ UNCHANGED <<hubSchema, datasets, versions>>
      BY <2>2, <2>3 DEF NoHubRequest
    <3> QED BY <1>8, <2>2, <3>1, RequestStep
  <2>4. CASE versions' = [versions EXCEPT ![v].status = "APPROVED_FOR_TRAINING",
                                          ![v].tainted = @ \/ ~hub[r].clean]
    <3> DEFINE t == versions[v].tainted \/ ~hub[r].clean
               row == [versions[v] EXCEPT !.status = "APPROVED_FOR_TRAINING", !.tainted = t]
    <3>1. versions[v].tainted \in BOOLEAN /\ hub[r].clean \in BOOLEAN /\ t \in BOOLEAN
      BY <1>2, <1>4, <2>1 DEF Version, HubRequest
    <3>2. versions' = [versions EXCEPT ![v] = row]
      <4>1. [versions[v] EXCEPT !.status = "APPROVED_FOR_TRAINING"].tainted = versions[v].tainted
        BY <1>4, <2>1 DEF Version
      <4>2. [versions EXCEPT ![v].status = "APPROVED_FOR_TRAINING"][v].tainted = versions[v].tainted
        BY <1>1, <2>1, <4>1
      <4>3. versions' = [[versions EXCEPT ![v].status = "APPROVED_FOR_TRAINING"] EXCEPT ![v].tainted = t]
        BY <2>4, <4>2
      <4> HIDE DEF t
      <4> QED BY <1>1, <2>1, <4>3
    <3>3. /\ row \in Version /\ row.reported = versions[v].reported
          /\ row.dataset = versions[v].dataset /\ row.tag = versions[v].tag /\ row.parent = versions[v].parent
          /\ row.passes = versions[v].passes /\ row.mapping = versions[v].mapping
          /\ row.canonical = versions[v].canonical /\ row.tainted = t
      <4> HIDE DEF t
      <4> QED BY <1>4, <2>1, <3>1 DEF Version, HubStatuses
    <3>4. row.reported /\ row.passes
      <4> HIDE DEF row
      <4> QED BY <1>5, <3>3, <1>13 DEF ApproveCommit
    <3>5. ~row.tainted => row.canonical = row.mapping
      <4> HIDE DEF row
      <4> QED BY <1>7, <3>1, <3>3, <1>13 DEF ApproveCommit
    <3> HIDE DEF row, v, t
    <3> QED BY <1>8, <2>1, <2>2, <3>2, <3>3, <3>4, <3>5, RowRequestStep
  <2> QED BY <2>3, <2>4, <1>13 DEF ApproveCommit
<1> QED BY <1>9, <1>10, <1>11, <1>12, <1>13

(* A new version does not fork the lineage: its tag would be taken.          *)
LEMMA UploadKeepsHubInv ==
    ASSUME HubInv, NEW r \in HubRequests, UploadCommit(r)
    PROVE  HubInv' /\ VersionsStay
<1> DEFINE new == hub[r].dataset = 0
           parent == hub[r].parent
           d == IF new THEN datasets + 1 ELSE hub[r].dataset
           tag == NextTag(parent)
<1>1. hub \in [HubRequests -> HubRequest] /\ versions \in Seq(Version) /\ datasets \in Nat
  BY DEF HubInv, HubTypeOK
<1>2. hub[r] \in HubRequest /\ parent \in Nat /\ hub[r].dataset \in Nat
  BY <1>1 DEF HubRequest
<1>3. DOMAIN versions = 1 .. Len(versions) /\ Len(versions) \in Nat
  BY <1>1
<1>4. /\ new => parent = 0
      /\ ~new => parent \in DOMAIN versions /\ versions[parent].dataset = hub[r].dataset
  BY DEF UploadCommit, HubInv, HubPlaces
<1>5. \A v \in DOMAIN versions : versions[v].dataset \in 1 .. datasets /\ versions[v].tag \in Nat \ {0}
  <2>1. \A v \in DOMAIN versions : versions[v] \in Version
    BY <1>1
  <2>2. \A v \in DOMAIN versions : versions[v].tag \in Nat \ {0}
    BY <2>1 DEF Version
  <2> QED BY <2>2 DEF HubInv, DatasetsExist
<1>6. /\ d \in Nat /\ d \in 1 .. (datasets + 1) /\ tag \in Nat \ {0} /\ parent \in 0 .. Len(versions)
      /\ ~new => d \in 1 .. datasets
  BY <1>1, <1>2, <1>3, <1>4, <1>5 DEF NextTag
<1>7. hub' = [hub EXCEPT ![r] = NoHubRequest] /\ UNCHANGED hubSchema
  BY DEF UploadCommit, HubAnswer
<1>8. NoHubRequest.pc = "idle" /\ NoHubRequest.dataset = 0 /\ NoHubRequest.parent = 0
  BY DEF NoHubRequest
<1>9. CASE UNCHANGED <<datasets, versions>>
  BY <1>7, <1>8, <1>9, NoHubRequestType, RequestStep
<1>10. ASSUME NEW auto \in Mappings, NEW passes \in BOOLEAN,
              ~TagTaken(d, tag),
              datasets' = IF new THEN datasets + 1 ELSE datasets,
              versions' = Append(versions,
                    [dataset |-> d, tag |-> tag, parent |-> parent,
                     status |-> "UPLOADED", mapping |-> auto, canonical |-> NoMapping,
                     passes |-> passes, reported |-> FALSE, tainted |-> FALSE])
       PROVE  HubInv' /\ VersionsStay
  <2> DEFINE row == [dataset |-> d, tag |-> tag, parent |-> parent,
                     status |-> "UPLOADED", mapping |-> auto, canonical |-> NoMapping,
                     passes |-> passes, reported |-> FALSE, tainted |-> FALSE]
             n == Len(versions) + 1
  <2>1. /\ row \in Version /\ row.dataset = d /\ row.tag = tag /\ row.parent = parent
        /\ row.status = "UPLOADED"
    <3> HIDE DEF d, tag, parent
    <3> QED BY <1>2, <1>6 DEF Version, HubStatuses
  <2>2. /\ versions' \in Seq(Version) /\ DOMAIN versions' = 1 .. n /\ versions'[n] = row
        /\ \A v \in DOMAIN versions : v \in DOMAIN versions' /\ versions'[v] = versions[v]
        /\ \A v \in DOMAIN versions' : v = n \/ v \in DOMAIN versions
        /\ n \notin DOMAIN versions /\ n \in Nat
    <3> HIDE DEF row
    <3>1. versions' = Append(versions, row)
      BY <1>10 DEF row
    <3> QED BY <1>1, <1>3, <2>1, <3>1
  <2>3. /\ hub' \in [HubRequests -> HubRequest] /\ hub'[r] = NoHubRequest
        /\ \A p \in HubRequests : p # r => hub'[p] = hub[p]
    BY <1>1, <1>7, NoHubRequestType
  <2>4. datasets' \in Nat /\ 1 .. datasets \subseteq 1 .. datasets' /\ d \in 1 .. datasets'
    BY <1>1, <1>6, <1>10
  <2> HIDE DEF row, d, tag, parent, n, new
  <2>5. HubTypeOK'
    BY <1>7, <2>2, <2>3, <2>4 DEF HubInv, HubTypeOK
  <2>6. VersionsStay
    BY <2>2 DEF VersionsStay
  <2>7. HubPlaces'
    <3> SUFFICES ASSUME NEW p \in HubRequests
                 PROVE  /\ hub'[p].pc = "idle" => hub'[p].dataset = 0 /\ hub'[p].parent = 0
                        /\ hub'[p].pc = "latest" => hub'[p].dataset \in 1 .. datasets'
                        /\ hub'[p].pc = "insert" =>
                             \/ hub'[p].dataset = 0 /\ hub'[p].parent = 0
                             \/ /\ hub'[p].dataset # 0 /\ hub'[p].parent \in DOMAIN versions'
                                /\ versions'[hub'[p].parent].dataset = hub'[p].dataset
                        /\ hub'[p].pc \in {"report", "mappings", "canonical", "failed", "approve"} =>
                             hub'[p].version \in DOMAIN versions'
                        /\ hub'[p].pc \in {"mappings", "canonical", "approve"} =>
                             versions'[hub'[p].version].reported /\ versions'[hub'[p].version].passes
      BY DEF HubPlaces
    <3>1. CASE p = r
      BY <2>3, <3>1, <1>8
    <3>2. CASE p # r
      <4>1. hub'[p] = hub[p]
        BY <2>3, <3>2
      <4> QED BY <2>2, <2>4, <4>1 DEF HubInv, HubPlaces
    <3> QED BY <3>1, <3>2
  <2>8. HubMappings'
    <3> SUFFICES ASSUME NEW p \in HubRequests
                 PROVE  /\ hub'[p].pc = "canonical" /\ hub'[p].clean =>
                             hub'[p].seen = versions'[hub'[p].version].mapping
                        /\ hub'[p].pc = "approve" /\ hub'[p].clean /\ ~versions'[hub'[p].version].tainted =>
                             versions'[hub'[p].version].canonical = versions'[hub'[p].version].mapping
      BY DEF HubMappings
    <3>1. CASE p = r
      BY <2>3, <3>1, <1>8
    <3>2. CASE p # r
      <4>1. hub'[p] = hub[p]
        BY <2>3, <3>2
      <4>2. hub[p].pc \in {"canonical", "approve"} => hub[p].version \in DOMAIN versions
        BY DEF HubInv, HubPlaces
      <4> QED BY <2>2, <4>1, <4>2 DEF HubInv, HubMappings
    <3> QED BY <3>1, <3>2
  <2>9. DatasetsExist'
    BY <1>5, <2>1, <2>2, <2>4 DEF DatasetsExist
  <2>10. UsableHasPassed' /\ SnapshotIsOfMapping'
    BY <2>1, <2>2 DEF HubInv, UsableHasPassed, SnapshotIsOfMapping, Usable
  <2>11. \A v \in DOMAIN versions :
          IF versions[v].parent = 0 THEN versions[v].tag = 1
          ELSE /\ versions[v].parent \in 1 .. (v - 1) /\ versions[v].parent \in DOMAIN versions
               /\ versions[versions[v].parent].dataset = versions[v].dataset
               /\ versions[v].tag = versions[versions[v].parent].tag + 1
    BY <1>3 DEF HubInv, LineageNeverForks
  <2>12. \A v \in DOMAIN versions' :
          IF versions'[v].parent = 0 THEN versions'[v].tag = 1
          ELSE /\ versions'[v].parent \in 1 .. (v - 1)
               /\ versions'[versions'[v].parent].dataset = versions'[v].dataset
               /\ versions'[v].tag = versions'[versions'[v].parent].tag + 1
    <3> SUFFICES ASSUME NEW v \in DOMAIN versions'
                 PROVE  IF versions'[v].parent = 0 THEN versions'[v].tag = 1
                        ELSE /\ versions'[v].parent \in 1 .. (v - 1)
                             /\ versions'[versions'[v].parent].dataset = versions'[v].dataset
                             /\ versions'[v].tag = versions'[versions'[v].parent].tag + 1
      OBVIOUS
    <3>1. CASE v \in DOMAIN versions
      <4>1. versions'[v] = versions[v]
        BY <2>2, <3>1
      <4>2. CASE versions[v].parent = 0
        BY <2>11, <3>1, <4>1, <4>2
      <4>3. CASE versions[v].parent # 0
        BY <2>2, <2>11, <3>1, <4>1, <4>3
      <4> QED BY <4>2, <4>3
    <3>2. CASE v = n
      <4>1. CASE parent = 0
        BY <2>1, <2>2, <3>2, <4>1 DEF NextTag, tag
      <4>2. CASE parent # 0
        <5>1. parent \in DOMAIN versions /\ versions[parent].dataset = d /\ parent \in 1 .. (n - 1)
          BY <1>3, <1>4, <4>2 DEF d, n
        <5>2. tag = versions[parent].tag + 1
          BY <4>2 DEF NextTag, tag
        <5> QED BY <2>1, <2>2, <3>2, <4>2, <5>1, <5>2
      <4> QED BY <4>1, <4>2
    <3> QED BY <2>2, <3>1, <3>2
  <2>13. \A v \in DOMAIN versions : ~(versions[v].parent = parent /\ versions[v].dataset = d)
    <3> SUFFICES ASSUME NEW v \in DOMAIN versions, versions[v].parent = parent, versions[v].dataset = d
                 PROVE  FALSE
      OBVIOUS
    <3>1. versions[v].tag = tag
      <4>1. CASE parent = 0
        BY <2>11, <4>1 DEF NextTag, tag
      <4>2. CASE parent # 0
        BY <2>11, <4>2 DEF NextTag, tag
      <4> QED BY <4>1, <4>2
    <3> QED BY <1>10, <3>1 DEF TagTaken, VersionsOf
  <2>14. \A v, w \in DOMAIN versions' :
          versions'[v].parent = versions'[w].parent /\ versions'[v].dataset = versions'[w].dataset => v = w
    <3> SUFFICES ASSUME NEW v \in DOMAIN versions', NEW w \in DOMAIN versions',
                        versions'[v].parent = versions'[w].parent, versions'[v].dataset = versions'[w].dataset
                 PROVE  v = w
      OBVIOUS
    <3>1. CASE v \in DOMAIN versions /\ w \in DOMAIN versions
      BY <2>2, <3>1 DEF HubInv, LineageNeverForks
    <3>2. CASE v = n /\ w \in DOMAIN versions
      BY <2>1, <2>2, <2>13, <3>2
    <3>3. CASE w = n /\ v \in DOMAIN versions
      BY <2>1, <2>2, <2>13, <3>3
    <3> QED BY <2>2, <3>1, <3>2, <3>3
  <2> QED BY <2>5, <2>6, <2>7, <2>8, <2>9, <2>10, <2>12, <2>14 DEF HubInv, LineageNeverForks
<1> HIDE DEF d, tag, parent, new
<1> QED BY <1>9, <1>10 DEF UploadCommit, d, tag, parent, new

(* A committed mapping is noticed by every request on its version.           *)
LEMMA MappingKeepsHubInv ==
    ASSUME HubInv, NEW r \in HubRequests, ApplyMappings(r)
    PROVE  HubInv' /\ VersionsStay
<1>1. hub \in [HubRequests -> HubRequest] /\ versions \in Seq(Version) /\ datasets \in Nat
  BY DEF HubInv, HubTypeOK
<1>2. UNCHANGED <<hubSchema, datasets>>
  BY DEF ApplyMappings
<1>3. CASE UNCHANGED <<versions, hub>>
  BY <1>2, <1>3 DEF HubInv, VersionsStay, HubTypeOK, HubPlaces, HubMappings, DatasetsExist, LineageNeverForks,
                    UsableHasPassed, SnapshotIsOfMapping
<1>4. ASSUME NEW v \in DOMAIN versions, NEW m \in Mappings,
             versions' = [versions EXCEPT ![v].mapping = m, ![v].status = Remapped(versions[v].status)],
             hub' = [q \in HubRequests |->
                       IF hub[q].version = v THEN [hub[q] EXCEPT !.clean = FALSE] ELSE hub[q]]
      PROVE  HubInv' /\ VersionsStay
  <2> DEFINE status == Remapped(versions[v].status)
             row == [versions[v] EXCEPT !.mapping = m, !.status = status]
  <2>1. versions[v] \in Version
    BY <1>1
  <2>2. status \in HubStatuses /\ status \notin Usable
    <3>1. versions[v].status \in HubStatuses
      BY <2>1 DEF Version
    <3> QED BY <3>1 DEF Remapped, HubStatuses, Usable
  <2>3. /\ row \in Version /\ row.mapping = m /\ row.status = status
        /\ row.dataset = versions[v].dataset /\ row.tag = versions[v].tag /\ row.parent = versions[v].parent
        /\ row.passes = versions[v].passes /\ row.reported = versions[v].reported
    <3> HIDE DEF status
    <3> QED BY <2>1, <2>2 DEF Version
  <2>4. versions' = [versions EXCEPT ![v] = row]
    <3> HIDE DEF status
    <3> QED BY <1>1, <1>4 DEF status
  <2> HIDE DEF row, status
  <2>5. /\ versions' \in Seq(Version) /\ DOMAIN versions' = DOMAIN versions /\ versions'[v] = row
        /\ \A w \in DOMAIN versions : w # v => versions'[w] = versions[w]
        /\ VersionsStay /\ DatasetsExist' /\ LineageNeverForks' /\ UsableHasPassed' /\ SnapshotIsOfMapping'
    BY <1>2, <2>2, <2>3, <2>4, RowStep
  <2>6. \A q \in HubRequests :
          /\ hub'[q] \in HubRequest
          /\ hub'[q].pc = hub[q].pc /\ hub'[q].version = hub[q].version /\ hub'[q].dataset = hub[q].dataset
          /\ hub'[q].parent = hub[q].parent /\ hub'[q].seen = hub[q].seen
          /\ IF hub[q].version = v THEN hub'[q].clean = FALSE ELSE hub'[q] = hub[q]
    <3> SUFFICES ASSUME NEW q \in HubRequests
                 PROVE  /\ hub'[q] \in HubRequest
                        /\ hub'[q].pc = hub[q].pc /\ hub'[q].version = hub[q].version
                        /\ hub'[q].dataset = hub[q].dataset
                        /\ hub'[q].parent = hub[q].parent /\ hub'[q].seen = hub[q].seen
                        /\ IF hub[q].version = v THEN hub'[q].clean = FALSE ELSE hub'[q] = hub[q]
      OBVIOUS
    <3>1. hub[q] \in HubRequest
      BY <1>1
    <3>2. CASE hub[q].version = v
      <4>1. hub'[q] = [hub[q] EXCEPT !.clean = FALSE]
        BY <1>4, <3>2
      <4> QED BY <3>1, <3>2, <4>1 DEF HubRequest
    <3>3. CASE hub[q].version # v
      <4>1. hub'[q] = hub[q]
        BY <1>4, <3>3
      <4> QED BY <3>1, <3>3, <4>1
    <3> QED BY <3>2, <3>3
  <2>7. HubTypeOK'
    <3>1. hub' \in [HubRequests -> HubRequest]
      BY <1>4, <2>6
    <3> QED BY <1>2, <2>5, <3>1 DEF HubInv, HubTypeOK
  <2>8. HubPlaces'
    <3>1. \A w \in DOMAIN versions :
            /\ versions'[w].dataset = versions[w].dataset
            /\ versions'[w].passes = versions[w].passes
            /\ versions'[w].reported = versions[w].reported
      BY <2>3, <2>5
    <3> QED BY <1>2, <2>5, <2>6, <3>1 DEF HubInv, HubPlaces
  <2>9. HubMappings'
    <3> SUFFICES ASSUME NEW p \in HubRequests
                 PROVE  /\ hub'[p].pc = "canonical" /\ hub'[p].clean =>
                             hub'[p].seen = versions'[hub'[p].version].mapping
                        /\ hub'[p].pc = "approve" /\ hub'[p].clean /\ ~versions'[hub'[p].version].tainted =>
                             versions'[hub'[p].version].canonical = versions'[hub'[p].version].mapping
      BY DEF HubMappings
    <3>1. CASE hub[p].version = v
      BY <2>6, <3>1
    <3>2. CASE hub[p].version # v
      <4>1. hub[p].pc \in {"canonical", "approve"} => hub[p].version \in DOMAIN versions
        BY DEF HubInv, HubPlaces
      <4> QED BY <2>5, <2>6, <3>2, <4>1 DEF HubInv, HubMappings
    <3> QED BY <3>1, <3>2
  <2> QED BY <2>5, <2>7, <2>8, <2>9 DEF HubInv
<1> QED BY <1>3, <1>4 DEF ApplyMappings

LEMMA HubInvNext ==
    ASSUME HubInv, [HubNext]_hubVars
    PROVE  HubInv' /\ VersionsStay
<1>1. ASSUME NEW r \in HubRequests, HubStep(r) PROVE HubInv' /\ VersionsStay
  BY <1>1, ReadsKeepHubInv, ReportsKeepHubInv, UploadKeepsHubInv, MappingKeepsHubInv DEF HubStep
<1>2. CASE UNCHANGED hubVars
  BY <1>2 DEF hubVars, HubInv, VersionsStay, HubTypeOK, HubPlaces, HubMappings, DatasetsExist, LineageNeverForks,
              UsableHasPassed, SnapshotIsOfMapping
<1> QED BY <1>1, <1>2 DEF HubNext

LEMMA HubInvAlways == HubSpec => []HubInv
<1>1. HubInv /\ [HubNext]_hubVars => HubInv'
  BY HubInvNext
<1> QED BY <1>1, HubInvInit, PTL DEF HubSpec

(* Every row of the data hub and every request has its type, for any number  *)
(* of requests and versions and either schema (data_hub.py).                 *)
THEOREM HubTypeCorrect == HubSpec => []HubTypeOK
<1>1. HubInv => HubTypeOK
  BY DEF HubInv
<1> QED BY <1>1, HubInvAlways, PTL

(* Concurrent uploads never give a version two children, and a version's      *)
(* parent is the one with the tag before its own (data_hub.py:130).          *)
THEOREM LineageIsAChain == HubSpec => []LineageNeverForks
<1>1. HubInv => LineageNeverForks
  BY DEF HubInv
<1> QED BY <1>1, HubInvAlways, PTL

(* What training accepts has a stored report that it passed, whatever the     *)
(* requests that remap, validate and approve it do in between.               *)
THEOREM UsableAlwaysPassed == HubSpec => []UsableHasPassed
<1>1. HubInv => UsableHasPassed
  BY DEF HubInv
<1> QED BY <1>1, HubInvAlways, PTL

(* A stale snapshot is accepted for training only after a mapping committed   *)
(* in the middle of a validation or an approval, or a canonicalisation that   *)
(* failed (data_hub.py:453, :463, :539).                                     *)
THEOREM SnapshotsAreCurrent == HubSpec => []SnapshotIsOfMapping
<1>1. HubInv => SnapshotIsOfMapping
  BY DEF HubInv
<1> QED BY <1>1, HubInvAlways, PTL

(* The versions of every dataset are sound, for any number of requests on  *)
(* them.                                                                   *)
THEOREM VersionsAreSound == HubSpec => []VersionsSound
<1>1. (/\ HubTypeOK
       /\ LineageNeverForks
       /\ UsableHasPassed
       /\ SnapshotIsOfMapping) => VersionsSound
  BY DEF VersionsSound
<1>2. QED
  BY <1>1, HubTypeCorrect, LineageIsAChain, UsableAlwaysPassed, SnapshotsAreCurrent, PTL

-----------------------------------------------------------------------------
(* The training runs                                                       *)

Working == {"begin", "register", "finish", "fail"}

(* A version that may be trained on, which nothing takes back.               *)
Passed(v) == v \in DOMAIN versions /\ versions[v].reported /\ versions[v].passes

(* What a request relies on between its transactions.                       *)
TrainPlaces ==
    \A r \in TrainRequests :
        /\ training[r].pc \in {"start", "cancel"} => training[r].run \in DOMAIN runs
        /\ training[r].pc = "start" => runs[training[r].run].thread = "none"
        /\ training[r].pc \in {"abandon", "insert"} => training[r].version = 0 \/ Passed(training[r].version)

OneTrigger ==
    \A r, s \in TrainRequests :
        training[r].pc = "start" /\ training[s].pc = "start" /\ training[r].run = training[s].run => r = s

(* What a thread leaves behind.                                             *)
ThreadsDone ==
    \A i \in DOMAIN runs :
        /\ runs[i].status = "completed" => runs[i].thread = "ended"
        /\ runs[i].thread = "finish" /\ trainMode = "simulation" => runs[i].models = Tasks[runs[i].domain]

RunData == \A i \in DOMAIN runs : runs[i].version = 0 \/ Passed(runs[i].version)

TrainInv ==
    /\ TrainTypeOK
    /\ TrainPlaces
    /\ OneTrigger
    /\ ThreadsDone
    /\ RunData
    /\ OneActiveRun
    /\ ActiveHasThread
    /\ CompletedHasChallengers

LEMMA NoTrainRequestType == NoTrainRequest \in TrainRequest
BY TasksAssumption DEF NoTrainRequest, TrainRequest, Domains

LEMMA TrainInvInit == TrainInit => TrainInv
<1> SUFFICES ASSUME TrainInit PROVE TrainInv
  OBVIOUS
<1>1. runs \in Seq(Run) /\ DOMAIN runs = {}
  BY DEF TrainInit
<1>2. TrainTypeOK
  BY <1>1, NoTrainRequestType, TrainingBoundsAssumption DEF TrainInit, TrainTypeOK
<1>3. TrainPlaces /\ OneTrigger
  BY DEF TrainInit, TrainPlaces, OneTrigger, NoTrainRequest
<1> QED BY <1>1, <1>2, <1>3 DEF TrainInv, ThreadsDone, RunData, OneActiveRun, ActiveHasThread, CompletedHasChallengers

(* The data hub leaves the runs' data in place.                             *)
LEMMA HubKeepsTrainInv ==
    ASSUME TrainInv, VersionsStay, UNCHANGED trainVars
    PROVE  TrainInv'
<1>1. \A v : Passed(v) => v \in DOMAIN versions' /\ versions'[v].reported /\ versions'[v].passes
  BY DEF Passed, VersionsStay
<1>2. trainMode' = trainMode /\ runs' = runs /\ training' = training /\ restarts' = restarts
  BY DEF trainVars
<1>3. TrainPlaces' /\ RunData'
  BY <1>1, <1>2 DEF TrainInv, TrainPlaces, RunData, Passed
<1> QED BY <1>2, <1>3 DEF TrainInv, TrainTypeOK, OneTrigger, ThreadsDone, OneActiveRun, ActiveHasThread,
                          CompletedHasChallengers

(* The row of one run is replaced, with the end of a request or none: the run *)
(* keeps its domain and its data, becomes active only where the index admits  *)
(* it, and an active run stays in somebody's hands.                           *)
RunChange(i, row) ==
    /\ runs' = [runs EXCEPT ![i] = row]
    /\ trainMode' = trainMode /\ restarts' = restarts /\ versions' = versions
    /\ training' \in [TrainRequests -> TrainRequest]
    /\ \A r \in TrainRequests : training'[r] = training[r] \/ training'[r] = NoTrainRequest
    /\ row.domain = runs[i].domain /\ row.version = runs[i].version
    /\ row.status \in Active => runs[i].status \in Active \/ IndexAdmits(i, runs[i].domain)
    /\ \A r \in TrainRequests : training[r].pc = "start" =>
           \/ training'[r] = training[r] /\ (training[r].run = i => row.thread = "none")
           \/ training'[r] = NoTrainRequest /\ training[r].run = i
    /\ row.status \in Active /\ ~row.lost =>
           \/ row.thread \in Working
           \/ /\ runs[i].status \in Active /\ ~runs[i].lost /\ row.thread = runs[i].thread
              /\ training' = training
    /\ row.status = "completed" => row.thread = "ended"
    /\ (row.status = "completed" \/ row.thread = "finish") /\ trainMode = "simulation" =>
           row.models = Tasks[row.domain]

LEMMA RunStep ==
    ASSUME TrainInv, NEW i \in DOMAIN runs, NEW row \in Run, RunChange(i, row)
    PROVE  TrainInv'
<1> USE DEF RunChange
<1>1. runs \in Seq(Run) /\ training \in [TrainRequests -> TrainRequest]
  BY DEF TrainInv, TrainTypeOK
<1>2. /\ runs' \in Seq(Run) /\ DOMAIN runs' = DOMAIN runs /\ runs'[i] = row
      /\ \A j \in DOMAIN runs : j # i => runs'[j] = runs[j]
  BY <1>1
<1>3. NoTrainRequest.pc = "idle"
  BY DEF NoTrainRequest
<1>4. TrainTypeOK'
  BY <1>2 DEF TrainInv, TrainTypeOK
<1>5. TrainPlaces'
  <2> SUFFICES ASSUME NEW r \in TrainRequests
               PROVE  /\ training'[r].pc \in {"start", "cancel"} => training'[r].run \in DOMAIN runs'
                      /\ training'[r].pc = "start" => runs'[training'[r].run].thread = "none"
                      /\ training'[r].pc \in {"abandon", "insert"} =>
                           training'[r].version = 0 \/ Passed(training[r].version)'
    BY DEF TrainPlaces
  <2>1. CASE training'[r] = NoTrainRequest
    BY <1>3, <2>1
  <2>2. CASE training'[r] = training[r]
    <3>1. /\ training[r].pc \in {"start", "cancel"} => training[r].run \in DOMAIN runs
          /\ training[r].pc = "start" => runs[training[r].run].thread = "none"
          /\ training[r].pc \in {"abandon", "insert"} => training[r].version = 0 \/ Passed(training[r].version)
      BY DEF TrainInv, TrainPlaces
    <3>2. training[r].pc = "start" /\ training[r].run = i => row.thread = "none"
      BY <1>3, <2>2
    <3>3. training[r].version = training'[r].version /\ training[r].pc = training'[r].pc
      BY <2>2
    <3> QED BY <1>2, <2>2, <3>1, <3>2, <3>3 DEF Passed
  <2> QED BY <2>1, <2>2
<1>6. OneTrigger'
  BY <1>3 DEF TrainInv, OneTrigger
<1>7. ThreadsDone' /\ CompletedHasChallengers'
  BY <1>2 DEF TrainInv, ThreadsDone, CompletedHasChallengers
<1>8. RunData'
  BY <1>2 DEF TrainInv, RunData, Passed
<1>9. OneActiveRun'
  <2>1. \A j \in DOMAIN runs : runs'[j].domain = runs[j].domain
    BY <1>2
  <2>2. \A j \in DOMAIN runs :
          row.status \in Active /\ runs[j].status \in Active /\ runs[j].domain = runs[i].domain => j = i
    BY DEF TrainInv, OneActiveRun, IndexAdmits
  <2>3. \A j, k \in DOMAIN runs :
          runs[j].status \in Active /\ runs[k].status \in Active /\ runs[j].domain = runs[k].domain => j = k
    BY DEF TrainInv, OneActiveRun
  <2> QED BY <1>2, <2>1, <2>2, <2>3 DEF OneActiveRun
<1>10. ActiveHasThread'
  <2> SUFFICES ASSUME NEW j \in DOMAIN runs, runs'[j].status \in Active, ~runs'[j].lost
               PROVE  \/ runs'[j].thread \in Working
                      \/ \E r \in TrainRequests : training'[r].pc = "start" /\ training'[r].run = j
    BY <1>2 DEF ActiveHasThread, Working
  <2>1. runs[j].status \in Active /\ ~runs[j].lost =>
          \/ runs[j].thread \in Working
          \/ \E r \in TrainRequests : training[r].pc = "start" /\ training[r].run = j
    BY DEF TrainInv, ActiveHasThread, Working
  <2>2. CASE j = i
    BY <1>2, <2>1, <2>2
  <2>3. CASE j # i
    BY <1>2, <2>1, <2>3
  <2> QED BY <2>2, <2>3
<1> QED BY <1>4, <1>5, <1>6, <1>7, <1>8, <1>9, <1>10 DEF TrainInv

(* A request that changes nothing but itself and starts no thread.            *)
LEMMA TrainRequestStep ==
    ASSUME TrainInv, NEW r \in TrainRequests, NEW q \in TrainRequest,
           training' = [training EXCEPT ![r] = q], runs' = runs,
           trainMode' = trainMode, restarts' = restarts, versions' = versions,
           training[r].pc # "start", q.pc # "start",
           q.pc = "cancel" => q.run \in DOMAIN runs,
           q.pc \in {"abandon", "insert"} => q.version = 0 \/ Passed(q.version)
    PROVE  TrainInv'
<1>1. training \in [TrainRequests -> TrainRequest]
  BY DEF TrainInv, TrainTypeOK
<1>2. /\ training' \in [TrainRequests -> TrainRequest] /\ training'[r] = q
      /\ \A s \in TrainRequests : s # r => training'[s] = training[s]
  BY <1>1
<1>3. TrainTypeOK'
  BY <1>2 DEF TrainInv, TrainTypeOK
<1>4. TrainPlaces'
  BY <1>2 DEF TrainInv, TrainPlaces, Passed
<1>5. OneTrigger'
  BY <1>2 DEF TrainInv, OneTrigger
<1>6. ActiveHasThread'
  <2>1. \A s \in TrainRequests : training[s].pc = "start" => training'[s] = training[s]
    BY <1>2
  <2> QED BY <2>1 DEF TrainInv, ActiveHasThread
<1>7. (ThreadsDone /\ RunData /\ OneActiveRun /\ CompletedHasChallengers)'
  BY DEF TrainInv, ThreadsDone, RunData, OneActiveRun, CompletedHasChallengers, Passed
<1> QED BY <1>3, <1>4, <1>5, <1>6, <1>7 DEF TrainInv

LEMMA TrainReadsKeepInv ==
    ASSUME TrainInv, HubTypeOK, UsableHasPassed, UNCHANGED hubVars, NEW r \in TrainRequests,
           TriggerCheck(r) \/ CancelCheck(r) \/ TrainAbort(r)
    PROVE  TrainInv'
<1>1. training \in [TrainRequests -> TrainRequest] /\ runs \in Seq(Run) /\ versions' = versions
  BY DEF TrainInv, TrainTypeOK, hubVars
<1>2. training[r] \in TrainRequest
  BY <1>1
<1>3. NoTrainRequest.pc = "idle" /\ NoTrainRequest \in TrainRequest
  BY NoTrainRequestType DEF NoTrainRequest
<1>4. CASE TriggerCheck(r)
  <2>1. PICK d \in Domains, v \in {0} \cup DOMAIN versions :
          /\ v # 0 => versions[v].status \in Usable
          /\ training' = [training EXCEPT ![r] = [pc |-> "abandon", domain |-> d, version |-> v, run |-> 0]]
    BY <1>4 DEF TriggerCheck
  <2> DEFINE q == [pc |-> "abandon", domain |-> d, version |-> v, run |-> 0]
  <2>2. /\ training[r].pc = "idle" /\ runs' = runs /\ trainMode' = trainMode /\ restarts' = restarts
    BY <1>4 DEF TriggerCheck
  <2>3. v \in Nat
    BY DEF HubTypeOK
  <2>4. q \in TrainRequest /\ q.pc = "abandon" /\ q.version = v
    BY <2>3 DEF TrainRequest
  <2>5. v = 0 \/ Passed(v)
    BY <2>1 DEF UsableHasPassed, Passed
  <2> HIDE DEF q
  <2> QED BY <1>1, <2>1, <2>2, <2>4, <2>5, TrainRequestStep DEF q
<1>5. CASE CancelCheck(r)
  <2>1. PICK i \in DOMAIN runs : training' = [training EXCEPT ![r].pc = "cancel", ![r].run = i]
    BY <1>5 DEF CancelCheck
  <2> DEFINE q == [training[r] EXCEPT !.pc = "cancel", !.run = i]
  <2>2. training[r].pc = "idle" /\ runs' = runs /\ trainMode' = trainMode /\ restarts' = restarts
    BY <1>5 DEF CancelCheck
  <2>3. i \in Nat
    BY <1>1
  <2>4. q \in TrainRequest /\ q.pc = "cancel" /\ q.run = i
    BY <1>2, <2>3 DEF TrainRequest
  <2>5. training' = [training EXCEPT ![r] = q]
    BY <1>1, <2>1
  <2> HIDE DEF q
  <2> QED BY <1>1, <2>2, <2>4, <2>5, TrainRequestStep
<1>6. CASE TrainAbort(r)
  <2>1. /\ training[r].pc # "start" /\ runs' = runs /\ trainMode' = trainMode /\ restarts' = restarts
        /\ training' = [training EXCEPT ![r] = NoTrainRequest]
    BY <1>6 DEF TrainAbort, TrainAnswer
  <2> QED BY <1>1, <1>3, <2>1, TrainRequestStep
<1> QED BY <1>4, <1>5, <1>6

(* A change of one run by its thread, or by the passage of time.             *)
LEMMA ThreadStep ==
    ASSUME TrainInv, NEW i \in DOMAIN runs, NEW row \in Run,
           runs' = [runs EXCEPT ![i] = row],
           training' = training, trainMode' = trainMode, restarts' = restarts, versions' = versions,
           row.domain = runs[i].domain, row.version = runs[i].version,
           row.thread = "none" \/ runs[i].thread # "none",
           \/ row.status \notin Active
           \/ /\ runs[i].status \in Active \/ IndexAdmits(i, runs[i].domain)
              /\ row.thread \in Working
           \/ runs[i].status \in Active /\ row.lost
           \/ runs[i].status \in Active /\ row.lost = runs[i].lost /\ row.thread = runs[i].thread,
           row.status = "completed" => row.thread = "ended",
           (row.status = "completed" \/ row.thread = "finish") /\ trainMode = "simulation" =>
               row.models = Tasks[row.domain]
    PROVE  TrainInv'
<1>1. training' \in [TrainRequests -> TrainRequest]
  BY DEF TrainInv, TrainTypeOK
<1>2. \A r \in TrainRequests : training'[r] = training[r] \/ training'[r] = NoTrainRequest
  OBVIOUS
<1>3. \A r \in TrainRequests : training[r].pc = "start" =>
        \/ training'[r] = training[r] /\ (training[r].run = i => row.thread = "none")
        \/ training'[r] = NoTrainRequest /\ training[r].run = i
  BY DEF TrainInv, TrainPlaces
<1>4. row.status \in Active => runs[i].status \in Active \/ IndexAdmits(i, runs[i].domain)
  OBVIOUS
<1>5. row.status \in Active /\ ~row.lost =>
        \/ row.thread \in Working
        \/ /\ runs[i].status \in Active /\ ~runs[i].lost /\ row.thread = runs[i].thread
           /\ training' = training
  OBVIOUS
<1>6. /\ row.status = "completed" => row.thread = "ended"
      /\ (row.status = "completed" \/ row.thread = "finish") /\ trainMode = "simulation" =>
           row.models = Tasks[row.domain]
  OBVIOUS
<1>7. RunChange(i, row)
  BY <1>1, <1>2, <1>3, <1>4, <1>5, <1>6 DEF RunChange
<1> QED BY <1>7, RunStep

LEMMA WorkersKeepInv ==
    ASSUME TrainInv, UNCHANGED hubVars, NEW i \in DOMAIN runs, Worker(i) \/ Ages(i)
    PROVE  TrainInv'
<1>1. /\ training \in [TrainRequests -> TrainRequest] /\ runs \in Seq(Run)
      /\ versions' = versions /\ training' = training /\ trainMode' = trainMode /\ restarts' = restarts
  BY DEF TrainInv, TrainTypeOK, hubVars, Worker, Ages, WorkerBegin, WorkerRegister, WorkerFinish, WorkerFail
<1>2. runs[i] \in Run
  BY <1>1
<1>4. /\ runs[i].status = "completed" => runs[i].thread = "ended"
      /\ runs[i].thread = "finish" /\ trainMode = "simulation" => runs[i].models = Tasks[runs[i].domain]
  BY DEF TrainInv, ThreadsDone
<1>5. ASSUME runs[i].thread \in Working, runs' = [runs EXCEPT ![i].thread = "fail"]
      PROVE  TrainInv'
  <2> DEFINE row == [runs[i] EXCEPT !.thread = "fail"]
  <2>1. /\ row \in Run /\ row.domain = runs[i].domain /\ row.version = runs[i].version
        /\ row.status = runs[i].status /\ row.thread = "fail"
    BY <1>2 DEF Run
  <2>2. runs' = [runs EXCEPT ![i] = row]
    BY <1>1, <1>5
  <2> HIDE DEF row
  <2>3. runs[i].thread # "none" /\ runs[i].status # "completed"
    BY <1>4, <1>5 DEF Working
  <2>4. row.status # "completed" /\ row.thread \in Working /\ row.thread # "finish"
    BY <2>1, <2>3 DEF Working
  <2> QED BY <1>1, <2>1, <2>2, <2>3, <2>4, ThreadStep
<1>6. CASE WorkerBegin(i)
  <2>1. runs[i].thread = "begin" /\ runs[i].thread \in Working
    BY <1>6 DEF WorkerBegin, Working
  <2>2. CASE runs' = [runs EXCEPT ![i].thread = "fail"]
    BY <1>5, <2>1, <2>2
  <2>3. ASSUME runs[i].status \in Active \/ IndexAdmits(i, runs[i].domain),
               runs' = [runs EXCEPT ![i].status = "running", ![i].old = FALSE, ![i].thread = "register"]
        PROVE  TrainInv'
    <3> DEFINE row == [runs[i] EXCEPT !.status = "running", !.old = FALSE, !.thread = "register"]
    <3>1. /\ row \in Run /\ row.domain = runs[i].domain /\ row.version = runs[i].version
          /\ row.status = "running" /\ row.thread = "register" /\ row.lost = runs[i].lost
      BY <1>2 DEF Run
    <3>2. runs' = [runs EXCEPT ![i] = row]
      BY <1>1, <1>2, <2>3 DEF Run
    <3> HIDE DEF row
    <3>3. row.thread \in Working
      BY <3>1 DEF Working
    <3> QED BY <1>1, <2>1, <2>3, <3>1, <3>2, <3>3, ThreadStep
  <2> QED BY <1>6, <2>2, <2>3 DEF WorkerBegin
<1>7. CASE WorkerRegister(i)
  <2>1. runs[i].thread = "register" /\ runs[i].thread \in Working
    BY <1>7 DEF WorkerRegister, Working
  <2>2. CASE runs' = [runs EXCEPT ![i].thread = "fail"]
    BY <1>5, <2>1, <2>2
  <2>3. ASSUME NEW t \in Tasks[runs[i].domain], runs' = [runs EXCEPT ![i].models = @ \cup {t}]
        PROVE  TrainInv'
    <3> DEFINE m == runs[i].models \cup {t}
               row == [runs[i] EXCEPT !.models = m]
    <3>1. m \in SUBSET UNION {Tasks[d] : d \in Domains}
      BY <1>2 DEF Run
    <3>2. /\ row \in Run /\ row.domain = runs[i].domain /\ row.version = runs[i].version
          /\ row.status = runs[i].status /\ row.thread = "register" /\ row.lost = runs[i].lost
      <4> HIDE DEF m
      <4> QED BY <1>2, <2>1, <3>1 DEF Run
    <3>3. runs' = [runs EXCEPT ![i] = row]
      BY <1>1, <1>2, <2>3 DEF Run
    <3> HIDE DEF row
    <3>4. row.thread \in Working /\ row.status # "completed" /\ row.thread # "finish" /\ row.thread # "none"
      BY <1>4, <2>1, <3>2 DEF Working
    <3>5. \/ row.status \notin Active
          \/ runs[i].status \in Active /\ row.thread \in Working
      BY <3>2, <3>4
    <3> QED BY <1>1, <2>1, <3>2, <3>3, <3>4, <3>5, ThreadStep
  <2>4. ASSUME trainMode = "simulation" => runs[i].models = Tasks[runs[i].domain],
               runs' = [runs EXCEPT ![i].thread = "finish"]
        PROVE  TrainInv'
    <3> DEFINE row == [runs[i] EXCEPT !.thread = "finish"]
    <3>1. /\ row \in Run /\ row.domain = runs[i].domain /\ row.version = runs[i].version
          /\ row.status = runs[i].status /\ row.thread = "finish" /\ row.models = runs[i].models
      BY <1>2 DEF Run
    <3>2. runs' = [runs EXCEPT ![i] = row]
      BY <1>1, <1>2, <2>4
    <3> HIDE DEF row
    <3>3. row.thread \in Working /\ row.status # "completed"
      BY <1>4, <2>1, <3>1 DEF Working
    <3>4. trainMode = "simulation" => row.models = Tasks[row.domain]
      BY <2>4, <3>1
    <3>5. \/ row.status \notin Active
          \/ runs[i].status \in Active /\ row.thread \in Working
      BY <3>1, <3>3
    <3> QED BY <1>1, <2>1, <3>1, <3>2, <3>3, <3>4, <3>5, ThreadStep
  <2> QED BY <1>7, <2>2, <2>3, <2>4 DEF WorkerRegister
<1>8. CASE WorkerFinish(i)
  <2>1. runs[i].thread = "finish" /\ runs[i].thread \in Working
    BY <1>8 DEF WorkerFinish, Working
  <2>2. CASE runs' = [runs EXCEPT ![i].thread = "fail"]
    BY <1>5, <2>1, <2>2
  <2>3. ASSUME runs' = [runs EXCEPT ![i].status = "completed", ![i].thread = "ended"]
        PROVE  TrainInv'
    <3> DEFINE row == [runs[i] EXCEPT !.status = "completed", !.thread = "ended"]
    <3>1. /\ row \in Run /\ row.domain = runs[i].domain /\ row.version = runs[i].version
          /\ row.status = "completed" /\ row.thread = "ended" /\ row.models = runs[i].models
      BY <1>2 DEF Run
    <3>2. runs' = [runs EXCEPT ![i] = row]
      BY <1>1, <1>2, <2>3 DEF Run
    <3> HIDE DEF row
    <3>3. row.status \notin Active
      BY <3>1 DEF Active
    <3> QED BY <1>1, <1>4, <2>1, <3>1, <3>2, <3>3, ThreadStep
  <2> QED BY <1>8, <2>2, <2>3 DEF WorkerFinish
<1>9. CASE WorkerFail(i)
  <2>1. runs[i].thread = "fail" /\ runs[i].status # "completed"
    BY <1>4, <1>9 DEF WorkerFail
  <2>2. ASSUME runs' = [runs EXCEPT ![i].status = "failed", ![i].thread = "ended"]
        PROVE  TrainInv'
    <3> DEFINE row == [runs[i] EXCEPT !.status = "failed", !.thread = "ended"]
    <3>1. /\ row \in Run /\ row.domain = runs[i].domain /\ row.version = runs[i].version
          /\ row.status = "failed" /\ row.thread = "ended"
      BY <1>2 DEF Run
    <3>2. runs' = [runs EXCEPT ![i] = row]
      BY <1>1, <1>2, <2>2 DEF Run
    <3> HIDE DEF row
    <3>3. row.status \notin Active
      BY <3>1 DEF Active
    <3> QED BY <1>1, <2>1, <3>1, <3>2, <3>3, ThreadStep
  <2>3. ASSUME runs' = [runs EXCEPT ![i].thread = "ended", ![i].lost = TRUE]
        PROVE  TrainInv'
    <3> DEFINE row == [runs[i] EXCEPT !.thread = "ended", !.lost = TRUE]
    <3>1. /\ row \in Run /\ row.domain = runs[i].domain /\ row.version = runs[i].version
          /\ row.status = runs[i].status /\ row.thread = "ended" /\ row.lost
      BY <1>2 DEF Run
    <3>2. runs' = [runs EXCEPT ![i] = row]
      BY <1>1, <1>2, <2>3 DEF Run
    <3> HIDE DEF row
    <3> QED BY <1>1, <2>1, <3>1, <3>2, ThreadStep
  <2> QED BY <1>9, <2>2, <2>3 DEF WorkerFail
<1>10. CASE Ages(i)
  <2> DEFINE row == [runs[i] EXCEPT !.old = TRUE]
  <2>1. /\ row \in Run /\ row.domain = runs[i].domain /\ row.version = runs[i].version
        /\ row.status = runs[i].status /\ row.thread = runs[i].thread /\ row.lost = runs[i].lost
        /\ row.models = runs[i].models
    BY <1>2 DEF Run
  <2>2. runs' = [runs EXCEPT ![i] = row] /\ runs[i].status = "running"
    BY <1>1, <1>10 DEF Ages
  <2> HIDE DEF row
  <2>3. runs[i].status \in Active /\ row.status # "completed"
    BY <2>1, <2>2 DEF Active
  <2>4. row.lost = runs[i].lost /\ row.lost \in BOOLEAN
    BY <2>1 DEF Run
  <2> QED BY <1>1, <1>4, <2>1, <2>2, <2>3, <2>4, ThreadStep
<1> QED BY <1>6, <1>7, <1>8, <1>9, <1>10 DEF Worker

LEMMA StartKeepsInv ==
    ASSUME TrainInv, UNCHANGED hubVars, NEW r \in TrainRequests, TriggerStart(r)
    PROVE  TrainInv'
<1> DEFINE i == training[r].run
           row == [runs[i] EXCEPT !.thread = "begin"]
<1>1. training \in [TrainRequests -> TrainRequest] /\ runs \in Seq(Run) /\ versions' = versions
  BY DEF TrainInv, TrainTypeOK, hubVars
<1>2. /\ training[r].pc = "start" /\ training' = [training EXCEPT ![r] = NoTrainRequest]
      /\ trainMode' = trainMode /\ restarts' = restarts
  BY DEF TriggerStart, TrainAnswer
<1>3. i \in DOMAIN runs /\ runs[i].thread = "none"
  BY <1>2 DEF TrainInv, TrainPlaces
<1>4. runs[i] \in Run /\ runs[i].status # "completed"
  BY <1>1, <1>3 DEF TrainInv, ThreadsDone
<1>5. /\ row \in Run /\ row.domain = runs[i].domain /\ row.version = runs[i].version
      /\ row.status = runs[i].status /\ row.thread = "begin"
  BY <1>4 DEF Run
<1>6. runs' = [runs EXCEPT ![i] = row]
  BY <1>1, <1>3 DEF TriggerStart
<1>7. /\ training' \in [TrainRequests -> TrainRequest] /\ training'[r] = NoTrainRequest
      /\ \A s \in TrainRequests : s # r => training'[s] = training[s]
  BY <1>1, <1>2, NoTrainRequestType
<1>8. \A s \in TrainRequests : training[s].pc = "start" /\ s # r => training[s].run # i
  BY <1>2 DEF TrainInv, OneTrigger
<1> HIDE DEF row, i
<1>9. \A s \in TrainRequests : training'[s] = training[s] \/ training'[s] = NoTrainRequest
  BY <1>7
<1>10. \A s \in TrainRequests : training[s].pc = "start" =>
         \/ training'[s] = training[s] /\ (training[s].run = i => row.thread = "none")
         \/ training'[s] = NoTrainRequest /\ training[s].run = i
  BY <1>7, <1>8 DEF i
<1>11. /\ row.status # "completed" /\ row.thread # "finish" /\ row.thread \in Working
       /\ row.status \in Active => runs[i].status \in Active
  BY <1>4, <1>5 DEF Working
<1>12. RunChange(i, row)
  BY <1>1, <1>2, <1>5, <1>6, <1>7, <1>9, <1>10, <1>11 DEF RunChange
<1> QED BY <1>3, <1>5, <1>12, RunStep

LEMMA CancelKeepsInv ==
    ASSUME TrainInv, UNCHANGED hubVars, NEW r \in TrainRequests, CancelCommit(r)
    PROVE  TrainInv'
<1> DEFINE i == training[r].run
           row == [runs[i] EXCEPT !.status = "cancelled"]
<1>1. training \in [TrainRequests -> TrainRequest] /\ runs \in Seq(Run) /\ versions' = versions
  BY DEF TrainInv, TrainTypeOK, hubVars
<1>2. /\ training[r].pc = "cancel" /\ training' = [training EXCEPT ![r] = NoTrainRequest]
      /\ trainMode' = trainMode /\ restarts' = restarts
  BY DEF CancelCommit, TrainAnswer
<1>3. i \in DOMAIN runs
  BY <1>2 DEF TrainInv, TrainPlaces
<1>4. runs[i] \in Run
  BY <1>1, <1>3
<1>5. /\ row \in Run /\ row.domain = runs[i].domain /\ row.version = runs[i].version
      /\ row.status = "cancelled" /\ row.thread = runs[i].thread /\ row.models = runs[i].models
  BY <1>4 DEF Run
<1>6. runs' = [runs EXCEPT ![i] = row]
  BY <1>1, <1>3 DEF CancelCommit
<1>7. /\ training' \in [TrainRequests -> TrainRequest] /\ training'[r] = NoTrainRequest
      /\ \A s \in TrainRequests : s # r => training'[s] = training[s]
  BY <1>1, <1>2, NoTrainRequestType
<1>8. \A s \in TrainRequests : training[s].pc = "start" /\ training[s].run = i => runs[i].thread = "none"
  BY DEF TrainInv, TrainPlaces
<1>9. runs[i].thread = "finish" /\ trainMode = "simulation" => runs[i].models = Tasks[runs[i].domain]
  BY <1>3 DEF TrainInv, ThreadsDone
<1> HIDE DEF row, i
<1>10. \A s \in TrainRequests : training'[s] = training[s] \/ training'[s] = NoTrainRequest
  BY <1>7
<1>11. \A s \in TrainRequests : training[s].pc = "start" =>
         \/ training'[s] = training[s] /\ (training[s].run = i => row.thread = "none")
         \/ training'[s] = NoTrainRequest /\ training[s].run = i
  BY <1>2, <1>5, <1>7, <1>8
<1>12. row.status # "completed" /\ row.status \notin Active
  BY <1>5 DEF Active
<1>13. row.thread = "finish" /\ trainMode = "simulation" => row.models = Tasks[row.domain]
  BY <1>5, <1>9
<1>14. RunChange(i, row)
  BY <1>1, <1>2, <1>5, <1>6, <1>7, <1>10, <1>11, <1>12, <1>13 DEF RunChange
<1> QED BY <1>3, <1>5, <1>14, RunStep

LEMMA AbandonKeepsInv ==
    ASSUME TrainInv, UNCHANGED hubVars, NEW r \in TrainRequests, TriggerAbandon(r)
    PROVE  TrainInv'
<1> DEFINE q == [training[r] EXCEPT !.pc = "insert"]
<1>1. training \in [TrainRequests -> TrainRequest] /\ runs \in Seq(Run) /\ versions' = versions
  BY DEF TrainInv, TrainTypeOK, hubVars
<1>2. training[r].pc = "abandon" /\ trainMode' = trainMode /\ restarts' = restarts
  BY DEF TriggerAbandon
<1>3. training[r] \in TrainRequest
  BY <1>1
<1>4. q \in TrainRequest /\ q.pc = "insert" /\ q.version = training[r].version
  BY <1>3 DEF TrainRequest
<1>5. training' = [training EXCEPT ![r] = q]
  BY <1>1 DEF TriggerAbandon
<1>6. q.version = 0 \/ Passed(q.version)
  BY <1>2, <1>4 DEF TrainInv, TrainPlaces
<1> HIDE DEF q
<1>7. CASE runs' = runs
  BY <1>1, <1>2, <1>4, <1>5, <1>6, <1>7, TrainRequestStep
<1>8. ASSUME runs' = [i \in DOMAIN runs |->
                IF /\ runs[i].domain = training[r].domain
                   /\ runs[i].status = "running" /\ runs[i].old
                THEN [runs[i] EXCEPT !.status = "abandoned"] ELSE runs[i]]
      PROVE  TrainInv'
  <2>1. \A i \in DOMAIN runs :
          /\ runs'[i] \in Run
          /\ \/ runs'[i] = runs[i]
             \/ /\ runs'[i].status = "abandoned" /\ runs'[i].thread = runs[i].thread
                /\ runs'[i].domain = runs[i].domain /\ runs'[i].version = runs[i].version
                /\ runs'[i].models = runs[i].models /\ runs'[i].lost = runs[i].lost
    <3> SUFFICES ASSUME NEW i \in DOMAIN runs
                 PROVE  /\ runs'[i] \in Run
                        /\ \/ runs'[i] = runs[i]
                           \/ /\ runs'[i].status = "abandoned" /\ runs'[i].thread = runs[i].thread
                              /\ runs'[i].domain = runs[i].domain /\ runs'[i].version = runs[i].version
                              /\ runs'[i].models = runs[i].models /\ runs'[i].lost = runs[i].lost
      OBVIOUS
    <3>1. runs[i] \in Run
      BY <1>1
    <3>2. CASE runs'[i] = runs[i]
      BY <3>1, <3>2
    <3>3. CASE runs'[i] = [runs[i] EXCEPT !.status = "abandoned"]
      BY <3>1, <3>3 DEF Run
    <3> QED BY <1>8, <3>2, <3>3
  <2>2. DOMAIN runs' = DOMAIN runs
    BY <1>8
  <2>3. runs' \in Seq(Run)
    <3>1. runs' \in [1 .. Len(runs) -> Run]
      BY <1>1, <1>8, <2>1
    <3>2. Len(runs) \in Nat
      BY <1>1
    <3> QED BY <3>1, <3>2
  <2>4. /\ training' \in [TrainRequests -> TrainRequest] /\ training'[r] = q
        /\ \A s \in TrainRequests : s # r => training'[s] = training[s]
    BY <1>1, <1>4, <1>5
  <2>5. TrainTypeOK'
    BY <1>2, <2>3, <2>4 DEF TrainInv, TrainTypeOK
  <2>6. \A i \in DOMAIN runs : runs'[i].thread = runs[i].thread /\ runs'[i].version = runs[i].version
    BY <2>1
  <2>7. TrainPlaces'
    <3> SUFFICES ASSUME NEW s \in TrainRequests
                 PROVE  /\ training'[s].pc \in {"start", "cancel"} => training'[s].run \in DOMAIN runs'
                        /\ training'[s].pc = "start" => runs'[training'[s].run].thread = "none"
                        /\ training'[s].pc \in {"abandon", "insert"} =>
                             training'[s].version = 0 \/ Passed(training[s].version)'
      BY DEF TrainPlaces
    <3>1. CASE s = r
      BY <1>1, <1>4, <1>6, <2>4, <3>1 DEF Passed
    <3>2. CASE s # r
      <4>1. training'[s] = training[s]
        BY <2>4, <3>2
      <4>2. /\ training[s].pc \in {"start", "cancel"} => training[s].run \in DOMAIN runs
            /\ training[s].pc = "start" => runs[training[s].run].thread = "none"
            /\ training[s].pc \in {"abandon", "insert"} => training[s].version = 0 \/ Passed(training[s].version)
        BY DEF TrainInv, TrainPlaces
      <4> QED BY <1>1, <2>2, <2>6, <4>1, <4>2 DEF Passed
    <3> QED BY <3>1, <3>2
  <2>8. OneTrigger'
    BY <1>4, <2>4 DEF TrainInv, OneTrigger
  <2>9. ThreadsDone' /\ CompletedHasChallengers'
    BY <1>2, <2>1, <2>2 DEF TrainInv, ThreadsDone, CompletedHasChallengers
  <2>10. RunData'
    BY <1>1, <2>2, <2>6 DEF TrainInv, RunData, Passed
  <2>11. \A i \in DOMAIN runs : runs'[i].status \in Active => runs'[i] = runs[i]
    BY <2>1 DEF Active
  <2>12. OneActiveRun'
    BY <2>2, <2>11 DEF TrainInv, OneActiveRun
  <2>13. ActiveHasThread'
    <3>1. \A s \in TrainRequests : training[s].pc = "start" => training'[s] = training[s]
      BY <1>2, <2>4
    <3> QED BY <2>2, <2>11, <3>1 DEF TrainInv, ActiveHasThread
  <2> QED BY <2>5, <2>7, <2>8, <2>9, <2>10, <2>12, <2>13 DEF TrainInv
<1> QED BY <1>7, <1>8 DEF TriggerAbandon

(* The index admits a run only when its domain has no active one.            *)
LEMMA InsertKeepsInv ==
    ASSUME TrainInv, UNCHANGED hubVars, NEW r \in TrainRequests, TriggerInsert(r)
    PROVE  TrainInv'
<1> DEFINE d == training[r].domain
           n == Len(runs) + 1
<1>1. training \in [TrainRequests -> TrainRequest] /\ runs \in Seq(Run) /\ versions' = versions
  BY DEF TrainInv, TrainTypeOK, hubVars
<1>2. training[r].pc = "insert" /\ trainMode' = trainMode /\ restarts' = restarts
  BY DEF TriggerInsert
<1>3. training[r] \in TrainRequest
  BY <1>1
<1>4. d \in Domains /\ training[r].version \in Nat
  BY <1>3 DEF TrainRequest
<1>5. training[r].version = 0 \/ Passed(training[r].version)
  BY <1>2 DEF TrainInv, TrainPlaces
<1>6. CASE training' = [training EXCEPT ![r] = NoTrainRequest] /\ runs' = runs
  <2>1. NoTrainRequest.pc = "idle" /\ NoTrainRequest \in TrainRequest
    BY NoTrainRequestType DEF NoTrainRequest
  <2> QED BY <1>1, <1>2, <1>6, <2>1, TrainRequestStep
<1>7. ASSUME IndexAdmits(n, d),
             runs' = Append(runs,
                   [domain |-> d, version |-> training[r].version, status |-> "queued",
                    old |-> FALSE, thread |-> "none", models |-> {}, lost |-> FALSE]),
             training' = [training EXCEPT ![r].pc = "start", ![r].run = n]
      PROVE  TrainInv'
  <2> DEFINE row == [domain |-> d, version |-> training[r].version, status |-> "queued",
                     old |-> FALSE, thread |-> "none", models |-> {}, lost |-> FALSE]
             q == [training[r] EXCEPT !.pc = "start", !.run = n]
  <2>1. Len(runs) \in Nat /\ n \in Nat /\ DOMAIN runs = 1 .. Len(runs) /\ n \notin DOMAIN runs
    BY <1>1
  <2>2. /\ row \in Run /\ row.domain = d /\ row.version = training[r].version /\ row.status = "queued"
        /\ row.thread = "none"
    <3> HIDE DEF d
    <3> QED BY <1>4 DEF Run
  <2>3. q \in TrainRequest /\ q.pc = "start" /\ q.run = n
    <3> HIDE DEF n
    <3> QED BY <1>3, <2>1 DEF TrainRequest
  <2>4. training' = [training EXCEPT ![r] = q]
    BY <1>1, <1>7
  <2> HIDE DEF q
  <2>5. /\ training' \in [TrainRequests -> TrainRequest] /\ training'[r] = q
        /\ \A s \in TrainRequests : s # r => training'[s] = training[s]
    BY <1>1, <2>3, <2>4
  <2>6. /\ runs' \in Seq(Run) /\ DOMAIN runs' = DOMAIN runs \cup {n} /\ runs'[n] = row
        /\ \A i \in DOMAIN runs : runs'[i] = runs[i]
    <3>1. runs' = Append(runs, row)
      BY <1>7
    <3> HIDE DEF row
    <3> QED BY <1>1, <2>1, <2>2, <3>1
  <2> HIDE DEF row, n, d
  <2>7. TrainTypeOK'
    BY <1>2, <2>5, <2>6 DEF TrainInv, TrainTypeOK
  <2>8. \A s \in TrainRequests : training[s].pc = "start" => training[s].run \in DOMAIN runs
    BY DEF TrainInv, TrainPlaces
  <2>9. TrainPlaces'
    <3> SUFFICES ASSUME NEW s \in TrainRequests
                 PROVE  /\ training'[s].pc \in {"start", "cancel"} => training'[s].run \in DOMAIN runs'
                        /\ training'[s].pc = "start" => runs'[training'[s].run].thread = "none"
                        /\ training'[s].pc \in {"abandon", "insert"} =>
                             training'[s].version = 0 \/ Passed(training[s].version)'
      BY DEF TrainPlaces
    <3>1. CASE s = r
      BY <2>2, <2>3, <2>5, <2>6, <3>1
    <3>2. CASE s # r
      <4>1. training'[s] = training[s]
        BY <2>5, <3>2
      <4>2. /\ training[s].pc \in {"start", "cancel"} => training[s].run \in DOMAIN runs
            /\ training[s].pc = "start" => runs[training[s].run].thread = "none"
            /\ training[s].pc \in {"abandon", "insert"} => training[s].version = 0 \/ Passed(training[s].version)
        BY DEF TrainInv, TrainPlaces
      <4> QED BY <1>1, <2>6, <4>1, <4>2 DEF Passed
    <3> QED BY <3>1, <3>2
  <2>10. OneTrigger'
    BY <2>1, <2>3, <2>5, <2>8 DEF TrainInv, OneTrigger
  <2>11. ThreadsDone' /\ CompletedHasChallengers'
    BY <1>2, <2>2, <2>6 DEF TrainInv, ThreadsDone, CompletedHasChallengers
  <2>12. RunData'
    BY <1>1, <1>5, <2>2, <2>6 DEF TrainInv, RunData, Passed
  <2>13. OneActiveRun'
    <3>1. \A j \in DOMAIN runs : ~(runs[j].domain = d /\ runs[j].status \in Active)
      BY <1>7, <2>1 DEF IndexAdmits, n, d
    <3>2. \A i, j \in DOMAIN runs :
            runs[i].status \in Active /\ runs[j].status \in Active /\ runs[i].domain = runs[j].domain => i = j
      BY DEF TrainInv, OneActiveRun
    <3> QED BY <2>2, <2>6, <3>1, <3>2 DEF OneActiveRun
  <2>14. ActiveHasThread'
    <3>1. \A s \in TrainRequests : training[s].pc = "start" => training'[s] = training[s]
      BY <1>2, <2>5
    <3> SUFFICES ASSUME NEW i \in DOMAIN runs', runs'[i].status \in Active, ~runs'[i].lost
                 PROVE  \/ runs'[i].thread \in {"begin", "register", "finish", "fail"}
                        \/ \E s \in TrainRequests : training'[s].pc = "start" /\ training'[s].run = i
      BY DEF ActiveHasThread
    <3>2. CASE i = n
      BY <2>3, <2>5, <3>2
    <3>3. CASE i \in DOMAIN runs
      BY <2>6, <3>1, <3>3 DEF TrainInv, ActiveHasThread
    <3> QED BY <2>6, <3>2, <3>3
  <2> QED BY <2>7, <2>9, <2>10, <2>11, <2>12, <2>13, <2>14 DEF TrainInv
<1> HIDE DEF n, d
<1>8. \/ training' = [training EXCEPT ![r] = NoTrainRequest] /\ runs' = runs
      \/ /\ IndexAdmits(n, d)
         /\ runs' = Append(runs,
                   [domain |-> d, version |-> training[r].version, status |-> "queued",
                    old |-> FALSE, thread |-> "none", models |-> {}, lost |-> FALSE])
         /\ training' = [training EXCEPT ![r].pc = "start", ![r].run = n]
  BY DEF TriggerInsert, TrainAnswer, n, d
<1> QED BY <1>6, <1>7, <1>8

LEMMA RestartKeepsInv ==
    ASSUME TrainInv, UNCHANGED hubVars, Restart
    PROVE  TrainInv'
<1>1. /\ training \in [TrainRequests -> TrainRequest] /\ runs \in Seq(Run) /\ versions' = versions
      /\ trainMode \in Modes /\ restarts \in 0 .. MaxRestarts
  BY DEF TrainInv, TrainTypeOK, hubVars
<1>2. /\ trainMode' = trainMode /\ restarts' \in 0 .. MaxRestarts
      /\ training' = [r \in TrainRequests |-> NoTrainRequest]
  <2>1. /\ trainMode' = trainMode /\ restarts < MaxRestarts /\ restarts' = restarts + 1
        /\ training' = [r \in TrainRequests |-> NoTrainRequest]
    BY ZenonT(30) DEF Restart
  <2>2. restarts' \in 0 .. MaxRestarts
    BY <1>1, <2>1, TrainingBoundsAssumption
  <2> QED BY <2>1, <2>2
<1>3. /\ NoTrainRequest.pc = "idle" /\ training' \in [TrainRequests -> TrainRequest]
      /\ \A r \in TrainRequests : training'[r] = NoTrainRequest
  BY <1>2, NoTrainRequestType DEF NoTrainRequest
<1>4. \A i \in DOMAIN runs :
        /\ runs'[i] \in Run
        /\ runs'[i].thread = "ended"
        /\ runs'[i].status = runs[i].status /\ runs'[i].domain = runs[i].domain
        /\ runs'[i].version = runs[i].version /\ runs'[i].models = runs[i].models
        /\ runs'[i].lost \/ runs'[i] = runs[i]
  <2> SUFFICES ASSUME NEW i \in DOMAIN runs
               PROVE  /\ runs'[i] \in Run
                      /\ runs'[i].thread = "ended"
                      /\ runs'[i].status = runs[i].status /\ runs'[i].domain = runs[i].domain
                      /\ runs'[i].version = runs[i].version /\ runs'[i].models = runs[i].models
                      /\ runs'[i].lost \/ runs'[i] = runs[i]
    OBVIOUS
  <2>1. runs[i] \in Run
    BY <1>1
  <2>2. CASE runs[i].thread = "ended"
    <3>1. runs'[i] = runs[i]
      BY <2>2 DEF Restart
    <3> QED BY <2>1, <2>2, <3>1
  <2>3. CASE runs[i].thread # "ended"
    <3>1. runs'[i] = [runs[i] EXCEPT !.thread = "ended", !.lost = TRUE]
      BY <2>3 DEF Restart
    <3> QED BY <2>1, <3>1 DEF Run
  <2> QED BY <2>2, <2>3
<1>5. DOMAIN runs' = DOMAIN runs
  BY DEF Restart
<1>6. runs' \in Seq(Run)
  <2>1. DOMAIN runs = 1 .. Len(runs) /\ Len(runs) \in Nat
    BY <1>1
  <2>2. runs' = [i \in DOMAIN runs |-> runs'[i]]
    BY ZenonT(30) DEF Restart
  <2>3. runs' \in [1 .. Len(runs) -> Run]
    BY <1>4, <2>1, <2>2
  <2> QED BY <2>1, <2>3
<1>7. TrainTypeOK'
  BY <1>1, <1>2, <1>3, <1>6 DEF TrainTypeOK
<1>8. TrainPlaces' /\ OneTrigger'
  BY <1>3 DEF TrainPlaces, OneTrigger
<1>9. ThreadsDone' /\ CompletedHasChallengers'
  BY <1>2, <1>4, <1>5 DEF TrainInv, ThreadsDone, CompletedHasChallengers
<1>10. RunData'
  BY <1>1, <1>4, <1>5 DEF TrainInv, RunData, Passed
<1>11. OneActiveRun'
  BY <1>4, <1>5 DEF TrainInv, OneActiveRun
<1>12. ActiveHasThread'
  <2> SUFFICES ASSUME NEW i \in DOMAIN runs, runs'[i].status \in Active, ~runs'[i].lost
               PROVE  FALSE
    BY <1>5 DEF ActiveHasThread
  <2>1. runs'[i] = runs[i] /\ runs[i].thread = "ended"
    BY <1>4
  <2>2. PICK r \in TrainRequests : training[r].pc = "start" /\ training[r].run = i
    BY <2>1 DEF TrainInv, ActiveHasThread
  <2>3. runs[i].thread = "none"
    BY <2>2 DEF TrainInv, TrainPlaces
  <2> QED BY <2>1, <2>3
<1> QED BY <1>7, <1>8, <1>9, <1>10, <1>11, <1>12 DEF TrainInv

LEMMA TrainInvNext ==
    ASSUME TrainInv, HubInv, TrainNext, UNCHANGED hubVars
    PROVE  TrainInv'
<1>1. HubTypeOK /\ UsableHasPassed
  BY DEF HubInv
<1>2. ASSUME NEW r \in TrainRequests, TrainStep(r) PROVE TrainInv'
  BY <1>1, <1>2, TrainReadsKeepInv, AbandonKeepsInv, InsertKeepsInv, StartKeepsInv, CancelKeepsInv DEF TrainStep
<1>3. ASSUME NEW i \in DOMAIN runs, Worker(i) \/ Ages(i) PROVE TrainInv'
  BY <1>3, WorkersKeepInv
<1> QED BY <1>2, <1>3, RestartKeepsInv DEF TrainNext

LEMMA TrainInvAlways == TrainSpec => [](HubInv /\ TrainInv)
<1>1. HubInit /\ TrainInit => HubInv /\ TrainInv
  BY HubInvInit, TrainInvInit
<1>2. ASSUME HubInv, TrainInv,
             [(HubNext /\ UNCHANGED trainVars) \/ (TrainNext /\ UNCHANGED hubVars)]_<<hubVars, trainVars>>
      PROVE  HubInv' /\ TrainInv'
  <2>1. CASE HubNext /\ UNCHANGED trainVars
    BY <1>2, <2>1, HubInvNext, HubKeepsTrainInv
  <2>2. CASE TrainNext /\ UNCHANGED hubVars
    BY <1>2, <2>2, HubInvNext, TrainInvNext
  <2>3. CASE UNCHANGED <<hubVars, trainVars>>
    BY <1>2, <2>3, HubInvNext, HubKeepsTrainInv
  <2> QED BY <1>2, <2>1, <2>2, <2>3
<1> QED BY <1>1, <1>2, PTL DEF TrainSpec

(* Every run and every request of the training service has its type, for any  *)
(* number of requests, runs and restarts (training.py, init.sql:262).        *)
THEOREM TrainTypeCorrect == TrainSpec => []TrainTypeOK
<1>1. TrainInv => TrainTypeOK
  BY DEF TrainInv
<1> QED BY <1>1, TrainInvAlways, PTL

(* A domain never has two active runs, although threads set runs running that *)
(* were cancelled or abandoned meanwhile (training.py:92, :213).             *)
THEOREM ActiveRunsAreAlone == TrainSpec => []OneActiveRun
<1>1. TrainInv => OneActiveRun
  BY DEF TrainInv
<1> QED BY <1>1, TrainInvAlways, PTL

(* Only a restart or a failed last UPDATE leaves an active run without a       *)
(* thread: cancellation and abandonment do not (training.py:316, :465).      *)
THEOREM ActiveRunsAreCarried == TrainSpec => []ActiveHasThread
<1>1. TrainInv => ActiveHasThread
  BY DEF TrainInv
<1> QED BY <1>1, TrainInvAlways, PTL

(* A simulated run is completed only with a challenger for every task.        *)
THEOREM CompletedRunsAreWhole == TrainSpec => []CompletedHasChallengers
<1>1. TrainInv => CompletedHasChallengers
  BY DEF TrainInv
<1> QED BY <1>1, TrainInvAlways, PTL

(* The data of a run has passed validation, whatever the data hub does with   *)
(* its version between the trigger's check and the insertion.                *)
THEOREM RunsTrainOnPassedData == TrainSpec => []RunDataPassed
<1>1. TrainInv => RunDataPassed
  BY DEF TrainInv, RunData, RunDataPassed, Passed
<1> QED BY <1>1, TrainInvAlways, PTL

(* Training is sound, with the data hub at work beside it, for any         *)
(* triggers, cancellations and restarts.                                   *)
THEOREM TrainingIsSound == TrainSpec => []TrainingSound
<1>1. (/\ TrainTypeOK
       /\ OneActiveRun
       /\ ActiveHasThread
       /\ CompletedHasChallengers
       /\ RunDataPassed) => TrainingSound
  BY DEF TrainingSound
<1>2. QED
  BY <1>1, TrainTypeCorrect, ActiveRunsAreAlone, ActiveRunsAreCarried,
     CompletedRunsAreWhole, RunsTrainOnPassedData, PTL
=============================================================================
