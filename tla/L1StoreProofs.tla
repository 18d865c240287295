---------------------------- MODULE L1StoreProofs ---------------------------
(***************************************************************************)
(* What the operations of the L1 micro-cache do to its store, for every    *)
(* store, key and pattern: which entries they leave, in which order, and   *)
(* how many.  Both the model of the store on its own and the model of the  *)
(* tiers rest on these facts.                                              *)
(***************************************************************************)
EXTENDS L1Store, FiniteSetTheorems, TLAPS

(* One entry per key, as in the OrderedDict.                               *)
KeysDistinct(store) ==
    \A i, j \in DOMAIN store : store[i].key = store[j].key => i = j

(* What a deletion leaves of a store, when `origin' says where each entry  *)
(* that is left was: no entry moves past another, none is lost but those   *)
(* the pattern matches.                                                    *)
Remains(rest, store, pattern, origin) ==
    /\ origin \in [DOMAIN rest -> DOMAIN store]
    /\ \A n \in DOMAIN rest :
          rest[n] = store[origin[n]] /\ rest[n].key \notin pattern
    /\ \A m, n \in DOMAIN rest : m < n => origin[m] < origin[n]
    /\ \A i \in DOMAIN store :
          store[i].key \notin pattern => \E n \in DOMAIN rest : origin[n] = i

(* The places of the positions that stay are 1, 2, ... in their order.     *)
LEMMA Places ==
    ASSUME NEW n \in Nat, NEW S \in SUBSET (1..n)
    PROVE  /\ Cardinality(S) \in 0..n
           /\ Cardinality(S) = n => S = 1..n
           /\ \A i \in S : Place(S, i) \in 1..Cardinality(S)
           /\ \A i, j \in S : i < j => Place(S, i) < Place(S, j)
           /\ \A m \in 1..Cardinality(S) : \E i \in S : Place(S, i) = m
<1> DEFINE c == Cardinality(S)
           Below(i) == {j \in S : j <= i}
<1>0. \A i \in S : i \in Nat
  OBVIOUS
<1>1. IsFiniteSet(1..n) /\ Cardinality(1..n) = n
  BY FS_Interval
<1>2. /\ IsFiniteSet(S) /\ c \in Nat /\ c <= n
      /\ c = n => S = 1..n
  BY <1>1, FS_Subset, FS_CardinalityType
<1>a. ASSUME NEW i \in S PROVE IsFiniteSet(Below(i)) /\ Below(i) # {} /\ Cardinality(Below(i)) <= c
  <2>1. Below(i) \in SUBSET S /\ Below(i) # {}
    BY <1>0
  <2> QED
    BY <1>2, <2>1, FS_Subset
<1>3. ASSUME NEW i \in S PROVE Place(S, i) \in Nat /\ 1 <= Place(S, i) /\ Place(S, i) <= c
  <2>1. Place(S, i) = Cardinality(Below(i))
    BY DEF Place
  <2>2. Cardinality(Below(i)) \in Nat /\ Cardinality(Below(i)) # 0 /\ Cardinality(Below(i)) <= c
    BY <1>a, FS_CardinalityType, FS_EmptySet
  <2> QED
    BY <2>1, <2>2
<1>4. ASSUME NEW i \in S, NEW j \in S, i < j PROVE Place(S, i) < Place(S, j)
  <2>1. i \in Nat /\ j \in Nat /\ S \subseteq Nat
    BY <1>0
  <2>2. /\ \A x \in S : x <= i => x <= j
        /\ j <= j /\ ~(j <= i)
    BY <1>4, <2>1
  <2>5. Below(i) \in SUBSET Below(j) /\ j \in Below(j) /\ j \notin Below(i)
    BY <2>2
  <2>3. Cardinality(Below(i)) <= Cardinality(Below(j)) /\ Cardinality(Below(i)) # Cardinality(Below(j))
    BY <1>a, <2>5, FS_Subset
  <2>4. Place(S, i) \in Nat /\ Place(S, j) \in Nat
    BY <1>3
  <2> QED
    BY <2>3, <2>4 DEF Place
<1>5. ASSUME NEW m \in 1..c PROVE \E i \in S : Place(S, i) = m
  <2> DEFINE f == [i \in S |-> Place(S, i)]
  <2>1. f \in Injection(S, 1..c)
    <3>1. f \in [S -> 1..c]
      BY <1>2, <1>3
    <3>2. \A i, j \in S : f[i] = f[j] => i = j
      <4> SUFFICES ASSUME NEW i \in S, NEW j \in S, f[i] = f[j] PROVE i = j
        OBVIOUS
      <4>1. Place(S, i) = Place(S, j) /\ Place(S, i) \in Nat /\ i \in Nat /\ j \in Nat
        BY <1>0, <1>3
      <4> QED
        BY <4>1, <1>4
    <3> QED
      BY <3>1, <3>2 DEF Injection, IsInjective
  <2>2. IsFiniteSet(1..c) /\ Cardinality(1..c) = c
    BY <1>2, FS_Interval
  <2> HIDE DEF f
  <2>3. f \in Surjection(S, 1..c)
    BY <2>1, <2>2, FS_Injection
  <2>4. \E i \in S : f[i] = m
    BY <2>3 DEF Surjection
  <2> QED
    BY <2>4 DEF f
<1>6. \A i \in S : Place(S, i) \in 1..c
  BY <1>2, <1>3
<1>7. c \in 0..n
  BY <1>2
<1> QED
  BY <1>2, <1>4, <1>5, <1>6, <1>7

(* Some position is the first and some the last.                           *)
LEMMA Extremes ==
    ASSUME NEW n \in Nat, NEW S \in SUBSET (1..n), S # {}
    PROVE  /\ \E i \in S : \A j \in S : i <= j
           /\ \E i \in S : \A j \in S : j <= i
<1>1. /\ Cardinality(S) \in 0..n
      /\ \A i \in S : Place(S, i) \in 1..Cardinality(S)
      /\ \A i, j \in S : i < j => Place(S, i) < Place(S, j)
      /\ \A m \in 1..Cardinality(S) : \E i \in S : Place(S, i) = m
  <2>1. n \in Nat /\ S \in SUBSET (1..n)
    OBVIOUS
  <2> QED
    BY <2>1, Places
<1>2. 1 \in 1..Cardinality(S) /\ Cardinality(S) \in 1..Cardinality(S) /\ Cardinality(S) \in Nat
  <2>1. PICK i \in S : TRUE
    OBVIOUS
  <2>2. Place(S, i) \in 1..Cardinality(S) /\ Cardinality(S) \in Nat
    BY <1>1
  <2> QED
    BY <2>2
<1>3. PICK first \in S : Place(S, first) = 1
  BY <1>1, <1>2
<1>4. PICK last \in S : Place(S, last) = Cardinality(S)
  BY <1>1, <1>2
<1>5. \A j \in S : first <= j
  <2> SUFFICES ASSUME NEW j \in S, ~(first <= j) PROVE FALSE
    OBVIOUS
  <2>1. Place(S, j) < Place(S, first) /\ Place(S, j) \in 1..Cardinality(S)
    BY <1>1
  <2> QED
    BY <1>2, <1>3, <2>1
<1>6. \A j \in S : j <= last
  <2> SUFFICES ASSUME NEW j \in S, ~(j <= last) PROVE FALSE
    OBVIOUS
  <2>1. Place(S, last) < Place(S, j) /\ Place(S, j) \in 1..Cardinality(S)
    BY <1>1
  <2> QED
    BY <1>2, <1>4, <2>1
<1> QED
  BY <1>5, <1>6

(* The elements that are picked come in their order, each from a position  *)
(* of its own, and none is left out.                                       *)
Follows(part, s, positions, origin) ==
    /\ origin \in [DOMAIN part -> positions]
    /\ \A n \in DOMAIN part : part[n] = s[origin[n]]
    /\ \A m, n \in DOMAIN part : m < n => origin[m] < origin[n]
    /\ \A i \in positions : \E n \in DOMAIN part : origin[n] = i

LEMMA PickedFacts ==
    ASSUME NEW E, NEW s \in Seq(E), NEW S \in SUBSET (DOMAIN s)
    PROVE  LET part == Picked(s, S)
           IN  /\ part \in Seq(E) /\ Len(part) = Cardinality(S)
               /\ Len(part) <= Len(s)
               /\ S # DOMAIN s => Len(part) < Len(s)
               /\ \E origin : Follows(part, s, S, origin)
<1> DEFINE part == Picked(s, S)
           origin == [n \in 1..Cardinality(S) |-> CHOOSE i \in S : Place(S, i) = n]
<1>1. Len(s) \in Nat /\ DOMAIN s = 1..Len(s) /\ S \in SUBSET (1..Len(s))
  OBVIOUS
<1>2. /\ Cardinality(S) \in 0..Len(s)
      /\ Cardinality(S) = Len(s) => S = 1..Len(s)
      /\ \A i \in S : Place(S, i) \in 1..Cardinality(S)
      /\ \A i, j \in S : i < j => Place(S, i) < Place(S, j)
      /\ \A m \in 1..Cardinality(S) : \E i \in S : Place(S, i) = m
  BY <1>1, Places
<1>3. part = [n \in 1..Cardinality(S) |-> s[origin[n]]]
  BY DEF Picked
<1>4. \A n \in 1..Cardinality(S) : origin[n] \in S /\ Place(S, origin[n]) = n
  BY <1>2
<1>a. DOMAIN origin = 1..Cardinality(S)
  OBVIOUS
<1>b. origin = [n \in 1..Cardinality(S) |-> origin[n]]
  OBVIOUS
<1> HIDE DEF part, origin
<1>5. /\ part \in Seq(E) /\ Len(part) = Cardinality(S)
      /\ DOMAIN part = 1..Cardinality(S)
      /\ \A n \in 1..Cardinality(S) : part[n] = s[origin[n]]
  <2>1. part \in [1..Cardinality(S) -> E]
    <3>1. \A m \in 1..Cardinality(S) : origin[m] \in 1..Len(s)
      BY <1>1, <1>4
    <3>2. \A i \in 1..Len(s) : s[i] \in E
      OBVIOUS
    <3> QED
      BY <1>3, <3>1, <3>2
  <2>2. Cardinality(S) \in Nat
    BY <1>1, <1>2
  <2> QED
    BY <1>3, <2>1, <2>2
<1>6. Follows(part, s, S, origin)
  <2>1. origin \in [DOMAIN part -> S]
    BY <1>4, <1>5, <1>b
  <2>2. ASSUME NEW m \in 1..Cardinality(S), NEW n \in 1..Cardinality(S), m < n
        PROVE  origin[m] < origin[n]
    <3>1. origin[m] \in Nat /\ origin[n] \in Nat
      BY <1>1, <1>4
    <3>2. origin[m] # origin[n] /\ ~(origin[n] < origin[m])
      BY <1>2, <1>4, <2>2
    <3> QED
      BY <3>1, <3>2
  <2>3. ASSUME NEW i \in S PROVE \E n \in 1..Cardinality(S) : origin[n] = i
    <3> DEFINE n == Place(S, i)
    <3>1. n \in 1..Cardinality(S)
      BY <1>2
    <3>2. origin[n] \in S /\ Place(S, origin[n]) = Place(S, i) /\ i \in Nat /\ origin[n] \in Nat
      BY <1>1, <1>4, <3>1
    <3>3. Place(S, i) \in Nat
      BY <3>1
    <3>4. origin[n] = i
      BY <1>2, <3>2, <3>3
    <3> QED
      BY <3>1, <3>4
  <2> QED
    BY <1>5, <2>1, <2>2, <2>3 DEF Follows
<1>7. Len(part) <= Len(s)
  BY <1>1, <1>2, <1>5
<1>8. S # DOMAIN s => Len(part) < Len(s)
  BY <1>1, <1>2, <1>5
<1> QED
  BY <1>5, <1>6, <1>7, <1>8 DEF part

(* A deletion leaves the other entries in their order, and a shorter store *)
(* when it matched one.                                                    *)
LEMMA DeleteFacts ==
    ASSUME NEW E, NEW store \in Seq(E), NEW pattern
    PROVE  LET rest == AfterDelete(store, pattern)
           IN  /\ rest \in Seq(E)
               /\ Len(rest) <= Len(store)
               /\ (\E i \in DOMAIN store : store[i].key \in pattern) => Len(rest) < Len(store)
               /\ \E origin : Remains(rest, store, pattern, origin)
<1> DEFINE rest == AfterDelete(store, pattern)
           S == Staying(store, pattern)
<1>1. S \in SUBSET (DOMAIN store) /\ rest = Picked(store, S)
  BY DEF Staying, AfterDelete
<1>2. \A i \in DOMAIN store : i \in S <=> store[i].key \notin pattern
  BY DEF Staying
<1> HIDE DEF rest, S
<1>3. /\ rest \in Seq(E) /\ Len(rest) <= Len(store)
      /\ S # DOMAIN store => Len(rest) < Len(store)
      /\ \E origin : Follows(rest, store, S, origin)
  BY <1>1, PickedFacts
<1>4. PICK origin : Follows(rest, store, S, origin)
  BY <1>3
<1>5. origin \in [DOMAIN rest -> DOMAIN store]
  BY <1>1, <1>4 DEF Follows
<1>6. Remains(rest, store, pattern, origin)
  BY <1>1, <1>2, <1>4, <1>5 DEF Follows, Remains
<1> QED
  BY <1>2, <1>3, <1>6 DEF rest

(* The entry of a key is one of that key.                                  *)
LEMMA EntryFacts ==
    ASSUME NEW E, NEW store \in Seq(E), NEW k, Holds(store, k)
    PROVE  /\ EntryOf(store, k) \in E /\ EntryOf(store, k).key = k
           /\ \E i \in DOMAIN store : EntryOf(store, k) = store[i]
<1>1. PICK i \in DOMAIN store : EntryOf(store, k) = store[i] /\ store[i].key = k
  BY DEF Holds, EntryOf
<1> QED
  BY <1>1

(* A deletion leaves one entry per key and only entries that were there.   *)
LEMMA DeleteKeeps ==
    ASSUME NEW E, NEW store \in Seq(E), NEW pattern, KeysDistinct(store)
    PROVE  LET rest == AfterDelete(store, pattern)
           IN  /\ rest \in Seq(E) /\ KeysDistinct(rest)
               /\ Len(rest) <= Len(store)
               /\ \A n \in DOMAIN rest :
                     rest[n].key \notin pattern /\ \E i \in DOMAIN store : rest[n] = store[i]
<1> DEFINE rest == AfterDelete(store, pattern)
<1> HIDE DEF rest
<1>1. PICK origin : Remains(rest, store, pattern, origin)
  BY DeleteFacts DEF rest
<1>2. rest \in Seq(E) /\ Len(rest) <= Len(store)
  BY DeleteFacts DEF rest
<1>3. KeysDistinct(rest)
  <2> SUFFICES ASSUME NEW m \in DOMAIN rest, NEW n \in DOMAIN rest,
                      rest[m].key = rest[n].key, m # n
               PROVE  FALSE
    BY DEF KeysDistinct
  <2>1. origin[m] = origin[n]
    BY <1>1 DEF Remains, KeysDistinct
  <2>2. m \in Nat /\ n \in Nat /\ origin[m] \in Nat
    BY <1>1, <1>2 DEF Remains
  <2> QED
    BY <1>1, <2>1, <2>2 DEF Remains
<1> QED
  BY <1>1, <1>2, <1>3 DEF Remains, rest

(* The store `after' has e at its recent end and before it the entries     *)
(* `store' has of other keys, in their order.                              *)
MovedLast(after, store, e) ==
    LET last == Len(after)
    IN  /\ last \in Nat \ {0} /\ after[last] = e
        /\ last <= Len(store) + 1
        /\ Holds(store, e.key) => last <= Len(store)
        /\ \A n \in 1..last - 1 : after[n].key # e.key
        /\ \A n \in 1..last - 1 : \E i \in DOMAIN store : after[n] = store[i]
        /\ \A m, n \in 1..last - 1 : m < n =>
              \E i, j \in DOMAIN store : i < j /\ after[m] = store[i] /\ after[n] = store[j]
        /\ \A i \in DOMAIN store :
              store[i].key # e.key => \E n \in 1..last - 1 : after[n] = store[i]

(* Taking the entry of a key out and putting one of that key at the end.   *)
LEMMA AppendFacts ==
    ASSUME NEW E, NEW store \in Seq(E), NEW e \in E, KeysDistinct(store)
    PROVE  LET after == Append(Without(store, e.key), e)
           IN  after \in Seq(E) /\ KeysDistinct(after) /\ MovedLast(after, store, e)
<1> DEFINE rest == Without(store, e.key)
           after == Append(rest, e)
<1>0. rest = AfterDelete(store, {e.key})
  BY DEF Without
<1> HIDE DEF rest
<1>1. PICK origin : Remains(rest, store, {e.key}, origin)
  BY <1>0, DeleteFacts
<1>2. rest \in Seq(E) /\ Len(rest) <= Len(store) /\ KeysDistinct(rest)
  BY <1>0, DeleteKeeps
<1>3. (\E i \in DOMAIN store : store[i].key \in {e.key}) => Len(rest) < Len(store)
  BY <1>0, DeleteFacts
<1>4. /\ after \in Seq(E) /\ Len(after) = Len(rest) + 1 /\ after[Len(after)] = e
      /\ Len(rest) \in Nat /\ Len(store) \in Nat
      /\ DOMAIN rest = 1..Len(rest) /\ DOMAIN after = 1..Len(rest) + 1
      /\ \A n \in 1..Len(rest) : after[n] = rest[n]
  BY <1>2
<1>a. DOMAIN rest = 1..Len(after) - 1
  BY <1>4
<1>5. \A n \in DOMAIN rest : after[n].key # e.key
  BY <1>1, <1>4 DEF Remains
<1>6. KeysDistinct(after)
  <2>1. \A n \in DOMAIN after : n \in DOMAIN rest \/ n = Len(after)
    BY <1>4
  <2> QED
    BY <1>2, <1>4, <1>5, <2>1 DEF KeysDistinct
<1>7. MovedLast(after, store, e)
  <2> DEFINE last == Len(after)
  <2>1. last \in Nat \ {0} /\ after[last] = e /\ last <= Len(store) + 1
    BY <1>2, <1>4
  <2>2. Holds(store, e.key) => last <= Len(store)
    BY <1>3, <1>4 DEF Holds
  <2>3. \A n \in DOMAIN rest : \E i \in DOMAIN store : after[n] = store[i]
    BY <1>1, <1>4 DEF Remains
  <2>4. \A m, n \in DOMAIN rest : m < n =>
          \E i, j \in DOMAIN store : i < j /\ after[m] = store[i] /\ after[n] = store[j]
    BY <1>1, <1>4 DEF Remains
  <2>5. \A i \in DOMAIN store :
          store[i].key # e.key => \E n \in DOMAIN rest : after[n] = store[i]
    <3> SUFFICES ASSUME NEW i \in DOMAIN store, store[i].key # e.key
                 PROVE  \E n \in DOMAIN rest : after[n] = store[i]
      OBVIOUS
    <3>1. PICK n \in DOMAIN rest : origin[n] = i
      BY <1>1 DEF Remains
    <3> QED
      BY <1>1, <1>4, <3>1 DEF Remains
  <2>6. DOMAIN rest = 1..last - 1
    BY <1>a
  <2> HIDE DEF after
  <2>7. /\ \A n \in 1..last - 1 : after[n].key # e.key
        /\ \A n \in 1..last - 1 : \E i \in DOMAIN store : after[n] = store[i]
    BY <1>5, <2>3, <2>6
  <2>8. \A m, n \in 1..last - 1 : m < n =>
              \E i, j \in DOMAIN store : i < j /\ after[m] = store[i] /\ after[n] = store[j]
    <3> SUFFICES ASSUME NEW m \in 1..last - 1, NEW n \in 1..last - 1, m < n
                 PROVE  \E i, j \in DOMAIN store :
                           i < j /\ after[m] = store[i] /\ after[n] = store[j]
      OBVIOUS
    <3>1. m \in DOMAIN rest /\ n \in DOMAIN rest
      BY <2>6
    <3> QED
      BY <2>4, <3>1
  <2>9. \A i \in DOMAIN store :
              store[i].key # e.key => \E n \in 1..last - 1 : after[n] = store[i]
    BY <2>5, <2>6
  <2> QED
    BY <2>1, <2>2, <2>7, <2>8, <2>9, Zenon DEF MovedLast
<1> QED
  BY <1>4, <1>6, <1>7 DEF rest

(* A lookup leaves one entry per key and only entries that were there.     *)
LEMMA GetKeeps ==
    ASSUME NEW E, NEW store \in Seq(E), KeysDistinct(store), NEW k,
           NEW allow_stale \in BOOLEAN, NEW mono, NEW epoch
    PROVE  LET after == AfterGet(store, k, allow_stale, mono, epoch)
           IN  /\ after \in Seq(E) /\ KeysDistinct(after)
               /\ Len(after) <= Len(store)
               /\ \A n \in DOMAIN after : \E i \in DOMAIN store : after[n] = store[i]
<1>1. CASE Outcome(store, k, allow_stale, mono, epoch) = "miss"
  <2> DEFINE rest == AfterGet(store, k, allow_stale, mono, epoch)
  <2>1. rest = AfterDelete(store, {k})
    BY <1>1 DEF AfterGet, Without
  <2> HIDE DEF rest
  <2>2. rest \in Seq(E) /\ KeysDistinct(rest) /\ Len(rest) <= Len(store)
    BY <2>1, DeleteKeeps
  <2>3. ASSUME NEW n \in DOMAIN rest PROVE \E i \in DOMAIN store : rest[n] = store[i]
    BY <2>1, <2>3, DeleteKeeps
  <2> QED
    BY <2>2, <2>3 DEF rest
<1>2. CASE Outcome(store, k, allow_stale, mono, epoch) # "miss"
  <2> DEFINE e == EntryOf(store, k)
             after == MoveToEnd(store, k)
  <2>1. Holds(store, k)
    BY <1>2 DEF Outcome
  <2>2. e \in E /\ e.key = k /\ \E i \in DOMAIN store : e = store[i]
    BY <2>1, EntryFacts
  <2>3. after = Append(Without(store, e.key), e)
    BY <2>2 DEF MoveToEnd
  <2>4. AfterGet(store, k, allow_stale, mono, epoch) = after
    BY <1>2 DEF AfterGet
  <2> HIDE DEF e, after
  <2>5. after \in Seq(E) /\ KeysDistinct(after) /\ MovedLast(after, store, e)
    BY <2>2, <2>3, AppendFacts
  <2>6. Len(after) <= Len(store) /\ \A n \in DOMAIN after : \E i \in DOMAIN store : after[n] = store[i]
    <3>1. \A n \in DOMAIN after : n = Len(after) \/ n \in 1..Len(after) - 1
      BY <2>5
    <3>2. /\ after[Len(after)] = e
          /\ Holds(store, e.key) => Len(after) <= Len(store)
          /\ \A n \in 1..Len(after) - 1 : \E i \in DOMAIN store : after[n] = store[i]
      BY <2>5, Zenon DEF MovedLast
    <3> QED
      BY <2>1, <2>2, <3>1, <3>2
  <2> QED
    BY <2>4, <2>5, <2>6
<1> QED
  BY <1>1, <1>2

(* Storing an entry leaves one entry per key, never more than the bound,   *)
(* and besides the new entry only entries of other keys that were there.   *)
LEMMA SetKeeps ==
    ASSUME NEW E, NEW store \in Seq(E), KeysDistinct(store), Len(store) <= MaxEntries,
           NEW e \in E
    PROVE  LET after == AfterSet(store, e)
           IN  /\ after \in Seq(E) /\ KeysDistinct(after)
               /\ Len(after) <= MaxEntries
               /\ \A n \in DOMAIN after :
                     \/ after[n] = e
                     \/ after[n].key # e.key /\ \E i \in DOMAIN store : after[n] = store[i]
<1> DEFINE grown == Append(Without(store, e.key), e)
           after == AfterSet(store, e)
<1>1. grown \in Seq(E) /\ KeysDistinct(grown) /\ MovedLast(grown, store, e)
  BY AppendFacts
<1>2. after = IF Len(grown) > MaxEntries THEN Tail(grown) ELSE grown
  BY DEF AfterSet
<1>3. MaxEntries \in Nat \ {0} /\ Len(store) \in Nat
  BY MaxEntriesAssumption
<1> HIDE DEF grown, after
<1>4. \A n \in DOMAIN grown :
         \/ grown[n] = e
         \/ grown[n].key # e.key /\ \E i \in DOMAIN store : grown[n] = store[i]
  <2>1. \A n \in DOMAIN grown : n = Len(grown) \/ n \in 1..Len(grown) - 1
    BY <1>1
  <2>2. /\ grown[Len(grown)] = e
        /\ \A n \in 1..Len(grown) - 1 : grown[n].key # e.key
        /\ \A n \in 1..Len(grown) - 1 : \E i \in DOMAIN store : grown[n] = store[i]
    BY <1>1, Zenon DEF MovedLast
  <2> QED
    BY <2>1, <2>2
<1>5. Len(grown) <= MaxEntries + 1 /\ Len(grown) \in Nat \ {0}
  BY <1>1, <1>3 DEF MovedLast
<1>6. CASE Len(grown) > MaxEntries
  <2>1. /\ after \in Seq(E) /\ Len(after) = Len(grown) - 1
        /\ \A n \in DOMAIN after : n + 1 \in DOMAIN grown /\ after[n] = grown[n + 1] /\ n \in Nat
    BY <1>1, <1>2, <1>5, <1>6
  <2>2. KeysDistinct(after)
    <3>1. SUFFICES ASSUME NEW m \in DOMAIN after, NEW n \in DOMAIN after, m # n
                   PROVE  after[m].key # after[n].key
      BY DEF KeysDistinct
    <3>2. /\ m + 1 \in DOMAIN grown /\ after[m] = grown[m + 1] /\ m \in Nat
          /\ n + 1 \in DOMAIN grown /\ after[n] = grown[n + 1] /\ n \in Nat
      BY <2>1
    <3>3. m + 1 # n + 1
      BY <3>1, <3>2
    <3> QED
      BY <1>1, <3>2, <3>3 DEF KeysDistinct
  <2>3. \A n \in DOMAIN after :
           \/ after[n] = e
           \/ after[n].key # e.key /\ \E i \in DOMAIN store : after[n] = store[i]
    <3>1. SUFFICES ASSUME NEW n \in DOMAIN after
                   PROVE  \/ after[n] = e
                          \/ /\ after[n].key # e.key
                             /\ \E i \in DOMAIN store : after[n] = store[i]
      OBVIOUS
    <3>2. n + 1 \in DOMAIN grown /\ after[n] = grown[n + 1]
      BY <2>1, <3>1
    <3> QED
      BY <1>4, <3>2
  <2>4. Len(after) <= MaxEntries
    BY <1>3, <1>5, <2>1
  <2> QED
    BY <2>1, <2>2, <2>3, <2>4, Zenon DEF after
<1>7. CASE ~(Len(grown) > MaxEntries)
  <2>1. after = grown
    BY <1>2, <1>7
  <2>2. Len(grown) <= MaxEntries
    BY <1>3, <1>5, <1>7
  <2> QED
    BY <1>1, <1>4, <2>1, <2>2, Zenon DEF after
<1> QED
  BY <1>6, <1>7
=============================================================================
