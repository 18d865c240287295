-------------------------- MODULE ModelRegistryProofs --------------------------
(***************************************************************************)
(* Proofs about ModelRegistry for any number of rows and of concurrent      *)
(* requests: the types, at most one champion, the champion's succession,     *)
(* and that no unsound artifact reaches memory.                             *)
(***************************************************************************)
EXTENDS ModelRegistry, TLAPS

\* A request that was opened has a row, and the verdict of a decision is known.
RequestsFormed ==
    \A a \in Admins :
        /\ admin[a].pc # "idle" => admin[a].target \in Models
        /\ admin[a].pc = "decide" => admin[a].op \in {"approve", "reject"}

\* A query that was opened has a version, and one about to swap a verified row.
QueriesFormed ==
    \A c \in Clients :
        /\ client[c].pc # "idle" => client[c].target \in Models \cup {Default}
        /\ client[c].pc \in {"swap", "report"} =>
               client[c].target \in Models /\ Servable(client[c].target)

IInv == TypeOK /\ RequestsFormed /\ QueriesFormed /\ OneChampion /\ OnlySoundInMemory

\* The row a query for the champion returns is a champion.
LEMMA ChampionRowFacts ==
    ASSUME Champions # {}
    PROVE  ChampionRow \in Champions /\ ChampionRow \in Models
BY DEF ChampionRow, Champions

\* The fallback version is never "none".
LEMMA FallbackFacts ==
    ASSUME TypeOK
    PROVE  FallbackVersion \in Models \cup {Default}
BY DEF TypeOK, Versions, FallbackVersion

\* A verified row's artifact is a sound one, and a row.
LEMMA ServableFacts ==
    ASSUME NEW m \in Models, Servable(m)
    PROVE  Artifact[m] \in Sound /\ Artifact[m] \in Models
BY RegistryAssumption DEF Servable

LEMMA InitInv == Init => IInv
<1> SUFFICES ASSUME Init PROVE IInv
  OBVIOUS
<1> USE RegistryAssumption DEF Init
<1>1. TypeOK
  BY DEF TypeOK, Startup, Statuses, NoRequest, NoQuery, Query, Free, Versions
<1>2. RequestsFormed /\ QueriesFormed
  BY DEF RequestsFormed, QueriesFormed, NoRequest, NoQuery, Query
<1>3. OneChampion /\ OnlySoundInMemory
  BY DEF OneChampion, Champions, OnlySoundInMemory, Startup
<1> QED
  BY <1>1, <1>2, <1>3 DEF IInv

\* The steps of a governance request that leave the registry alone.
LEMMA ReadInv ==
    ASSUME IInv, NEW a \in Admins, Read(a)
    PROVE  IInv'
<1> USE DEF IInv, Read, registry, process
<1>1. PICK op \in Operations, m \in Models :
        admin' = [admin EXCEPT ![a] =
               [pc |-> IF op \in {"promote", "rollback"} THEN "verify" ELSE "decide",
                op |-> op, target |-> m, found |-> NoRow]]
  OBVIOUS
<1>2. TypeOK'
  BY <1>1 DEF TypeOK
<1>3. RequestsFormed'
  BY <1>1, RegistryAssumption DEF RequestsFormed, TypeOK
<1>4. QueriesFormed'
  BY DEF QueriesFormed
<1>5. OneChampion' /\ OnlySoundInMemory'
  BY DEF OneChampion, Champions, OnlySoundInMemory
<1> QED
  BY <1>2, <1>3, <1>4, <1>5

\* approve and reject: the row they write is not made champion.
LEMMA DecideInv ==
    ASSUME IInv, NEW a \in Admins, Decide(a)
    PROVE  IInv'
<1> DEFINE m == admin[a].target
<1>1. m \in Models /\ admin[a].op \in {"approve", "reject"}
  BY DEF IInv, RequestsFormed, Decide
<1>2. Verdict[admin[a].op] \in {"approved", "rejected"}
  BY <1>1 DEF Verdict
<1>3. status' = status \/ status' = [status EXCEPT ![m] = Verdict[admin[a].op]]
  BY DEF Decide
<1>4. Champions' \subseteq Champions
  BY <1>1, <1>2, <1>3 DEF Champions, IInv, TypeOK
<1>5. TypeOK'
  BY <1>1, <1>2, <1>3 DEF IInv, TypeOK, Decide, Answer, NoRequest, process, Statuses
<1>6. RequestsFormed' /\ QueriesFormed'
  BY DEF IInv, TypeOK, Decide, Answer, NoRequest, RequestsFormed, QueriesFormed
<1>7. OneChampion'
  BY <1>4 DEF IInv, OneChampion
<1>8. OnlySoundInMemory'
  BY DEF IInv, Decide, process, OnlySoundInMemory
<1> QED
  BY <1>5, <1>6, <1>7, <1>8 DEF IInv

LEMMA VerifyInv ==
    ASSUME IInv, NEW a \in Admins, VerifyAndReload(a) \/ VerifyFails(a)
    PROVE  IInv'
<1>1. CASE VerifyAndReload(a)
  <2>1. admin[a].target \in Models /\ Servable(admin[a].target)
    BY <1>1 DEF VerifyAndReload, IInv, RequestsFormed
  <2>2. memory' \in Sound /\ memory' \in Models
    BY <1>1, <2>1, ServableFacts DEF VerifyAndReload
  <2>3. TypeOK'
    BY <1>1, <2>2 DEF VerifyAndReload, registry, IInv, TypeOK
  <2>4. RequestsFormed' /\ QueriesFormed'
    BY <1>1 DEF VerifyAndReload, IInv, TypeOK, RequestsFormed, QueriesFormed
  <2>5. OneChampion' /\ OnlySoundInMemory'
    BY <1>1, <2>2 DEF VerifyAndReload, registry, IInv, OneChampion, Champions, OnlySoundInMemory
  <2> QED
    BY <2>3, <2>4, <2>5 DEF IInv
<1>2. CASE VerifyFails(a)
  <2> USE <1>2 DEF VerifyFails, Answer, NoRequest, registry, process, IInv
  <2>1. TypeOK'
    BY DEF TypeOK
  <2>2. RequestsFormed' /\ QueriesFormed'
    BY DEF TypeOK, RequestsFormed, QueriesFormed
  <2>3. OneChampion' /\ OnlySoundInMemory'
    BY DEF OneChampion, Champions, OnlySoundInMemory
  <2> QED
    BY <2>1, <2>2, <2>3
<1> QED
  BY <1>1, <1>2

LEMMA SelectLockInv ==
    ASSUME IInv, NEW a \in Admins, SelectChampion(a) \/ LockChampion(a)
    PROVE  IInv'
<1> DEFINE AdminType ==
      [pc : {"idle", "verify", "decide", "begin", "lock", "commit", "invalidate", "announce"},
       op : Operations \cup {"none"}, target : Models \cup {NoRow}, found : Models \cup {NoRow}]
<1>1. ChampionRow \in Models \cup {NoRow}
  BY DEF ChampionRow, Champions
<1>2. TypeOK'
  <2>1. CASE SelectChampion(a)
    <3>1. admin' = [admin EXCEPT ![a] = [admin[a] EXCEPT !.pc = "lock", !.found = ChampionRow]]
      BY <2>1 DEF SelectChampion, IInv, TypeOK
    <3>2. [admin[a] EXCEPT !.pc = "lock", !.found = ChampionRow] \in AdminType
      <4>1. admin[a] \in AdminType
        BY DEF IInv, TypeOK
      <4> QED
        BY <1>1, <4>1
    <3> QED
      BY <2>1, <3>1, <3>2 DEF SelectChampion, registry, process, IInv, TypeOK
  <2>2. CASE LockChampion(a)
    <3> DEFINE c == admin[a].found
               hit == c \in Champions
    <3>1. admin' = [admin EXCEPT ![a] = [admin[a] EXCEPT !.pc = "commit",
                                            !.found = IF hit THEN c ELSE NoRow]]
      BY <2>2 DEF LockChampion, IInv, TypeOK
    <3>2. [admin[a] EXCEPT !.pc = "commit", !.found = IF hit THEN c ELSE NoRow] \in AdminType
      <4>1. admin[a] \in AdminType
        BY DEF IInv, TypeOK
      <4>2. (IF hit THEN c ELSE NoRow) \in Models \cup {NoRow}
        BY <4>1
      <4> HIDE DEF hit, c
      <4> QED
        BY <4>1, <4>2
    <3>3. admin' \in [Admins -> AdminType]
      BY <3>1, <3>2 DEF IInv, TypeOK
    <3>4. rowLock' \in [Models -> Admins \cup {Free}]
      BY <2>2 DEF LockChampion, IInv, TypeOK, Champions
    <3> QED
      BY <2>2, <3>3, <3>4 DEF LockChampion, process, IInv, TypeOK
  <2> QED
    BY <2>1, <2>2
<1>3. RequestsFormed' /\ QueriesFormed'
  BY DEF SelectChampion, LockChampion, IInv, TypeOK, RequestsFormed, QueriesFormed
<1>4. OneChampion' /\ OnlySoundInMemory'
  BY DEF SelectChampion, LockChampion, registry, process, IInv, OneChampion, Champions,
         OnlySoundInMemory
<1> QED
  BY <1>2, <1>3, <1>4 DEF IInv

\* Unlocking keeps the locks' type.
LEMMA UnlockedType ==
    ASSUME TypeOK, NEW a \in Admins
    PROVE  Unlocked(a) \in [Models -> Admins \cup {Free}]
BY DEF TypeOK, Unlocked

\* The transaction that the index admits leaves its target the only champion.
LEMMA SuccessionFacts ==
    ASSUME TypeOK, NEW op, NEW found, NEW target \in Models,
           IndexAdmits(found, target), status' = Succession(op, found, target)
    PROVE  /\ status' \in [Models -> Statuses]
           /\ Champions' = {target}
<1>1. \A m \in Models : status[m] \in Statuses
  BY DEF TypeOK
<1>2. status' \in [Models -> Statuses]
  BY <1>1 DEF Succession, Statuses
<1>3. \A m \in Models : status'[m] = "champion" <=> m = target
  BY DEF Succession, IndexAdmits, Champions
<1> QED
  BY <1>2, <1>3 DEF Champions

LEMMA CommitInv ==
    ASSUME IInv, NEW a \in Admins, CommitChampion(a)
    PROVE  IInv'
<1> DEFINE r == admin[a]
<1>1. r.target \in Models /\ IndexAdmits(r.found, r.target)
  BY DEF CommitChampion, IInv, RequestsFormed
<1>2. status' = status \/ status' = Succession(r.op, r.found, r.target)
  BY DEF CommitChampion
<1>3. /\ status' \in [Models -> Statuses]
      /\ Champions' = Champions \/ Champions' = {r.target}
  <2>1. CASE status' = status
    BY <2>1 DEF Champions, IInv, TypeOK
  <2>2. CASE status' = Succession(r.op, r.found, r.target)
    BY <2>2, <1>1, SuccessionFacts DEF IInv
  <2> QED
    BY <1>2, <2>1, <2>2
<1>4. TypeOK'
  <2>1. rowLock' \in [Models -> Admins \cup {Free}]
    BY UnlockedType DEF CommitChampion, IInv, TypeOK
  <2>2. admin' = [admin EXCEPT ![a].pc = "invalidate"] /\ UNCHANGED <<process, client, restarts>>
    BY DEF CommitChampion
  <2> QED
    BY <1>3, <2>1, <2>2 DEF process, IInv, TypeOK
<1>5. RequestsFormed' /\ QueriesFormed'
  BY DEF CommitChampion, IInv, TypeOK, RequestsFormed, QueriesFormed
<1>6. OneChampion'
  BY <1>3 DEF IInv, OneChampion
<1>7. OnlySoundInMemory'
  BY DEF CommitChampion, process, IInv, OnlySoundInMemory
<1> QED
  BY <1>4, <1>5, <1>6, <1>7 DEF IInv

LEMMA RolledBackInv ==
    ASSUME IInv, NEW a \in Admins, IndexRefuses(a) \/ ConnectionFails(a)
    PROVE  IInv'
<1>0. RolledBack(a)
  BY DEF IndexRefuses, ConnectionFails
<1> USE <1>0 DEF RolledBack, Answer, NoRequest, process, IInv
<1>1. TypeOK'
  BY UnlockedType DEF TypeOK
<1>2. RequestsFormed' /\ QueriesFormed'
  BY DEF TypeOK, RequestsFormed, QueriesFormed
<1>3. OneChampion' /\ OnlySoundInMemory'
  BY DEF OneChampion, Champions, OnlySoundInMemory
<1> QED
  BY <1>1, <1>2, <1>3

LEMMA AfterCommitInv ==
    ASSUME IInv, NEW a \in Admins, InvalidateMetadata(a) \/ AnnounceVersion(a)
    PROVE  IInv'
<1> USE DEF InvalidateMetadata, AnnounceVersion, Answer, NoRequest, registry, IInv
<1>1. TypeOK'
  <2>1. CASE InvalidateMetadata(a)
    BY <2>1 DEF TypeOK
  <2>2. CASE AnnounceVersion(a)
    <3>1. admin[a].target \in Models
      BY <2>2 DEF RequestsFormed
    <3> QED
      BY <2>2, <3>1 DEF TypeOK, Versions
  <2> QED
    BY <2>1, <2>2
<1>2. RequestsFormed' /\ QueriesFormed'
  BY DEF TypeOK, RequestsFormed, QueriesFormed
<1>3. OneChampion' /\ OnlySoundInMemory'
  BY DEF OneChampion, Champions, OnlySoundInMemory
<1> QED
  BY <1>1, <1>2, <1>3

\* The steps of a prediction: they leave the registry and the requests alone.
LEMMA MetadataInv ==
    ASSUME IInv, NEW c \in Clients,
           MetadataHit(c) \/ MetadataQuery(c) \/ MetadataOutage(c) \/ MetadataStore(c)
    PROVE  IInv'
<1>1. CASE MetadataHit(c) \/ MetadataQuery(c) \/ MetadataOutage(c)
  <2>1. PICK t \in Models \cup {Default}, at \in {"peek", "store"} :
          client' = [client EXCEPT ![c] = Query(at, t)]
    <3>1. CASE MetadataHit(c)
      <4>1. metadata \in Models \cup {Default}
        BY <3>1 DEF MetadataHit, IInv, TypeOK
      <4>2. QED
        <5>1. client' = [client EXCEPT ![c] = Query("peek", metadata)]
          BY <3>1 DEF MetadataHit
        <5> QED
          BY <4>1, <5>1
    <3>2. CASE MetadataQuery(c)
      <4>1. (IF Champions = {} THEN FallbackVersion ELSE ChampionRow) \in Models \cup {Default}
        BY ChampionRowFacts, FallbackFacts DEF IInv
      <4>2. client' = [client EXCEPT ![c] =
              Query("store", IF Champions = {} THEN FallbackVersion ELSE ChampionRow)]
        BY <3>2 DEF MetadataQuery
      <4> QED
        BY <4>1, <4>2
    <3>3. CASE MetadataOutage(c)
      <4>1. client' = [client EXCEPT ![c] = Query("store", FallbackVersion)]
        BY <3>3 DEF MetadataOutage
      <4> QED
        BY <4>1, FallbackFacts DEF IInv
    <3> QED
      BY <1>1, <3>1, <3>2, <3>3
  <2>2. UNCHANGED <<registry, process, admin, restarts>>
    BY <1>1 DEF MetadataHit, MetadataQuery, MetadataOutage
  <2>3. TypeOK'
    BY <2>1, <2>2 DEF IInv, TypeOK, registry, process, Versions, Query
  <2>4. RequestsFormed' /\ QueriesFormed'
    BY <2>1, <2>2 DEF IInv, TypeOK, RequestsFormed, QueriesFormed, Query
  <2>5. OneChampion' /\ OnlySoundInMemory'
    BY <2>2 DEF registry, process, IInv, OneChampion, Champions, OnlySoundInMemory
  <2> QED
    BY <2>3, <2>4, <2>5 DEF IInv
<1>2. CASE MetadataStore(c)
  <2>1. client[c].target \in Models \cup {Default}
    BY <1>2 DEF MetadataStore, IInv, QueriesFormed
  <2>2. TypeOK'
    BY <1>2, <2>1 DEF MetadataStore, registry, IInv, TypeOK
  <2>3. RequestsFormed' /\ QueriesFormed'
    BY <1>2, <2>1 DEF MetadataStore, IInv, TypeOK, RequestsFormed, QueriesFormed
  <2>4. OneChampion' /\ OnlySoundInMemory'
    BY <1>2 DEF MetadataStore, registry, IInv, OneChampion, Champions, OnlySoundInMemory
  <2> QED
    BY <2>2, <2>3, <2>4 DEF IInv
<1> QED
  BY <1>1, <1>2

LEMMA CompareInv ==
    ASSUME IInv, NEW c \in Clients,
           PeekModel(c) \/ CompareSynced(c) \/ CompareStale(c) \/ Finish(c)
    PROVE  IInv'
<1> USE DEF PeekModel, CompareSynced, CompareStale, Finish, Reply, NoQuery, Query,
            registry, process, IInv
<1>1. client[c].pc # "idle" => client[c].target \in Models \cup {Default}
  BY DEF QueriesFormed
<1>2. TypeOK'
  BY <1>1 DEF TypeOK, Versions
<1>3. RequestsFormed'
  BY DEF RequestsFormed
<1>4. QueriesFormed'
  BY <1>1 DEF TypeOK, QueriesFormed
<1>5. OneChampion' /\ OnlySoundInMemory'
  BY DEF OneChampion, Champions, OnlySoundInMemory
<1> QED
  BY <1>2, <1>3, <1>4, <1>5

LEMMA SwapInv ==
    ASSUME IInv, NEW c \in Clients, SwapModel(c) \/ SwapVersion(c)
    PROVE  IInv'
<1> USE DEF SwapModel, SwapVersion, Reply, registry, IInv
<1>1. client[c].target \in Models /\ Servable(client[c].target)
  BY DEF QueriesFormed
<1>2. Artifact[client[c].target] \in Sound /\ Artifact[client[c].target] \in Models
  BY <1>1, ServableFacts
<1>3. TypeOK'
  BY <1>1, <1>2 DEF TypeOK, Versions
<1>4. RequestsFormed' /\ QueriesFormed'
  BY <1>1 DEF TypeOK, RequestsFormed, QueriesFormed
<1>5. OneChampion' /\ OnlySoundInMemory'
  BY <1>2 DEF OneChampion, Champions, OnlySoundInMemory
<1> QED
  BY <1>3, <1>4, <1>5

LEMMA EnvironmentInv ==
    ASSUME IInv, MetadataExpires \/ Restart
    PROVE  IInv'
<1> USE RegistryAssumption
    DEF MetadataExpires, Restart, Startup, NoRequest, NoQuery, Query, registry, IInv
<1>1. TypeOK'
  BY DEF TypeOK, Versions, Free
<1>2. RequestsFormed' /\ QueriesFormed'
  BY DEF TypeOK, RequestsFormed, QueriesFormed
<1>3. OneChampion' /\ OnlySoundInMemory'
  BY DEF OneChampion, Champions, OnlySoundInMemory
<1> QED
  BY <1>1, <1>2, <1>3

LEMMA NextInv == IInv /\ [Next]_vars => IInv'
<1> SUFFICES ASSUME IInv, [Next]_vars PROVE IInv'
  OBVIOUS
<1>1. CASE UNCHANGED vars
  BY <1>1 DEF vars, IInv, TypeOK, RequestsFormed, QueriesFormed, OneChampion, Champions,
              OnlySoundInMemory
<1>2. ASSUME NEW a \in Admins, Read(a) \/ AdminStep(a) \/ ConnectionFails(a) PROVE IInv'
  BY <1>2, ReadInv, DecideInv, VerifyInv, SelectLockInv, CommitInv, RolledBackInv,
     AfterCommitInv DEF AdminStep
<1>3. ASSUME NEW c \in Clients, ClientStep(c) \/ MetadataQuery(c) \/ MetadataOutage(c)
      PROVE IInv'
  BY <1>3, MetadataInv, CompareInv, SwapInv DEF ClientStep
<1>4. CASE MetadataExpires \/ Restart
  BY <1>4, EnvironmentInv
<1> QED
  BY <1>1, <1>2, <1>3, <1>4 DEF Next

\* The inductive invariant holds in every reachable state.
THEOREM Invariance == Spec => []IInv
BY InitInv, NextInv, PTL DEF Spec

\* Type correctness of the registry and of the serving process.
THEOREM TypeCorrect == Spec => []TypeOK
BY Invariance, PTL DEF IInv

\* The registry never shows two champions of the task.
THEOREM AtMostOneChampion == Spec => []OneChampion
BY Invariance, PTL DEF IInv

\* No artifact that was not verified is ever in memory.
THEOREM VerifiedMemory == Spec => []OnlySoundInMemory
BY Invariance, PTL DEF IInv

(* The registry and the memory of the process are sound, for any           *)
(* administrators, models and restarts.                                    *)
THEOREM RegistryIsSound == Spec => []RegistrySound
<1>1. TypeOK /\ OneChampion /\ OnlySoundInMemory => RegistrySound
  BY DEF RegistrySound
<1>2. QED
  BY <1>1, TypeCorrect, AtMostOneChampion, VerifiedMemory, PTL

\* A promotion's or rollback's transaction never leaves the task championless.
THEOREM Succeeded == Spec => ChampionSucceeded
<1> DEFINE Kept == \A a \in Admins :
        (admin[a].pc = "commit" /\ Champions # {} /\ restarts' = restarts /\ admin'[a] # admin[a])
           => Champions' # {}
<1>1. ASSUME IInv, [Next]_vars, NEW a \in Admins,
             admin[a].pc = "commit", Champions # {}, restarts' = restarts,
             admin'[a] # admin[a]
      PROVE  Champions' # {}
  <2>1. CASE CommitChampion(a)
    <3>1. admin[a].target \in Models /\ IndexAdmits(admin[a].found, admin[a].target)
      BY <1>1, <2>1 DEF IInv, RequestsFormed, CommitChampion
    <3>2. CASE status' = status
      BY <1>1, <3>2 DEF Champions
    <3>3. CASE status' = Succession(admin[a].op, admin[a].found, admin[a].target)
      BY <1>1, <3>1, <3>3, SuccessionFacts DEF IInv
    <3> QED
      BY <2>1, <3>2, <3>3 DEF CommitChampion
  <2>2. CASE IndexRefuses(a) \/ ConnectionFails(a)
    BY <1>1, <2>2 DEF IndexRefuses, ConnectionFails, RolledBack, Champions
  <2>3. CASE Read(a) \/ Decide(a) \/ VerifyAndReload(a) \/ VerifyFails(a) \/ SelectChampion(a)
             \/ LockChampion(a) \/ InvalidateMetadata(a) \/ AnnounceVersion(a)
    BY <1>1, <2>3 DEF Read, Decide, VerifyAndReload, VerifyFails, SelectChampion,
         LockChampion, InvalidateMetadata, AnnounceVersion
  <2>4. ASSUME NEW b \in Admins, b # a, Read(b) \/ AdminStep(b) \/ ConnectionFails(b)
        PROVE  FALSE
    BY <1>1, <2>4 DEF IInv, TypeOK, Read, AdminStep, Decide, VerifyAndReload, VerifyFails,
         SelectChampion, LockChampion, CommitChampion, IndexRefuses, ConnectionFails,
         RolledBack, InvalidateMetadata, AnnounceVersion, Answer
  <2>5. ASSUME NEW c \in Clients, ClientStep(c) \/ MetadataQuery(c) \/ MetadataOutage(c)
        PROVE  FALSE
    BY <1>1, <2>5 DEF ClientStep, MetadataHit, MetadataQuery, MetadataOutage, MetadataStore,
         PeekModel, CompareSynced, CompareStale, SwapModel, SwapVersion, Finish, process
  <2>6. CASE MetadataExpires \/ Restart \/ UNCHANGED vars
    BY <1>1, <2>6, RegistryAssumption DEF MetadataExpires, Restart, vars, IInv, TypeOK
  <2> QED
    BY <1>1, <2>1, <2>2, <2>3, <2>4, <2>5, <2>6 DEF Next, AdminStep
<1>2. IInv /\ [Next]_vars => [Kept]_vars
  BY <1>1
<1> QED
  BY <1>2, Invariance, PTL DEF Spec, ChampionSucceeded
=============================================================================
