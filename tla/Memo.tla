---------------------------------- MODULE Memo ----------------------------------
(***************************************************************************)
(* ttl_cache of core/memo.py: short-lived memoisation of the reads that     *)
(* make up a response.  The wrapped function runs outside the lock, so the  *)
(* same key may be read by several callers at once, and what one of them    *)
(* stores may be older than what is there.                                 *)
(***************************************************************************)
EXTENDS Integers, FiniteSets

CONSTANTS
    MemoCallers, MemoKeys,
    MEMO_TTL,       \* ttl
    MEMO_SIZE,      \* maxsize
    MaxMemoTime,    \* bound on the clock
    Unmemoised

\* Every use of ttl_cache has a lifetime of seconds; with none, no entry would be used.
ASSUME MemoSizeAssumption ==
    /\ MEMO_SIZE \in Nat \ {0} /\ MEMO_TTL \in Nat \ {0}
    /\ MaxMemoTime \in Nat
ASSUME UnmemoisedAssumption == Unmemoised \notin MemoKeys

VARIABLES
    memoNow,    \* time.monotonic(), and the version of what the database holds
    memo,       \* the entries: [at: when the read of it began, value: the version read]
    call        \* the call each of MemoCallers makes

memoVars == <<memoNow, memo, call>>

\* The database changes with every tick, so a version is the time it was current.
MemoCall == [pc : {"idle", "lookup", "read", "put", "got"}, key : MemoKeys \cup {Unmemoised},
             began : Nat, value : Nat]
NoCall == [pc |-> "idle", key |-> Unmemoised, began |-> 0, value |-> 0]

\* Types of the entries and of the calls; there are never more than maxsize entries.
MemoTypeOK ==
    /\ memoNow \in 0..MaxMemoTime
    /\ DOMAIN memo \subseteq MemoKeys
    /\ \A k \in DOMAIN memo : memo[k] \in [at : 0..memoNow, value : 0..memoNow]
    /\ call \in [MemoCallers -> MemoCall]
    /\ Cardinality(DOMAIN memo) <= MEMO_SIZE

EmptyStore == [k \in {} |-> 0]

MemoInit ==
    /\ memoNow = 0
    /\ memo = EmptyStore
    /\ call = [c \in MemoCallers |-> NoCall]

MemoTick ==
    /\ memoNow < MaxMemoTime
    /\ memoNow' = memoNow + 1
    /\ UNCHANGED <<memo, call>>

MemoHit(k, began) == k \in DOMAIN memo /\ began - memo[k].at < MEMO_TTL

\* The clock is read before the lock is taken: the entry found may be younger
\* than the call.
MemoEnter(c) ==
    /\ call[c].pc = "idle"
    /\ \E k \in MemoKeys :
        call' = [call EXCEPT ![c] =
            [pc |-> "lookup", key |-> k, began |-> memoNow, value |-> 0]]
    /\ UNCHANGED <<memoNow, memo>>

MemoLookup(c) ==
    LET k == call[c].key IN
    /\ call[c].pc = "lookup"
    /\ call' = IF MemoHit(k, call[c].began)
               THEN [call EXCEPT ![c].pc = "got", ![c].value = memo[k].value]
               ELSE [call EXCEPT ![c].pc = "read"]
    /\ UNCHANGED <<memoNow, memo>>

\* fn(*args), outside the lock.
MemoRead(c) ==
    /\ call[c].pc = "read"
    /\ call' = [call EXCEPT ![c].pc = "put", ![c].value = memoNow]
    /\ UNCHANGED <<memoNow, memo>>

\* The keys that stay when the oldest entry is evicted from a full memo; the
\* key that is stored may be one of them already.
Kept(full) == {K \in SUBSET DOMAIN memo :
    IF ~full THEN K = DOMAIN memo
    ELSE \E oldest \in DOMAIN memo :
            /\ \A k \in DOMAIN memo : memo[oldest].at <= memo[k].at
            /\ K = DOMAIN memo \ {oldest}}

StoreFull == Cardinality(DOMAIN memo) >= MEMO_SIZE

\* Mutant: the entry is dated when it is stored.
MemoPutRedated(c) ==
    /\ call[c].pc = "put"
    /\ \E K \in Kept(StoreFull) :
        memo' = [k \in K \cup {call[c].key} |->
                    IF k = call[c].key THEN [at |-> memoNow, value |-> call[c].value]
                    ELSE memo[k]]
    /\ call' = [call EXCEPT ![c].pc = "got"]
    /\ UNCHANGED memoNow

MemoPut(c) ==
    /\ call[c].pc = "put"
    /\ \E K \in Kept(StoreFull) :
        memo' = [k \in K \cup {call[c].key} |->
                    IF k = call[c].key THEN [at |-> call[c].began, value |-> call[c].value]
                    ELSE memo[k]]
    /\ call' = [call EXCEPT ![c].pc = "got"]
    /\ UNCHANGED memoNow

MemoReturn(c) ==
    /\ call[c].pc = "got"
    /\ call' = [call EXCEPT ![c] = NoCall]
    /\ UNCHANGED <<memoNow, memo>>

\* clear_all: what calls in flight are about to memo is not dropped.
ClearAll ==
    /\ memo' = EmptyStore
    /\ UNCHANGED <<memoNow, call>>

MemoNext ==
    \/ MemoTick \/ ClearAll
    \/ \E c \in MemoCallers : MemoEnter(c) \/ MemoLookup(c) \/ MemoRead(c) \/ MemoPut(c) \/ MemoReturn(c)

MemoSpec == MemoInit /\ [][MemoNext]_memoVars

-----------------------------------------------------------------------------
\* A call is answered with something the database held less than ttl before the
\* call began, or later: the bound holds although slow calls overwrite newer
\* entries, clear_all misses calls in flight (memo.py:69) and an entry may be
\* stored long after its read began.
MemoAgeBounded ==
    \A c \in MemoCallers :
        call[c].pc = "got" => call[c].began - call[c].value < MEMO_TTL

\* The memo is sound: its entries and calls keep their types, it holds no more
\* than its size, and no caller is given a value that had left its lifetime
\* before the call began, however slow calls overlap (memo.py:69).
MemoSound == MemoTypeOK /\ MemoAgeBounded
=============================================================================
