--------------------------- MODULE OperationalState ---------------------------
(***************************************************************************)
(* How bad a signal is and how signals become a state: the first and the    *)
(* last part of core/state_engine.py, which the state of a mine and the     *)
(* state of the platform share.                                            *)
(***************************************************************************)
EXTENDS Naturals

Severity == {"NONE", "WATCH", "DISRUPTION", "CRITICAL"}
Rank == [NONE |-> 0, WATCH |-> 1, DISRUPTION |-> 2, CRITICAL |-> 3]

\* The worst of a non-empty set of severities.
Worst(severities) == CHOOSE s \in severities : \A t \in severities : Rank[t] <= Rank[s]

\* _state_from: the worst signal, not an average; nothing evaluated is no state.
StateFrom(severities) ==
    IF severities = {} THEN "UNKNOWN"
    ELSE IF Worst(severities) = "NONE" THEN "NORMAL" ELSE Worst(severities)

\* The severity of a value against thresholds [severity |-> at least].
Graded(value, thresholds) ==
    Worst({"NONE"} \cup {s \in DOMAIN thresholds : value >= thresholds[s]})
===============================================================================
