---------------------------- MODULE MCTieredCache ---------------------------
(* Instances of TieredCache for TLC.                                         *)
EXTENDS TieredCache, TLC

\* Request threads are interchangeable; used only by the runs without liveness.
RequestSymmetry == Permutations(Requests)
=============================================================================
