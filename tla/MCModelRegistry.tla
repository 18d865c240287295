--------------------------- MODULE MCModelRegistry ---------------------------
(* Model values for ModelRegistry: a seeded champion and two challengers. *)
EXTENDS ModelRegistry, TLC

CONSTANTS seed, m1, m2

MCModels == {seed, m1, m2}
TwoModels == {seed, m1}

\* Every row's lookup finds its own artifact.
OwnArtifacts == [m \in MCModels |-> m]
TwoArtifacts == [m \in TwoModels |-> m]

\* Administrators are interchangeable; used only by the run without liveness.
AdminSymmetry == Permutations(Admins)
=============================================================================
