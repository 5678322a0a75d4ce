-------------------------- MODULE MCStatusRegistry --------------------------
(* The runs are alike, which the instances use. *)
EXTENDS StatusRegistry, TLC

Alike == Permutations(Runners)
=============================================================================
