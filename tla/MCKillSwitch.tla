----------------------------- MODULE MCKillSwitch -----------------------------
(* Instances of KillSwitch: interchangeable workflows. *)
EXTENDS KillSwitch, TLC

Symmetry == Permutations(Flows)
=============================================================================
