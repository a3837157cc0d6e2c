-------------------------- MODULE MCRefreshCoordinator --------------------------
(* Model values for the runs of RefreshCoordinator. *)
EXTENDS RefreshCoordinator, TLC

Symmetry == Permutations(Process) \cup Permutations(Op) \cup Permutations(Visitor)
================================================================================
