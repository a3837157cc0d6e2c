---------------------------- MODULE MCAlertDelivery ----------------------------
(* Model values for the runs of AlertDelivery. *)
EXTENDS AlertDelivery, TLC

Symmetry == Permutations(Worker) \cup Permutations(Token)
================================================================================
