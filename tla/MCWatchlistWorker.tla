---------------------------- MODULE MCWatchlistWorker ----------------------------
(* Model values for the runs of WatchlistWorker. *)
EXTENDS WatchlistWorker, TLC

Symmetry == Permutations(Run) \cup Permutations(Product)

\* No action reads the metrics of a row, so the runs about the states of rows
\* need not tell apart what they say.
StatesOnly == <<[r \in Run |-> row[r].state], owner, locals, deposed>>
==================================================================================
