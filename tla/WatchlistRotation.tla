---------------------------- MODULE WatchlistRotation ----------------------------
(***************************************************************************)
(* Which products a run of the watchlist worker checks:                    *)
(* getWatchlistCandidates of src/db.js, and the loop of runWatchlistWorker *)
(* in src/watchlist.js as far as it decides who comes next.                *)
(*                                                                         *)
(* Times of checks are modelled by the order they make: "place" gives each *)
(* product its place by last_checked_at, those never checked come first,   *)
(* by barcode.                                                             *)
(* Users watch products and stop to; visitors check products on their own. *)
(* Size and pace of the runs are those of the deployment.                  *)
(***************************************************************************)
EXTENDS Integers, Sequences, FiniteSets

CONSTANTS
  Products,    \* how many products there are; barcodes are 1..Products
  MaxSize,     \* bound on the size of a batch
  MaxVisitors  \* bound on the checks of visitors

\* What is assumed of the constants, wherever this module is instantiated.
Assumptions == {Products, MaxSize} \subseteq Nat \ {0} /\ MaxVisitors \in Nat

Product == 1..Products

VARIABLES
  size,     \* WATCHLIST_BATCH_LIMIT
  pace,     \* how many products of a batch a run always has the time for
  place,    \* place[p]: how many products were last checked no later than p
  watched,  \* favourites and products with an active alert
  queue,    \* what is left of the batch of the run under way
  done,     \* how many products of it were checked
  busy,     \* products a visitor's refresh has the lock of
  visitors

config == <<size, pace>>
vars   == <<config, place, watched, queue, done, busy, visitors>>

Init ==
  /\ size \in 1..MaxSize /\ pace \in 1..size
  /\ place = [p \in Product |-> p]
  /\ watched \in SUBSET Product
  /\ queue = <<>> /\ done = 0 /\ busy = {} /\ visitors = 0

Kind(p) == IF p \in watched THEN watched ELSE Product \ watched

\* Mutant: the kinds are ranked together.
RankOfAll(p) == place[p]

\* ROW_NUMBER() OVER (PARTITION BY kind ORDER BY last_checked_at)
Rank(p) == Cardinality({q \in Kind(p) : place[q] <= place[p]})

WatchQuota   == IF (size * 8) \div 10 > 1 THEN (size * 8) \div 10 ELSE 1
HistoryQuota == size - WatchQuota

Quota(p) == IF p \in watched THEN WatchQuota ELSE HistoryQuota

\* What a rank is divided by.
Share(p) == IF p \in watched THEN WatchQuota ELSE IF HistoryQuota > 1 THEN HistoryQuota ELSE 1

\* ORDER BY: within the quota, the share of the quota that is used up, the last check.
Before(p, q) ==
  LET out(r) == IF Rank(r) <= Quota(r) THEN 0 ELSE 1 IN
  \/ out(p) < out(q)
  \/ out(p) = out(q) /\ Rank(p) * Share(q) < Rank(q) * Share(p)
  \/ out(p) = out(q) /\ Rank(p) * Share(q) = Rank(q) * Share(p) /\ place[p] < place[q]

\* The product before which i - 1 others come is the i-th.
Preceding(p) == {q \in Product : Before(q, p)}
Ordered      == [i \in Product |-> CHOOSE p \in Product : Cardinality(Preceding(p)) = i - 1]

\* LIMIT
Least(a, b) == IF a < b THEN a ELSE b
Batch       == [i \in 1..Least(size, Products) |-> Ordered[i]]

\* recordComparisonCheck, for what was found and for a failure alike: p becomes the last.
Checked(p) ==
  place' = [q \in Product |-> IF q = p THEN Products ELSE IF place[q] > place[p] THEN place[q] - 1 ELSE place[q]]

--------------------------------------------------------------------------------
(* The worker. *)

Begin ==
  /\ queue = <<>> /\ queue' = Batch /\ done' = 0
  /\ UNCHANGED <<config, place, watched, busy, visitors>>

\* The next product is refreshed, and its check or its failure recorded.
Check ==
  /\ queue # <<>> /\ Head(queue) \notin busy
  /\ Checked(Head(queue))
  /\ queue' = Tail(queue) /\ done' = done + 1
  /\ UNCHANGED <<config, watched, busy, visitors>>

\* REFRESH_IN_PROGRESS records nothing.
Busy ==
  /\ queue # <<>> /\ Head(queue) \in busy
  /\ queue' = Tail(queue) /\ done' = done + 1
  /\ UNCHANGED <<config, place, watched, busy, visitors>>

\* The time is short, or the run is stopped.
Cut ==
  /\ queue # <<>> /\ done >= pace
  /\ queue' = <<>>
  /\ UNCHANGED <<config, place, watched, done, busy, visitors>>

--------------------------------------------------------------------------------
(* Users and visitors. *)

Watch(p) ==
  /\ watched' = IF p \in watched THEN watched \ {p} ELSE watched \cup {p}
  /\ UNCHANGED <<config, place, queue, done, busy, visitors>>

Visit(p) ==
  /\ visitors < MaxVisitors /\ p \notin busy
  /\ busy' = busy \cup {p} /\ visitors' = visitors + 1
  /\ UNCHANGED <<config, place, watched, queue, done>>

\* A visitor's check is recorded unless it fails.
Leave(p) ==
  /\ p \in busy /\ busy' = busy \ {p}
  /\ Checked(p) \/ UNCHANGED place
  /\ UNCHANGED <<config, watched, queue, done, visitors>>

Turn == Check \/ Busy

Next == Begin \/ Turn \/ Cut \/ \E p \in Product : Watch(p) \/ Visit(p) \/ Leave(p)

\* The worker is started again and again and goes through its batch.
Spec == Init /\ [][Next]_vars /\ WF_vars(Begin) /\ WF_vars(Turn) /\ \A p \in Product : WF_vars(Leave(p))

--------------------------------------------------------------------------------
(* Properties. *)

\* Every product has one place, and a batch names none twice.
TypeOK ==
  /\ place \in [Product -> Product] /\ \A p, q \in Product : place[p] = place[q] => p = q
  /\ watched \subseteq Product /\ busy \subseteq Product
  /\ size \in 1..MaxSize /\ done \in 0..size /\ visitors \in 0..MaxVisitors
  /\ \A i, j \in DOMAIN queue : i # j => queue[i] # queue[j]

\* A batch is as full as it can be, gives each kind its quota if the kind has as
\* many, and of each kind takes those that have waited longest ("The queue reserves
\* 80% for favourites/active alerts and 20% for historical products ..., with unused
\* capacity available to either group").
BatchIsFair ==
  LET batch == {Batch[i] : i \in DOMAIN Batch} IN
  /\ Cardinality(batch) = Least(size, Products)
  /\ \A kind \in {watched, Product \ watched} :
       LET quota == IF kind = watched THEN WatchQuota ELSE HistoryQuota IN
       /\ Cardinality(batch \cap kind) >= Least(quota, Cardinality(kind))
       /\ \A p \in batch \cap kind, q \in kind \ batch : place[p] < place[q]

\* A run has the time for the product of the history that has waited longest: as many of
\* the watched come before it in a batch as the quota of the watched holds that of the
\* history, its part rounded up.
HistoryHasTime == pace * HistoryQuota >= WatchQuota

\* "Oldest attempted items rotate first even after failures": every product gets its turn
\* as long as the worker runs, unless it is of the history and runs have no time for those:
\* the first of a batch are then always watched ones, and it waits until it is watched.
HasTurn(p) == place[p] # 1 \/ (p \notin watched /\ ~HistoryHasTime)
EveryTurnComes == \A p \in Product : []<>HasTurn(p)
================================================================================
