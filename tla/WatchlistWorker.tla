---------------------------- MODULE WatchlistWorker ----------------------------
(***************************************************************************)
(* The six-hour worker: runWatchlistWorker of src/watchlist.js and the     *)
(* records it keeps in watchlist_runs (src/db.js).                         *)
(*                                                                         *)
(* Every run has a row that says how far it has come.  One worker-wide     *)
(* advisory lock keeps runs apart; a run may lose it with its connection   *)
(* and learns of that from the heartbeat, later or never.  What a refresh  *)
(* does is the matter of RefreshCoordinator, what evaluate does that of    *)
(* AlertDelivery: here they only have outcomes.  Counters of the metrics   *)
(* are kept as the sets of products they count.                            *)
(***************************************************************************)
EXTENDS Integers, FiniteSets

CONSTANTS
  Run,         \* run ids; one whose row is settled may stand for a new run
  NoRun,       \* the absence of one
  Product,     \* what getWatchlistCandidates may select
  NoProduct,   \* the absence of one
  BatchLimit,  \* products per run
  MaxDeposed   \* bound: run ids at a time whose run has lost the lock

ASSUME RunAssumption     == NoRun \notin Run
ASSUME ProductAssumption == IsFiniteSet(Product) /\ NoProduct \notin Product
ASSUME BatchAssumption   == BatchLimit \in Nat \ {0} /\ MaxDeposed \in Nat

VARIABLES
  row,       \* watchlist_runs
  owner,     \* the run whose session has the worker-wide lock
  held,      \* held[r]: ownership.isHeld() && !shouldStop(), as the run sees it
  pc,        \* where each run is in runWatchlistWorker
  queue,     \* products of the batch still to be refreshed
  current,   \* the product being refreshed
  metrics,   \* the metrics object of each run
  deposed    \* history: runs that lost the lock before they were over

locals == <<held, pc, queue, current, metrics>>
vars   == <<row, owner, locals, deposed>>

Settled    == {"interrupted", "partial", "complete", "failed"}
InTry      == {"selecting", "looping", "refreshing", "failing", "noting", "evaluating", "finishing"}
Starting   == {"marking", "inserting"}
Metrics    == [selected : SUBSET Product, checked : SUBSET Product, failed : SUBSET Product,
               busy : SUBSET Product, alerts : {"none", "done", "skipped", "deferred", "failed"}]
NoMetrics  == [selected |-> {}, checked |-> {}, failed |-> {}, busy |-> {}, alerts |-> "none"]

TypeOK ==
  /\ row     \in [Run -> [state : {"absent", "running"} \cup Settled, metrics : Metrics]]
  /\ owner   \in Run \cup {NoRun}
  /\ held    \in [Run -> BOOLEAN]
  /\ pc      \in [Run -> {"none", "throwing", "leaving"} \cup Starting \cup InTry]
  /\ queue   \in [Run -> SUBSET Product]
  /\ current \in [Run -> Product \cup {NoProduct}]
  /\ metrics \in [Run -> Metrics]
  /\ deposed \in SUBSET Run

Init ==
  /\ row = [r \in Run |-> [state |-> "absent", metrics |-> NoMetrics]]
  /\ owner = NoRun
  /\ held = [r \in Run |-> FALSE]
  /\ pc = [r \in Run |-> "none"]
  /\ queue = [r \in Run |-> {}]
  /\ current = [r \in Run |-> NoProduct]
  /\ metrics = [r \in Run |-> NoMetrics]
  /\ deposed = {}

Goto(r, here, there) ==
  /\ pc[r] = here
  /\ pc' = [pc EXCEPT ![r] = there]

Write(r, state) == row' = [row EXCEPT ![r] = [state |-> state, metrics |-> metrics[r]]]

--------------------------------------------------------------------------------
(* The lock, and startWatchlistRun. *)

\* The cron job starts a process and withDatabaseLock lets it in.
Begin(r) ==
  /\ owner = NoRun
  /\ row[r].state # "running"
  /\ Goto(r, "none", "marking")
  /\ owner' = r
  /\ held' = [held EXCEPT ![r] = TRUE]
  /\ metrics' = [metrics EXCEPT ![r] = NoMetrics]
  /\ row' = [row EXCEPT ![r] = [state |-> "absent", metrics |-> NoMetrics]]
  /\ deposed' = deposed \ {r}
  /\ UNCHANGED <<queue, current>>

\* worker_already_running: the process that comes too early leaves no trace.
Refused == owner # NoRun /\ UNCHANGED vars

\* Mutant: what earlier workers left behind stays.
LeaveRunning(r) ==
  /\ Goto(r, "marking", "inserting")
  /\ UNCHANGED <<row, owner, held, queue, current, metrics, deposed>>

Mark == row' = [s \in Run |-> IF row[s].state = "running"
                              THEN [state |-> "interrupted", metrics |-> row[s].metrics]
                              ELSE row[s]]

\* The first statement of startWatchlistRun ...
MarkInterrupted(r) ==
  /\ Goto(r, "marking", "inserting")
  /\ Mark
  /\ UNCHANGED <<owner, held, queue, current, metrics, deposed>>

\* ... and the second.
InsertRow(r) ==
  /\ Goto(r, "inserting", "selecting")
  /\ Write(r, "running")
  /\ UNCHANGED <<owner, held, queue, current, metrics, deposed>>

\* Either throws, outside the try block; its effect may be in place.
StartFails(r) ==
  /\ pc[r] \in Starting
  /\ pc' = [pc EXCEPT ![r] = "leaving"]
  /\ \/ row' = row
     \/ pc[r] = "marking" /\ Mark
     \/ pc[r] = "inserting" /\ Write(r, "running")
  /\ UNCHANGED <<owner, held, queue, current, metrics, deposed>>

--------------------------------------------------------------------------------
(* The batch. *)

Select(r) ==
  /\ Goto(r, "selecting", "looping")
  /\ \E batch \in SUBSET Product :
       /\ Cardinality(batch) <= BatchLimit
       /\ queue' = [queue EXCEPT ![r] = batch]
       /\ metrics' = [metrics EXCEPT ![r].selected = batch]
  /\ UNCHANGED <<row, owner, held, current, deposed>>

\* Mutant: the batch has run out and the loop takes what is not there.
TakeNothing(r) ==
  /\ Goto(r, "looping", "refreshing")
  /\ held[r]
  /\ \E b \in queue[r] \cup {NoProduct} :
       /\ current' = [current EXCEPT ![r] = b]
       /\ queue' = [queue EXCEPT ![r] = @ \ {b}]
  /\ UNCHANGED <<row, owner, held, metrics, deposed>>

\* The run still believes to be in charge and has time for one more product.
Take(r) ==
  /\ Goto(r, "looping", "refreshing")
  /\ held[r]
  /\ \E b \in queue[r] :
       /\ current' = [current EXCEPT ![r] = b]
       /\ queue' = [queue EXCEPT ![r] = @ \ {b}]
  /\ UNCHANGED <<row, owner, held, metrics, deposed>>

Refreshed(r) ==
  /\ Goto(r, "refreshing", "noting")
  /\ metrics' = [metrics EXCEPT ![r].checked = @ \cup {current[r]}]
  /\ UNCHANGED <<row, owner, held, queue, current, deposed>>

\* REFRESH_IN_PROGRESS
RefreshBusy(r) ==
  /\ Goto(r, "refreshing", "noting")
  /\ metrics' = [metrics EXCEPT ![r].busy = @ \cup {current[r]}]
  /\ UNCHANGED <<row, owner, held, queue, current, deposed>>

RefreshFails(r) ==
  /\ Goto(r, "refreshing", "failing")
  /\ metrics' = [metrics EXCEPT ![r].failed = @ \cup {current[r]}]
  /\ UNCHANGED <<row, owner, held, queue, current, deposed>>

RecordFailure(r) ==
  /\ Goto(r, "failing", "noting")
  /\ UNCHANGED <<row, owner, held, queue, current, metrics, deposed>>

\* updateWatchlistRun after each product: the row is running, whatever it was.
Note(r) ==
  /\ Goto(r, "noting", "looping")
  /\ Write(r, "running")
  /\ current' = [current EXCEPT ![r] = NoProduct]
  /\ UNCHANGED <<owner, held, queue, metrics, deposed>>

\* The batch is done, the run has lost its standing, or time is short.
LeaveLoop(r) ==
  /\ Goto(r, "looping", "evaluating")
  /\ UNCHANGED <<row, owner, held, queue, current, metrics, deposed>>

\* Mutant: busy products count as dealt with.
DeferredButBusy(m) ==
  Cardinality(m.selected) - Cardinality(m.checked) - Cardinality(m.failed) - Cardinality(m.busy)

Deferred(m) == Cardinality(m.selected) - Cardinality(m.checked) - Cardinality(m.failed)

\* evaluatePriceAlerts: all alerts were dealt with, some deliveries failed, the
\* rest was deferred, or no alert was looked at, as mail is not configured.
Evaluate(r) ==
  /\ Goto(r, "evaluating", "finishing")
  /\ \E outcome \in {"done", "skipped", "failed", "deferred"} :
       metrics' = [metrics EXCEPT ![r].alerts = outcome]
  /\ UNCHANGED <<row, owner, held, queue, current, deposed>>

\* That mail is not configured is noted in the metrics and changes nothing here.
FinalState(r) ==
  LET m == metrics[r] IN
  IF m.failed # {} \/ Deferred(m) # 0 \/ m.alerts \in {"failed", "deferred"} \/ ~held[r]
  THEN "partial" ELSE "complete"

Finish(r) ==
  /\ Goto(r, "finishing", "leaving")
  /\ Write(r, FinalState(r))
  /\ UNCHANGED <<owner, held, queue, current, metrics, deposed>>

\* A statement of the try block throws; an update may have been made and only
\* its answer lost.
Throw(r) ==
  /\ pc[r] \in InTry
  /\ pc' = [pc EXCEPT ![r] = "throwing"]
  /\ \/ row' = row
     \/ pc[r] = "noting" /\ Write(r, "running")
     \/ pc[r] = "finishing" /\ Write(r, FinalState(r))
  /\ UNCHANGED <<owner, held, queue, current, metrics, deposed>>

\* The catch block records the failure, if it can.
RecordThrow(r) ==
  /\ Goto(r, "throwing", "leaving")
  /\ Write(r, "failed") \/ row' = row
  /\ UNCHANGED <<owner, held, queue, current, metrics, deposed>>

\* Mutant: a lock of the session, which the pool keeps open, not of the
\* transaction.
KeepLock(r) ==
  /\ pc' = [pc EXCEPT ![r] = "none"]
  /\ held' = [held EXCEPT ![r] = FALSE]
  /\ queue' = [queue EXCEPT ![r] = {}]
  /\ current' = [current EXCEPT ![r] = NoProduct]
  /\ metrics' = [metrics EXCEPT ![r] = NoMetrics]
  /\ UNCHANGED <<row, owner, deposed>>

\* The transaction of the lock, or the process, is over.
Over(r) ==
  /\ pc' = [pc EXCEPT ![r] = "none"]
  /\ owner' = IF owner = r THEN NoRun ELSE owner
  /\ held' = [held EXCEPT ![r] = FALSE]
  /\ queue' = [queue EXCEPT ![r] = {}]
  /\ current' = [current EXCEPT ![r] = NoProduct]
  /\ metrics' = [metrics EXCEPT ![r] = NoMetrics]
  /\ UNCHANGED <<row, deposed>>

Leave(r) == pc[r] = "leaving" /\ Over(r)

--------------------------------------------------------------------------------
(* Faults. *)

\* The session of the lock ends; the run goes on.
LoseLock(r) ==
  /\ owner = r
  /\ Cardinality(deposed) < MaxDeposed
  /\ owner' = NoRun
  /\ deposed' = deposed \cup {r}
  /\ UNCHANGED <<row, locals>>

\* The heartbeat finds out, or SIGTERM arrives.
LoseStanding(r) ==
  /\ held[r]
  /\ held' = [held EXCEPT ![r] = FALSE]
  /\ UNCHANGED <<row, owner, pc, queue, current, metrics, deposed>>

\* A crash, or the safety stop of run-watchlist.js; of a run that has nothing
\* left to do it is what Leave does.
Crash(r) == pc[r] \notin {"none", "leaving"} /\ Over(r)

--------------------------------------------------------------------------------

Step(r) ==
  \/ MarkInterrupted(r) \/ InsertRow(r) \/ Select(r) \/ Take(r)
  \/ Refreshed(r) \/ RefreshBusy(r) \/ RefreshFails(r) \/ RecordFailure(r)
  \/ Note(r) \/ LeaveLoop(r) \/ Evaluate(r) \/ Finish(r) \/ RecordThrow(r) \/ Leave(r)

Fault(r) ==
  StartFails(r) \/ Throw(r) \/ LoseLock(r) \/ LoseStanding(r) \/ Crash(r)

Next == Refused \/ \E r \in Run : Begin(r) \/ Step(r) \/ Fault(r)

Spec == Init /\ [][Next]_vars

\* The cron job comes again, and a live process goes on.
Fairness ==
  /\ WF_vars(\E r \in Run : Begin(r))
  /\ \A r \in Run : WF_vars(Step(r))

FairSpec == Spec /\ Fairness

--------------------------------------------------------------------------------
(* Properties. *)

\* A run is only recorded as complete when it has checked every product it
\* selected and dealt with every alert, or was not configured to mail and says
\* so: skipped, busy and failed products, a failed or deferred delivery, or an
\* early stop always show.  ("records deferred work rather than claiming
\* completion", tests/trolleywise-watchlist.test.js, whose runs without mail
\* are complete all the same.)
CompleteMeansChecked ==
  \A r \in Run : row[r].state = "complete" =>
    LET m == row[r].metrics IN
    /\ m.checked = m.selected
    /\ m.failed = {} /\ m.busy = {}
    /\ m.alerts \in {"done", "skipped"}

\* However workers die, at most one row says running, unless a run has lost
\* its lock and does not know.  (the first statement of startWatchlistRun)
OneRunningRow ==
  \A r, s \in Run \ deposed : row[r].state = "running" /\ row[s].state = "running" => r = s

\* The row of a dead worker does not stay running: once faults come to rest,
\* a later run settles it.  (scripts/run-watchlist.js: "until the next worker
\* marks it interrupted")
StaleRowsSettle ==
  <>[][~\E r \in Run : Fault(r)]_vars =>
    \A r \in Run : []<>(row[r].state = "running" => pc[r] # "none")

\* What startWatchlistRun says of the rows it marks: "any previous running
\* record belongs to an interrupted worker rather than a concurrent active
\* worker" (src/db.js).
PreviousRunIsOver ==
  [][\A r, s \in Run : MarkInterrupted(r) /\ row[s].state = "running" => pc[s] = "none"]_vars

================================================================================
