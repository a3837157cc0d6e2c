--------------------------- MODULE RefreshCoordinator ---------------------------
(***************************************************************************)
(* One refresh per product: forceRefreshComparison of src/priceService.js, *)
(* withDatabaseLock of src/db.js and their callers, in several processes   *)
(* that share one database.                                                *)
(*                                                                         *)
(* Inside a process the refreshes Map lets callers join the refresh that   *)
(* is under way; between processes an advisory lock refuses a second one.  *)
(* The lock belongs to a connection of a small pool of its own and is lost *)
(* with it, while the callback under it goes on: begin of the postgres     *)
(* library may reject at once and leave the callback behind, or the lost   *)
(* connection is only noticed at the end.                                  *)
(*                                                                         *)
(* A worker run is a caller that keeps a connection of the lock pool for   *)
(* its worker-wide lock and refreshes one product after the other.         *)
(***************************************************************************)
EXTENDS Naturals, FiniteSets

CONSTANTS
  Process,    \* web servers and cron workers
  Barcode,    \* products
  Visitor,    \* requests that ask for one refresh
  Worker,     \* worker runs
  Op,         \* refreshes: calls of getComparison under the product lock
  NoOp,       \* the absence of one
  NoSite,     \* where a refresh or caller is that is not running
  LockPool,   \* lockSql connections of a process
  DataPool    \* sql connections of a process

Caller == Visitor \cup Worker
Site   == [proc : Process, barcode : Barcode]

ASSUME OpAssumption     == NoOp \notin Op /\ NoSite \notin Site /\ NoSite \notin Process
ASSUME CallerAssumption == Visitor \cap Worker = {} /\ Op \cap (Visitor \cup Worker) = {}
ASSUME PoolAssumption   == LockPool \in Nat \ {0} /\ DataPool \in Nat \ {0}

VARIABLES
  refreshes,  \* refreshes[p][b]: the Map of process p
  phase,      \* phase[i]: how far refresh i has come
  site,       \* site[i]: its process and product
  lock,       \* lock[b]: the refresh whose session holds the product's advisory lock
  conn,       \* conn[x]: does refresh or worker x have a live lock connection?
  caller,     \* where each caller is
  home,       \* home[c]: the process that serves it
  waits,      \* waits[c]: the refresh whose promise it awaits
  under,      \* history: refreshes of the product still running when i took the lock
  overtaken   \* history: has a refresh that began later recorded its result?

opVars   == <<refreshes, phase, site, lock>>
callVars == <<caller, home, waits>>
history  == <<under, overtaken>>
vars     == <<opVars, conn, callVars, history>>

Comparing == {"scraping", "storing", "recording", "returning"}
Running(c) == c \in Worker /\ caller[c] \in {"ready", "waiting"}

TypeOK ==
  /\ refreshes \in [Process -> [Barcode -> Op \cup {NoOp}]]
  /\ phase  \in [Op -> {"none", "queued", "locking"} \cup Comparing]
  /\ site   \in [Op -> Site \cup {NoSite}]
  /\ lock   \in [Barcode -> Op \cup {NoOp}]
  /\ conn   \in [Op \cup Worker -> BOOLEAN]
  /\ caller \in [Caller -> {"idle", "connecting", "ready", "waiting"}]
  /\ home   \in [Caller -> Process \cup {NoSite}]
  /\ waits  \in [Caller -> Op \cup {NoOp}]
  /\ under  \in [Op -> SUBSET Op]
  /\ overtaken \in [Op -> BOOLEAN]
  /\ \A i \in Op : phase[i] # "none" => site[i] \in Site
  /\ \A c \in Caller : caller[c] # "idle" => home[c] \in Process

Init ==
  /\ refreshes = [p \in Process |-> [b \in Barcode |-> NoOp]]
  /\ phase = [i \in Op |-> "none"]
  /\ site = [i \in Op |-> NoSite]
  /\ lock = [b \in Barcode |-> NoOp]
  /\ conn = [x \in Op \cup Worker |-> FALSE]
  /\ caller = [c \in Caller |-> "idle"]
  /\ home = [c \in Caller |-> NoSite]
  /\ waits = [c \in Caller |-> NoOp]
  /\ under = [i \in Op |-> {}]
  /\ overtaken = [i \in Op |-> FALSE]

--------------------------------------------------------------------------------
(* The connection pools. *)

ProcessOf(x) == IF x \in Op THEN (IF phase[x] = "none" THEN NoSite ELSE site[x].proc) ELSE home[x]

LockConnections(p) == {x \in Op \cup Worker : conn[x] /\ ProcessOf(x) = p}
LockFree(p) == Cardinality(LockConnections(p)) < LockPool

DataConnections(p) == {i \in Op : phase[i] = "recording" /\ site[i].proc = p}

\* Mutant: statements take their connections from the pool of the locks.
SharedFree(p) == Cardinality(LockConnections(p)) + Cardinality(DataConnections(p)) < LockPool

DataFree(p) == Cardinality(DataConnections(p)) < DataPool

--------------------------------------------------------------------------------
(* Callers. *)

\* forceRefreshComparison: join the refresh the Map holds, or start one.
Refresh(c, p, b) ==
  \/ /\ refreshes[p][b] # NoOp
     /\ waits' = [waits EXCEPT ![c] = refreshes[p][b]]
     /\ UNCHANGED <<opVars, conn, history>>
  \/ /\ refreshes[p][b] = NoOp
     /\ \E i \in Op :
          /\ phase[i] = "none"
          /\ phase' = [phase EXCEPT ![i] = "queued"]
          /\ site' = [site EXCEPT ![i] = [proc |-> p, barcode |-> b]]
          /\ refreshes' = [refreshes EXCEPT ![p][b] = i]
          /\ waits' = [waits EXCEPT ![c] = i]
     /\ UNCHANGED <<lock, conn, history>>

\* /price/refresh, /users/watchlist/:barcode/refresh, or a comparison whose
\* cached rows are missing or stale.
VisitorAsks(c) ==
  /\ c \in Visitor
  /\ caller[c] = "idle"
  /\ \E p \in Process, b \in Barcode :
       /\ Refresh(c, p, b)
       /\ home' = [home EXCEPT ![c] = p]
  /\ caller' = [caller EXCEPT ![c] = "waiting"]

\* runWatchlistWorker asks for a connection and tries the worker-wide lock.
WorkerStarts(c) ==
  /\ c \in Worker
  /\ caller[c] = "idle"
  /\ \E p \in Process : home' = [home EXCEPT ![c] = p]
  /\ caller' = [caller EXCEPT ![c] = "connecting"]
  /\ UNCHANGED <<opVars, conn, waits, history>>

WorkerLockGranted(c) == \A d \in Worker : ~(Running(d) /\ conn[d])

WorkerConnects(c) ==
  /\ c \in Worker
  /\ caller[c] = "connecting"
  /\ LockFree(home[c])
  /\ WorkerLockGranted(c)
  /\ caller' = [caller EXCEPT ![c] = "ready"]
  /\ conn' = [conn EXCEPT ![c] = TRUE]
  /\ UNCHANGED <<opVars, home, waits, history>>

Idle(c) ==
  /\ caller' = [caller EXCEPT ![c] = "idle"]
  /\ home' = [home EXCEPT ![c] = NoSite]

\* worker_already_running
WorkerRefused(c) ==
  /\ c \in Worker
  /\ caller[c] = "connecting"
  /\ LockFree(home[c])
  /\ ~WorkerLockGranted(c)
  /\ Idle(c)
  /\ UNCHANGED <<opVars, conn, waits, history>>

WorkerAsks(c) ==
  /\ c \in Worker
  /\ caller[c] = "ready"
  /\ \E b \in Barcode : Refresh(c, home[c], b)
  /\ caller' = [caller EXCEPT ![c] = "waiting"]
  /\ UNCHANGED home

WorkerEnds(c) ==
  /\ c \in Worker
  /\ caller[c] = "ready"
  /\ Idle(c)
  /\ conn' = [conn EXCEPT ![c] = FALSE]
  /\ UNCHANGED <<opVars, waits, history>>

--------------------------------------------------------------------------------
(* A refresh. *)

Waiters(i) == {c \in Caller : caller[c] = "waiting" /\ waits[c] = i}
Pending(i) == refreshes[site[i].proc][site[i].barcode] = i

\* Mutant: a refresh that is over stays in the Map.
KeepInMap(i) ==
  /\ refreshes' = refreshes
  /\ caller' = [c \in Caller |-> IF c \notin Waiters(i) THEN caller[c]
                                 ELSE IF c \in Worker THEN "ready" ELSE "idle"]
  /\ home' = [c \in Caller |-> IF c \in Waiters(i) \cap Visitor THEN NoSite ELSE home[c]]
  /\ waits' = [c \in Caller |-> IF c \in Waiters(i) THEN NoOp ELSE waits[c]]

\* Mutant: an answered worker forgets its process.
ForgetHome(i) ==
  /\ refreshes' = [refreshes EXCEPT ![site[i].proc][site[i].barcode] = NoOp]
  /\ caller' = [c \in Caller |-> IF c \notin Waiters(i) THEN caller[c]
                                 ELSE IF c \in Worker THEN "ready" ELSE "idle"]
  /\ home' = [c \in Caller |-> IF c \in Waiters(i) THEN NoSite ELSE home[c]]
  /\ waits' = [c \in Caller |-> IF c \in Waiters(i) THEN NoOp ELSE waits[c]]

\* The promise settles: the entry is deleted and everybody who joined is
\* answered, whatever the answer.
Settle(i) ==
  /\ refreshes' = [refreshes EXCEPT ![site[i].proc][site[i].barcode] = NoOp]
  /\ caller' = [c \in Caller |-> IF c \notin Waiters(i) THEN caller[c]
                                 ELSE IF c \in Worker THEN "ready" ELSE "idle"]
  /\ home' = [c \in Caller |-> IF c \in Waiters(i) \cap Visitor THEN NoSite ELSE home[c]]
  /\ waits' = [c \in Caller |-> IF c \in Waiters(i) THEN NoOp ELSE waits[c]]

\* The transaction and the callback are over.
End(i) ==
  /\ phase' = [phase EXCEPT ![i] = "none"]
  /\ site' = [site EXCEPT ![i] = NoSite]
  /\ conn' = [conn EXCEPT ![i] = FALSE]
  /\ under' = [j \in Op |-> IF j = i THEN {} ELSE under[j] \ {i}]
  /\ overtaken' = [overtaken EXCEPT ![i] = FALSE]

\* lockSql.begin waits for a connection of its pool.
Connect(i) ==
  /\ phase[i] = "queued"
  /\ LockFree(site[i].proc)
  /\ phase' = [phase EXCEPT ![i] = "locking"]
  /\ conn' = [conn EXCEPT ![i] = TRUE]
  /\ UNCHANGED <<refreshes, site, lock, callVars, history>>

ConnectFails(i) ==
  /\ phase[i] = "queued"
  /\ Settle(i)
  /\ End(i)
  /\ UNCHANGED lock

\* Mutant: the product lock is not asked for.
Unlocked(b) == TRUE

Grantable(b) == lock[b] = NoOp

\* pg_try_advisory_xact_lock; the history notes who is still running.
TakeLock(i) ==
  LET b == site[i].barcode IN
  /\ phase[i] = "locking" /\ conn[i]
  /\ Grantable(b)
  /\ lock' = [lock EXCEPT ![b] = i]
  /\ phase' = [phase EXCEPT ![i] = "scraping"]
  /\ under' = [under EXCEPT ![i] =
       {j \in Op : phase[j] \in Comparing /\ site[j].barcode = b}]
  /\ UNCHANGED <<refreshes, site, conn, callVars, overtaken>>

\* REFRESH_IN_PROGRESS, or the connection is gone.
Refused(i) ==
  /\ phase[i] = "locking"
  /\ ~Grantable(site[i].barcode) \/ ~conn[i]
  /\ Settle(i)
  /\ End(i)
  /\ UNCHANGED lock

\* The retailers answer or time out, and the comparison is put together.
Scrape(i) ==
  /\ phase[i] = "scraping"
  /\ phase' = [phase EXCEPT ![i] = "storing"]
  /\ UNCHANGED <<refreshes, site, lock, conn, callVars, history>>

\* recordComparisonCheck waits for a connection of the other pool ...
Store(i) ==
  /\ phase[i] = "storing"
  /\ DataFree(site[i].proc)
  /\ phase' = [phase EXCEPT ![i] = "recording"]
  /\ UNCHANGED <<refreshes, site, lock, conn, callVars, history>>

\* ... and overwrites the row of the product.
Record(i) ==
  /\ phase[i] = "recording"
  /\ phase' = [phase EXCEPT ![i] = "returning"]
  /\ overtaken' = [j \in Op |-> overtaken[j] \/ j \in under[i]]
  /\ UNCHANGED <<refreshes, site, lock, conn, callVars, under>>

\* getComparison throws, before or without recording anything.
CompareFails(i) ==
  /\ phase[i] \in {"scraping", "storing", "recording"}
  /\ phase' = [phase EXCEPT ![i] = "returning"]
  /\ UNCHANGED <<refreshes, site, lock, conn, callVars, history>>

Release(i) == lock' = [b \in Barcode |-> IF lock[b] = i THEN NoOp ELSE lock[b]]

\* Commit, or rollback: the lock goes with the transaction.  A callback that
\* was left behind has nobody to answer any more.
Return(i) ==
  /\ phase[i] = "returning"
  /\ IF Pending(i) THEN Settle(i) ELSE UNCHANGED <<refreshes, callVars>>
  /\ Release(i)
  /\ End(i)

--------------------------------------------------------------------------------
(* Faults. *)

\* The session ends on the server: its advisory lock is free again.
LoseConnection(i) ==
  /\ conn[i]
  /\ phase[i] # "none"
  /\ conn' = [conn EXCEPT ![i] = FALSE]
  /\ Release(i)
  /\ UNCHANGED <<refreshes, phase, site, callVars, history>>

\* begin rejects as soon as it sees the closed connection (external).
RejectEarly(i) ==
  /\ phase[i] \in Comparing
  /\ ~conn[i]
  /\ Pending(i)
  /\ Settle(i)
  /\ UNCHANGED <<phase, site, lock, conn, history>>

WorkerLosesConnection(c) ==
  /\ Running(c) /\ conn[c]
  /\ conn' = [conn EXCEPT ![c] = FALSE]
  /\ UNCHANGED <<opVars, callVars, history>>

\* A process ends and takes its Map, its refreshes and its sessions with it.
Restart(p) ==
  LET gone == {i \in Op : phase[i] # "none" /\ site[i].proc = p}
      left == {c \in Caller : home[c] = p}
  IN
  /\ gone \cup left # {}
  /\ refreshes' = [refreshes EXCEPT ![p] = [b \in Barcode |-> NoOp]]
  /\ phase' = [i \in Op |-> IF i \in gone THEN "none" ELSE phase[i]]
  /\ site' = [i \in Op |-> IF i \in gone THEN NoSite ELSE site[i]]
  /\ lock' = [b \in Barcode |-> IF lock[b] \in gone THEN NoOp ELSE lock[b]]
  /\ conn' = [x \in Op \cup Worker |-> conn[x] /\ x \notin gone \cup left]
  /\ caller' = [c \in Caller |-> IF c \in left THEN "idle" ELSE caller[c]]
  /\ home' = [c \in Caller |-> IF c \in left THEN NoSite ELSE home[c]]
  /\ waits' = [c \in Caller |-> IF c \in left THEN NoOp ELSE waits[c]]
  /\ under' = [i \in Op |-> IF i \in gone THEN {} ELSE under[i] \ gone]
  /\ overtaken' = [i \in Op |-> overtaken[i] /\ i \notin gone]

--------------------------------------------------------------------------------

Ask(c) ==
  \/ VisitorAsks(c) \/ WorkerStarts(c) \/ WorkerRefused(c)
  \/ WorkerConnects(c) \/ WorkerAsks(c) \/ WorkerEnds(c)

Step(i) ==
  \/ Connect(i) \/ TakeLock(i) \/ Refused(i)
  \/ Scrape(i) \/ Store(i) \/ Record(i) \/ Return(i)

Fault ==
  \/ \E i \in Op : ConnectFails(i) \/ CompareFails(i) \/ LoseConnection(i) \/ RejectEarly(i)
  \/ \E c \in Worker : WorkerLosesConnection(c)
  \/ \E p \in Process : Restart(p)

Next ==
  \/ \E c \in Caller : Ask(c)
  \/ \E i \in Op : Step(i)
  \/ Fault

Spec == Init /\ [][Next]_vars

\* Retailer calls and statements come to an end, and both pools serve their
\* queues first come, first served.
Fairness ==
  \A i \in Op :
    /\ SF_vars(Connect(i)) /\ SF_vars(Store(i))
    /\ WF_vars(TakeLock(i) \/ Refused(i))
    /\ WF_vars(Scrape(i)) /\ WF_vars(Record(i)) /\ WF_vars(Return(i))

FairSpec == Spec /\ Fairness

--------------------------------------------------------------------------------
(* Properties. *)

\* No two comparisons of one product run at once, in one process or in two,
\* unless one of them has lost the connection its lock was on.
\* (forceRefreshComparison, withDatabaseLock)
OneRefreshPerProduct ==
  \A i, j \in Op :
    /\ i # j
    /\ phase[i] \in Comparing /\ phase[j] \in Comparing
    /\ site[i].barcode = site[j].barcode
    => ~conn[i] \/ ~conn[j]

\* Whoever waits, waits for the refresh the Map of its process holds: callers
\* of one process share one refresh of a product, and none is left with a
\* promise that has already been settled.  (the finally of forceRefreshComparison)
WaitersShareRefresh ==
  \A c \in Caller : caller[c] = "waiting" =>
    LET i == waits[c] IN
    /\ i \in Op /\ phase[i] # "none"
    /\ site[i].proc = home[c]
    /\ Pending(i)

\* A result is never replaced by that of a refresh that took the lock before
\* it, unless that refresh has lost its connection.  (recordComparisonCheck
\* inside the lock)
NewestCheckWins ==
  [][\A i \in Op : Record(i) /\ overtaken[i] => ~conn[i]]_vars

\* Every caller is answered: no failure leaves it waiting, and a worker run,
\* its refreshes and their statements never wait for each other's connections.
\* (the separate pools of db.js)
EveryCallAnswered ==
  \A c \in Caller : caller[c] = "waiting" ~> caller[c] # "waiting"

================================================================================
