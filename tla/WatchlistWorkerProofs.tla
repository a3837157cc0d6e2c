-------------------------- MODULE WatchlistWorkerProofs --------------------------
(***************************************************************************)
(* WatchlistWorker, proved for any number of runs and products, and any    *)
(* number of runs that have lost the lock.                                 *)
(***************************************************************************)
EXTENDS WatchlistWorker, FiniteSetTheorems, TLAPS

USE RunAssumption, ProductAssumption, BatchAssumption
    DEF RunAssumption, ProductAssumption, BatchAssumption

Dealt(m) == m.checked \cup m.failed \cup m.busy

\* The metrics of a batch: nothing is counted twice, and what is still to come
\* is not counted yet.
Accounted(r) ==
  LET m == metrics[r] IN
  /\ Dealt(m) \subseteq m.selected
  /\ queue[r] \subseteq m.selected
  /\ m.checked \cap m.failed = {} /\ m.checked \cap m.busy = {}
  /\ queue[r] \cap Dealt(m) = {}

\* The product being refreshed is one of the batch and counted nowhere.
InHand(r) ==
  pc[r] = "refreshing" =>
    /\ current[r] \in metrics[r].selected
    /\ current[r] \notin queue[r] \cup Dealt(metrics[r])

\* Before the batch is selected there is nothing to count.
Fresh(r) ==
  pc[r] \in Starting \cup {"none", "selecting"} => metrics[r] = NoMetrics /\ queue[r] = {}

Batches == \A r \in Run : Accounted(r) /\ InHand(r) /\ Fresh(r)

\* A run that has only its last update left has tried the alerts.
AlertsTried == \A r \in Run : pc[r] = "finishing" => metrics[r].alerts # "none"

\* A run that is alive has the lock, unless it has lost it.
LockKept == \A r \in Run \ deposed : pc[r] # "none" => owner = r

\* From the first statement of startWatchlistRun to the last update of a run
\* that kept its lock, nobody else's row says running.
OthersSettled ==
  \A r, s \in Run \ deposed :
    pc[r] \in InTry \cup {"inserting", "throwing"} /\ row[s].state = "running" => r = s

Records == LockKept /\ OthersSettled /\ OneRunningRow

IInv == TypeOK /\ Batches /\ AlertsTried /\ CompleteMeansChecked /\ Records

--------------------------------------------------------------------------------
(* Types. *)

LEMMA NoMetricsTyped == NoMetrics \in Metrics
  BY DEF NoMetrics, Metrics

LEMMA FinalStates == \A r \in Run : FinalState(r) \in {"partial", "complete"}
  BY DEF FinalState

\* What an update writes is a row.
LEMMA WriteTyped ==
  ASSUME TypeOK, NEW r \in Run, NEW state \in {"running"} \cup Settled, Write(r, state)
  PROVE  row' \in [Run -> [state : {"absent", "running"} \cup Settled, metrics : Metrics]]
  BY DEF TypeOK, Write, Settled

LEMMA MarkTyped ==
  ASSUME TypeOK, Mark
  PROVE  row' \in [Run -> [state : {"absent", "running"} \cup Settled, metrics : Metrics]]
  BY DEF TypeOK, Mark, Settled

LEMMA InitTyped == Init => TypeOK
  BY NoMetricsTyped DEF Init, TypeOK

LEMMA BeginTyped ==
  ASSUME TypeOK, NEW r \in Run, Begin(r)
  PROVE  TypeOK'
  <1>1. row' \in [Run -> [state : {"absent", "running"} \cup Settled, metrics : Metrics]]
    BY NoMetricsTyped DEF TypeOK, Begin
  <1> QED
    BY <1>1, NoMetricsTyped DEF TypeOK, Begin, Goto, Starting

\* Changing one field of the metrics.
LEMMA FieldTyped ==
  ASSUME NEW m \in Metrics, NEW S \in SUBSET Product, NEW a \in {"none", "done", "skipped", "deferred", "failed"}
  PROVE  /\ [m EXCEPT !.selected = S] \in Metrics
         /\ [m EXCEPT !.checked = S] \in Metrics
         /\ [m EXCEPT !.failed = S] \in Metrics
         /\ [m EXCEPT !.busy = S] \in Metrics
         /\ [m EXCEPT !.alerts = a] \in Metrics
  BY DEF Metrics

\* What each of the steps that count makes of the metrics of its run.
LEMMA Counted ==
  ASSUME TypeOK, NEW r \in Run
  PROVE  /\ Select(r) => \E S \in SUBSET Product :
              /\ metrics' = [metrics EXCEPT ![r] = [metrics[r] EXCEPT !.selected = S]]
              /\ queue' = [queue EXCEPT ![r] = S]
         /\ Refreshed(r) => metrics' = [metrics EXCEPT ![r] =
              [metrics[r] EXCEPT !.checked = metrics[r].checked \cup {current[r]}]]
         /\ RefreshBusy(r) => metrics' = [metrics EXCEPT ![r] =
              [metrics[r] EXCEPT !.busy = metrics[r].busy \cup {current[r]}]]
         /\ RefreshFails(r) => metrics' = [metrics EXCEPT ![r] =
              [metrics[r] EXCEPT !.failed = metrics[r].failed \cup {current[r]}]]
         /\ Evaluate(r) => \E a \in {"done", "skipped", "failed", "deferred"} :
              metrics' = [metrics EXCEPT ![r] = [metrics[r] EXCEPT !.alerts = a]]
  BY DEF TypeOK, Select, Refreshed, RefreshBusy, RefreshFails, Evaluate

\* The metrics keep their type when a product is counted.
LEMMA CountTyped ==
  ASSUME TypeOK, NEW r \in Run,
         Select(r) \/ Refreshed(r) \/ RefreshBusy(r) \/ RefreshFails(r) \/ Evaluate(r),
         pc[r] = "refreshing" => current[r] \in Product
  PROVE  TypeOK'
  <1>1. metrics' \in [Run -> Metrics]
    <2>1. metrics[r] \in Metrics
      BY DEF TypeOK
    <2>2. /\ metrics[r].checked \subseteq Product /\ metrics[r].failed \subseteq Product
          /\ metrics[r].busy \subseteq Product
      BY <2>1 DEF Metrics
    <2>3. \E m \in Metrics : metrics' = [metrics EXCEPT ![r] = m]
      <3>1. CASE Select(r)
        BY <3>1, <2>1, Counted, FieldTyped
      <3>2. CASE Refreshed(r)
        <4>1. metrics[r].checked \cup {current[r]} \in SUBSET Product
          BY <3>2, <2>2 DEF Refreshed, Goto
        <4>2. [metrics[r] EXCEPT !.checked = metrics[r].checked \cup {current[r]}] \in Metrics
          BY <4>1, <2>1, FieldTyped
        <4> QED
          BY <3>2, <4>2, Counted
      <3>3. CASE RefreshBusy(r)
        <4>1. metrics[r].busy \cup {current[r]} \in SUBSET Product
          BY <3>3, <2>2 DEF RefreshBusy, Goto
        <4>2. [metrics[r] EXCEPT !.busy = metrics[r].busy \cup {current[r]}] \in Metrics
          BY <4>1, <2>1, FieldTyped
        <4> QED
          BY <3>3, <4>2, Counted
      <3>4. CASE RefreshFails(r)
        <4>1. metrics[r].failed \cup {current[r]} \in SUBSET Product
          BY <3>4, <2>2 DEF RefreshFails, Goto
        <4>2. [metrics[r] EXCEPT !.failed = metrics[r].failed \cup {current[r]}] \in Metrics
          BY <4>1, <2>1, FieldTyped
        <4> QED
          BY <3>4, <4>2, Counted
      <3>5. CASE Evaluate(r)
        BY <3>5, <2>1, Counted, FieldTyped
      <3> QED
        BY <3>1, <3>2, <3>3, <3>4, <3>5
    <2> QED
      BY <2>3 DEF TypeOK
  <1>2. queue' \in [Run -> SUBSET Product]
    BY DEF TypeOK, Select, Refreshed, RefreshBusy, RefreshFails, Evaluate
  <1>3. pc' \in [Run -> {"none", "throwing", "leaving"} \cup Starting \cup InTry]
    BY DEF TypeOK, Select, Refreshed, RefreshBusy, RefreshFails, Evaluate, Goto, InTry
  <1> QED
    BY <1>1, <1>2, <1>3 DEF TypeOK, Select, Refreshed, RefreshBusy, RefreshFails, Evaluate

\* Steps that only move on, or only write the row.
LEMMA MoveTyped ==
  ASSUME TypeOK, NEW r \in Run,
         \/ MarkInterrupted(r) \/ InsertRow(r) \/ RecordFailure(r) \/ Note(r) \/ LeaveLoop(r)
         \/ Take(r) \/ Finish(r) \/ RecordThrow(r) \/ StartFails(r) \/ Throw(r)
  PROVE  TypeOK'
  <1>1. row' \in [Run -> [state : {"absent", "running"} \cup Settled, metrics : Metrics]]
    <2>1. CASE row' = row
      BY <2>1 DEF TypeOK
    <2>2. CASE Mark
      BY <2>2, MarkTyped
    <2>3. CASE \E state \in {"running"} \cup Settled : Write(r, state)
      BY <2>3, WriteTyped
    <2>4. "running" \in {"running"} \cup Settled /\ "failed" \in {"running"} \cup Settled
      BY DEF Settled
    <2>5. FinalState(r) \in {"running"} \cup Settled
      BY FinalStates DEF Settled
    <2> QED
      BY <2>1, <2>2, <2>3, <2>4, <2>5
      DEF MarkInterrupted, InsertRow, RecordFailure, Note, LeaveLoop, Take, Finish, RecordThrow,
          StartFails, Throw
  <1>2. pc' \in [Run -> {"none", "throwing", "leaving"} \cup Starting \cup InTry]
    BY DEF TypeOK, MarkInterrupted, InsertRow, RecordFailure, Note, LeaveLoop, Take, Finish,
           RecordThrow, StartFails, Throw, Goto, Starting, InTry
  <1>3. /\ current' \in [Run -> Product \cup {NoProduct}]
        /\ queue' \in [Run -> SUBSET Product]
    BY DEF TypeOK, MarkInterrupted, InsertRow, RecordFailure, Note, LeaveLoop, Take, Finish,
           RecordThrow, StartFails, Throw
  <1>4. UNCHANGED <<owner, held, metrics, deposed>>
    BY DEF MarkInterrupted, InsertRow, RecordFailure, Note, LeaveLoop, Take, Finish,
           RecordThrow, StartFails, Throw
  <1> QED
    BY <1>1, <1>2, <1>3, <1>4 DEF TypeOK

LEMMA EndTyped ==
  ASSUME TypeOK, NEW r \in Run, Leave(r) \/ Crash(r) \/ LoseLock(r) \/ LoseStanding(r)
  PROVE  TypeOK'
  <1>1. CASE Leave(r) \/ Crash(r)
    <2>1. Over(r)
      BY <1>1 DEF Leave, Crash
    <2>2. metrics' \in [Run -> Metrics]
      BY <2>1, NoMetricsTyped DEF TypeOK, Over
    <2>3. pc' \in [Run -> {"none", "throwing", "leaving"} \cup Starting \cup InTry]
      BY <2>1 DEF TypeOK, Over
    <2>4. /\ owner' \in Run \cup {NoRun}
          /\ held' \in [Run -> BOOLEAN]
          /\ queue' \in [Run -> SUBSET Product]
          /\ current' \in [Run -> Product \cup {NoProduct}]
      BY <2>1 DEF TypeOK, Over
    <2> QED
      BY <2>1, <2>2, <2>3, <2>4 DEF TypeOK, Over
  <1>2. CASE LoseLock(r)
    BY <1>2 DEF TypeOK, LoseLock, locals
  <1>3. CASE LoseStanding(r)
    BY <1>3 DEF TypeOK, LoseStanding
  <1> QED
    BY <1>1, <1>2, <1>3

--------------------------------------------------------------------------------
(* The accounting. *)

\* What a run counts concerns no other run.
LEMMA OtherBatches ==
  ASSUME TypeOK, Batches, NEW r \in Run, NEW q \in Run, q # r,
         Begin(r) \/ Step(r) \/ Fault(r)
  PROVE  Accounted(q)' /\ InHand(q)' /\ Fresh(q)'
  <1>1. metrics'[q] = metrics[q]
    BY DEF TypeOK, Begin, Step, Fault, MarkInterrupted, InsertRow, Select, Take, Refreshed,
           RefreshBusy, RefreshFails, RecordFailure, Note, LeaveLoop, Evaluate, Finish,
           RecordThrow, Leave, StartFails, Throw, LoseLock, LoseStanding, Crash, Over, locals
  <1>2. queue'[q] = queue[q] /\ current'[q] = current[q]
    BY DEF TypeOK, Begin, Step, Fault, MarkInterrupted, InsertRow, Select, Take, Refreshed,
           RefreshBusy, RefreshFails, RecordFailure, Note, LeaveLoop, Evaluate, Finish,
           RecordThrow, Leave, StartFails, Throw, LoseLock, LoseStanding, Crash, Over, locals
  <1>3. pc'[q] = pc[q]
    BY DEF TypeOK, Begin, Step, Fault, MarkInterrupted, InsertRow, Select, Take, Refreshed,
           RefreshBusy, RefreshFails, RecordFailure, Note, LeaveLoop, Evaluate, Finish,
           RecordThrow, Leave, StartFails, Throw, LoseLock, LoseStanding, Crash, Over, locals, Goto
  <1> QED
    BY <1>1, <1>2, <1>3 DEF Batches, Accounted, InHand, Fresh

LEMMA OwnBatch ==
  ASSUME TypeOK, Batches, NEW r \in Run, Begin(r) \/ Step(r) \/ Fault(r)
  PROVE  Accounted(r)' /\ InHand(r)' /\ Fresh(r)'
  <1> USE DEF Accounted, InHand, Fresh, Dealt
  <1>1. /\ Accounted(r) /\ InHand(r) /\ Fresh(r)
        /\ metrics[r] \in Metrics
    BY DEF Batches, TypeOK
  <1>2. CASE Begin(r) \/ Leave(r) \/ Crash(r)
    <2>1. metrics'[r] = NoMetrics
      BY <1>2 DEF TypeOK, Begin, Leave, Crash, Over
    <2>2. pc'[r] \in {"none", "marking"}
      BY <1>2 DEF TypeOK, Begin, Goto, Leave, Crash, Over
    <2>3. queue'[r] = {}
      <3>1. CASE Begin(r)
        BY <3>1, <1>1 DEF Begin, Goto
      <3> QED
        BY <3>1, <1>2 DEF TypeOK, Leave, Crash, Over
    <2> QED
      BY <2>1, <2>2, <2>3 DEF NoMetrics, Starting
  <1>3. CASE Select(r)
    <2>1. PICK S \in SUBSET Product :
            /\ metrics' = [metrics EXCEPT ![r] = [metrics[r] EXCEPT !.selected = S]]
            /\ queue' = [queue EXCEPT ![r] = S]
      BY <1>3, Counted
    <2>2. metrics[r] = NoMetrics /\ pc'[r] = "looping"
      BY <1>1, <1>3 DEF TypeOK, Select, Goto
    <2>3. metrics'[r] = [NoMetrics EXCEPT !.selected = S] /\ queue'[r] = S
      BY <2>1, <2>2 DEF TypeOK
    <2> QED
      BY <2>2, <2>3 DEF NoMetrics, Starting
  <1>4. CASE Take(r)
    <2>1. PICK b \in queue[r] :
            current'[r] = b /\ queue'[r] = queue[r] \ {b}
      BY <1>4 DEF TypeOK, Take
    <2>2. metrics'[r] = metrics[r] /\ pc'[r] = "refreshing"
      BY <1>4 DEF TypeOK, Take, Goto
    <2> QED
      BY <1>1, <2>1, <2>2 DEF Starting
  <1>5. CASE Refreshed(r) \/ RefreshBusy(r) \/ RefreshFails(r)
    <2>1. /\ pc[r] = "refreshing" /\ pc'[r] \in {"noting", "failing"}
          /\ queue'[r] = queue[r]
      BY <1>5 DEF TypeOK, Refreshed, RefreshBusy, RefreshFails, Goto
    <2>2. CASE Refreshed(r)
      <3>1. metrics' = [metrics EXCEPT ![r] =
              [metrics[r] EXCEPT !.checked = metrics[r].checked \cup {current[r]}]]
        BY <2>2, Counted
      <3>2. metrics'[r] = [metrics[r] EXCEPT !.checked = metrics[r].checked \cup {current[r]}]
        BY <3>1 DEF TypeOK
      <3> QED
        BY <1>1, <2>1, <3>2 DEF Metrics, Starting
    <2>3. CASE RefreshBusy(r)
      <3>1. metrics' = [metrics EXCEPT ![r] =
              [metrics[r] EXCEPT !.busy = metrics[r].busy \cup {current[r]}]]
        BY <2>3, Counted
      <3>2. metrics'[r] = [metrics[r] EXCEPT !.busy = metrics[r].busy \cup {current[r]}]
        BY <3>1 DEF TypeOK
      <3> QED
        BY <1>1, <2>1, <3>2 DEF Metrics, Starting
    <2>4. CASE RefreshFails(r)
      <3>1. metrics' = [metrics EXCEPT ![r] =
              [metrics[r] EXCEPT !.failed = metrics[r].failed \cup {current[r]}]]
        BY <2>4, Counted
      <3>2. metrics'[r] = [metrics[r] EXCEPT !.failed = metrics[r].failed \cup {current[r]}]
        BY <3>1 DEF TypeOK
      <3> QED
        BY <1>1, <2>1, <3>2 DEF Metrics, Starting
    <2> QED
      BY <1>5, <2>2, <2>3, <2>4
  <1>6. CASE Evaluate(r)
    <2>1. PICK a \in {"done", "skipped", "failed", "deferred"} :
            metrics' = [metrics EXCEPT ![r] = [metrics[r] EXCEPT !.alerts = a]]
      BY <1>6, Counted
    <2>2. pc'[r] = "finishing" /\ queue'[r] = queue[r]
      BY <1>6 DEF TypeOK, Evaluate, Goto
    <2>3. metrics'[r] = [metrics[r] EXCEPT !.alerts = a]
      BY <2>1 DEF TypeOK
    <2> QED
      BY <1>1, <2>2, <2>3 DEF Metrics, Starting
  <1>7. CASE MarkInterrupted(r) \/ InsertRow(r)
    <2>1. metrics'[r] = metrics[r] /\ queue'[r] = queue[r]
      BY <1>7 DEF MarkInterrupted, InsertRow
    <2>2. pc[r] \in Starting /\ pc'[r] # "refreshing"
      BY <1>7 DEF TypeOK, MarkInterrupted, InsertRow, Goto, Starting
    <2> QED
      BY <1>1, <2>1, <2>2
  <1>8. CASE \/ RecordFailure(r) \/ Note(r) \/ LeaveLoop(r) \/ Finish(r) \/ RecordThrow(r)
             \/ StartFails(r) \/ Throw(r)
    <2>1. metrics'[r] = metrics[r] /\ queue'[r] = queue[r]
      BY <1>8 DEF RecordFailure, Note, LeaveLoop, Finish, RecordThrow, StartFails, Throw
    <2>2. pc'[r] \in {"noting", "looping", "evaluating", "leaving", "throwing"}
      BY <1>8 DEF TypeOK, RecordFailure, Note, LeaveLoop, Finish, RecordThrow, StartFails, Throw, Goto
    <2> QED
      BY <1>1, <2>1, <2>2 DEF Starting
  <1>9. CASE LoseLock(r) \/ LoseStanding(r)
    <2>1. UNCHANGED <<metrics, queue, current, pc>>
      BY <1>9 DEF LoseLock, LoseStanding, locals
    <2> QED
      BY <1>1, <2>1
  <1> QED
    BY <1>2, <1>3, <1>4, <1>5, <1>6, <1>7, <1>8, <1>9 DEF Step, Fault

\* A run that ends as complete has checked its whole batch: the counts agree,
\* so the sets do.
LEMMA CompleteIsChecked ==
  ASSUME TypeOK, Batches, AlertsTried, NEW r \in Run, pc[r] = "finishing", FinalState(r) = "complete"
  PROVE  LET m == metrics[r] IN
         /\ m.checked = m.selected
         /\ m.failed = {} /\ m.busy = {}
         /\ m.alerts \in {"done", "skipped"}
  <1> DEFINE m == metrics[r]
  <1>1. m.failed = {} /\ Deferred(m) = 0 /\ m.alerts \in {"done", "skipped"}
    BY DEF FinalState, AlertsTried, TypeOK, Metrics
  <1>2. /\ m.selected \subseteq Product /\ m.checked \subseteq m.selected
        /\ m.busy \subseteq m.selected /\ m.checked \cap m.busy = {}
    BY DEF TypeOK, Metrics, Batches, Accounted, Dealt
  <1>3. IsFiniteSet(m.selected)
    BY <1>2, FS_Subset
  <1>4. IsFiniteSet(m.checked)
    BY <1>2, <1>3, FS_Subset
  <1>5. Cardinality(m.selected) \in Nat /\ Cardinality(m.checked) \in Nat
    BY <1>3, <1>4, FS_CardinalityType
  <1>6. Cardinality(m.selected) = Cardinality(m.checked)
    <2>1. Cardinality(m.failed) = 0
      BY <1>1, FS_EmptySet
    <2> QED
      BY <1>1, <1>5, <2>1 DEF Deferred
  <1>7. m.checked = m.selected
    BY <1>2, <1>3, <1>6, FS_Subset
  <1> QED
    BY <1>1, <1>2, <1>7

\* A row that says complete keeps what it says, or is written anew by its run.
LEMMA CompleteKept ==
  ASSUME TypeOK, Batches, AlertsTried, CompleteMeansChecked, NEW r \in Run,
         Begin(r) \/ Step(r) \/ Fault(r)
  PROVE  CompleteMeansChecked'
  <1>1. CASE row' = row
    BY <1>1 DEF CompleteMeansChecked
  <1>2. CASE Begin(r)
    <2>1. row' = [row EXCEPT ![r] = [state |-> "absent", metrics |-> NoMetrics]]
      BY <1>2 DEF Begin
    <2> QED
      BY <2>1 DEF TypeOK, CompleteMeansChecked
  <1>3. CASE Mark
    BY <1>3 DEF TypeOK, CompleteMeansChecked, Mark
  <1>4. ASSUME NEW state, state # "complete", Write(r, state) PROVE CompleteMeansChecked'
    BY <1>4 DEF TypeOK, CompleteMeansChecked, Write
  <1>5. CASE pc[r] = "finishing" /\ Write(r, FinalState(r))
    <2>1. CASE FinalState(r) # "complete"
      BY <1>4, <1>5, <2>1
    <2>2. CASE FinalState(r) = "complete"
      <3>1. row' = [row EXCEPT ![r] = [state |-> "complete", metrics |-> metrics[r]]]
        BY <1>5, <2>2 DEF Write
      <3>2. row'[r] = [state |-> "complete", metrics |-> metrics[r]]
        BY <3>1 DEF TypeOK
      <3>3. \A q \in Run : q # r => row'[q] = row[q]
        BY <3>1 DEF TypeOK
      <3> QED
        BY <1>5, <2>2, <3>2, <3>3, CompleteIsChecked DEF CompleteMeansChecked
    <2> QED
      BY <2>1, <2>2
  <1>6. \/ row' = row \/ Begin(r) \/ Mark
        \/ Write(r, "running") \/ Write(r, "failed")
        \/ pc[r] = "finishing" /\ Write(r, FinalState(r))
    BY DEF Step, Fault, MarkInterrupted, InsertRow, Select, Take, Refreshed, RefreshBusy,
           RefreshFails, RecordFailure, Note, LeaveLoop, Evaluate, Finish, RecordThrow, Leave,
           StartFails, Throw, LoseLock, LoseStanding, Crash, Over, Goto
  <1> QED
    BY <1>1, <1>2, <1>3, <1>4, <1>5, <1>6

\* Only evaluatePriceAlerts leads to the last update.
LEMMA AlertsTriedKept ==
  ASSUME TypeOK, AlertsTried, NEW r \in Run, Begin(r) \/ Step(r) \/ Fault(r)
  PROVE  AlertsTried'
  <1>1. CASE Evaluate(r)
    BY <1>1 DEF TypeOK, AlertsTried, Evaluate, Goto, Metrics
  <1>2. \A q \in Run : q # r => pc'[q] = pc[q] /\ metrics'[q] = metrics[q]
    BY DEF TypeOK, Begin, Step, Fault, MarkInterrupted, InsertRow, Select, Take, Refreshed, RefreshBusy,
           RefreshFails, RecordFailure, Note, LeaveLoop, Evaluate, Finish, RecordThrow, Leave,
           StartFails, Throw, LoseLock, LoseStanding, Crash, Over, Goto, locals
  <1>3. CASE ~Evaluate(r)
    <2>1. pc'[r] = "finishing" => pc[r] = "finishing" /\ metrics'[r] = metrics[r]
      BY <1>3 DEF TypeOK, Begin, Step, Fault, MarkInterrupted, InsertRow, Select, Take, Refreshed, RefreshBusy,
             RefreshFails, RecordFailure, Note, LeaveLoop, Finish, RecordThrow, Leave,
             StartFails, Throw, LoseLock, LoseStanding, Crash, Over, Goto, locals, Starting, InTry
    <2> QED
      BY <1>2, <2>1 DEF AlertsTried
  <1> QED
    BY <1>1, <1>3

--------------------------------------------------------------------------------
(* The rows that say running. *)

\* A new run finds the lock free, so whoever is alive has lost it.
LEMMA BeginRecords ==
  ASSUME TypeOK, Records, NEW r \in Run, Begin(r)
  PROVE  Records'
  <1>1. \A q \in Run \ deposed : pc[q] = "none"
    BY DEF Records, LockKept, Begin
  <1>2. /\ deposed' = deposed \ {r} /\ owner' = r
        /\ pc'[r] = "marking" /\ row'[r].state = "absent"
        /\ \A q \in Run : q # r => pc'[q] = pc[q] /\ row'[q] = row[q]
    BY DEF TypeOK, Begin, Goto
  <1>3. LockKept'
    BY <1>1, <1>2 DEF LockKept
  <1>4. OthersSettled'
    BY <1>1, <1>2 DEF OthersSettled, InTry
  <1>5. OneRunningRow'
    BY <1>2 DEF Records, OneRunningRow
  <1> QED
    BY <1>3, <1>4, <1>5 DEF Records

\* The steps of a run: it moves on, and may write its row while the others are
\* settled.
LEMMA StepRecords ==
  ASSUME TypeOK, Records, NEW r \in Run,
         UNCHANGED <<owner, deposed>>,
         \A q \in Run : q # r => pc'[q] = pc[q],
         \A q \in Run : q # r => row'[q] = row[q],
         pc[r] # "none",
         pc'[r] \in InTry \cup {"inserting", "throwing"} => pc[r] \in InTry \cup {"inserting", "throwing"},
         row'[r].state = "running" =>
           row[r].state = "running" \/ pc[r] \in InTry \cup {"inserting", "throwing"}
  PROVE  Records'
  <1>1. LockKept'
    BY DEF Records, LockKept
  <1>2. OthersSettled'
    BY DEF Records, LockKept, OthersSettled, InTry
  <1>3. OneRunningRow'
    BY DEF Records, OneRunningRow, OthersSettled
  <1> QED
    BY <1>1, <1>2, <1>3 DEF Records

LEMMA MarkRecords ==
  ASSUME TypeOK, Records, NEW r \in Run,
         UNCHANGED <<owner, deposed>>,
         \A q \in Run : q # r => pc'[q] = pc[q],
         pc[r] # "none",
         Mark
  PROVE  Records'
  <1>1. \A q \in Run : row'[q].state # "running"
    BY DEF TypeOK, Mark
  <1>2. LockKept'
    BY DEF Records, LockKept
  <1> QED
    BY <1>1, <1>2 DEF Records, OthersSettled, OneRunningRow

LEMMA EndRecords ==
  ASSUME TypeOK, Records, NEW r \in Run, Leave(r) \/ Crash(r) \/ LoseLock(r) \/ LoseStanding(r)
  PROVE  Records'
  <1>1. CASE Leave(r) \/ Crash(r)
    <2>1. /\ pc'[r] = "none" /\ \A q \in Run : q # r => pc'[q] = pc[q]
          /\ UNCHANGED <<row, deposed>>
          /\ owner' = IF owner = r THEN NoRun ELSE owner
      BY <1>1 DEF TypeOK, Leave, Crash, Over
    <2>2. LockKept'
      BY <2>1 DEF Records, LockKept
    <2>3. OthersSettled' /\ OneRunningRow'
      BY <2>1 DEF Records, OthersSettled, OneRunningRow, InTry
    <2> QED
      BY <2>2, <2>3 DEF Records
  <1>2. CASE LoseLock(r)
    <2>1. /\ owner = r /\ deposed' = deposed \cup {r}
          /\ UNCHANGED <<row, pc>>
      BY <1>2 DEF LoseLock, locals
    <2> QED
      BY <2>1 DEF Records, LockKept, OthersSettled, OneRunningRow
  <1>3. CASE LoseStanding(r)
    BY <1>3 DEF LoseStanding, Records, LockKept, OthersSettled, OneRunningRow
  <1> QED
    BY <1>1, <1>2, <1>3

LEMMA RecordsKept ==
  ASSUME TypeOK, Records, NEW r \in Run, Begin(r) \/ Step(r) \/ Fault(r)
  PROVE  Records'
  <1>1. CASE MarkInterrupted(r) \/ (StartFails(r) /\ Mark)
    <2>1. /\ pc[r] # "none"
          /\ \A q \in Run : q # r => pc'[q] = pc[q]
          /\ UNCHANGED <<owner, deposed>>
          /\ Mark
      BY <1>1 DEF TypeOK, MarkInterrupted, StartFails, Goto, Starting
    <2>2. \A q \in Run : row'[q].state # "running"
      BY <2>1 DEF TypeOK, Mark
    <2> QED
      BY <2>1, MarkRecords
  <1>2. CASE \/ Select(r) \/ Take(r) \/ Refreshed(r) \/ RefreshBusy(r) \/ RefreshFails(r)
             \/ RecordFailure(r) \/ LeaveLoop(r) \/ Evaluate(r)
    <2>1. /\ pc[r] \in InTry /\ \A q \in Run : q # r => pc'[q] = pc[q]
          /\ UNCHANGED <<row, owner, deposed>>
      BY <1>2 DEF TypeOK, Select, Take, Refreshed, RefreshBusy, RefreshFails, RecordFailure,
                  LeaveLoop, Evaluate, Goto, InTry
    <2>2. pc[r] # "none"
      BY <2>1 DEF InTry
    <2> QED
      BY <2>1, <2>2, StepRecords
  <1>3. CASE InsertRow(r) \/ Note(r) \/ Finish(r) \/ RecordThrow(r) \/ Throw(r)
    <2>1. /\ pc[r] \in InTry \cup {"inserting", "throwing"}
          /\ \A q \in Run : q # r => pc'[q] = pc[q]
          /\ UNCHANGED <<owner, deposed>>
      BY <1>3 DEF TypeOK, InsertRow, Note, Finish, RecordThrow, Throw, Goto, InTry
    <2>2. \A q \in Run : q # r => row'[q] = row[q]
      BY <1>3 DEF TypeOK, InsertRow, Note, Finish, RecordThrow, Throw, Write
    <2>3. pc[r] # "none"
      BY <2>1 DEF InTry
    <2> QED
      BY <2>1, <2>2, <2>3, StepRecords
  <1>4. CASE StartFails(r) /\ ~Mark
    <2>1. /\ pc[r] \in Starting /\ pc'[r] = "leaving"
          /\ \A q \in Run : q # r => pc'[q] = pc[q]
          /\ UNCHANGED <<owner, deposed>>
      BY <1>4 DEF TypeOK, StartFails
    <2>2. \/ row' = row
          \/ pc[r] = "inserting" /\ \A q \in Run : q # r => row'[q] = row[q]
      BY <1>4 DEF TypeOK, StartFails, Write
    <2>3. pc[r] # "none" /\ pc'[r] \notin InTry \cup {"inserting", "throwing"}
      BY <2>1 DEF Starting, InTry
    <2> QED
      BY <2>1, <2>2, <2>3, StepRecords
  <1> QED
    BY <1>1, <1>2, <1>3, <1>4, BeginRecords, EndRecords DEF Step, Fault

--------------------------------------------------------------------------------
(* The theorems. *)

LEMMA InitIInv == Init => IInv
  <1> SUFFICES ASSUME Init PROVE IInv
    OBVIOUS
  <1>1. Batches
    BY DEF Init, Batches, Accounted, InHand, Fresh, Dealt, NoMetrics
  <1>2. AlertsTried /\ CompleteMeansChecked /\ Records
    BY DEF Init, AlertsTried, CompleteMeansChecked, Records, LockKept, OthersSettled, OneRunningRow
  <1> QED
    BY <1>1, <1>2, InitTyped DEF IInv

LEMMA TypesKept ==
  ASSUME TypeOK, Batches, NEW r \in Run, Begin(r) \/ Step(r) \/ Fault(r)
  PROVE  TypeOK'
  <1>1. pc[r] = "refreshing" => current[r] \in Product
    <2>1. metrics[r] \in Metrics /\ InHand(r)
      BY DEF TypeOK, Batches
    <2> QED
      BY <2>1 DEF InHand, Metrics
  <1> QED
    BY <1>1, BeginTyped, CountTyped, MoveTyped, EndTyped DEF Step, Fault

LEMMA NextKeeps == IInv /\ [Next]_vars => IInv'
  <1> SUFFICES ASSUME IInv, [Next]_vars PROVE IInv'
    OBVIOUS
  <1> USE DEF IInv
  <1>1. ASSUME NEW r \in Run, Begin(r) \/ Step(r) \/ Fault(r) PROVE IInv'
    <2>1. TypeOK'
      BY <1>1, TypesKept
    <2>2. Batches'
      BY <1>1, OwnBatch, OtherBatches DEF Batches
    <2>3. AlertsTried' /\ CompleteMeansChecked' /\ Records'
      BY <1>1, AlertsTriedKept, CompleteKept, RecordsKept
    <2> QED
      BY <2>1, <2>2, <2>3
  <1>2. CASE UNCHANGED vars
    BY <1>2 DEF vars, locals, TypeOK, Batches, Accounted, InHand, Fresh, AlertsTried, CompleteMeansChecked,
                Records, LockKept, OthersSettled, OneRunningRow
  <1> QED
    BY <1>1, <1>2 DEF Next, Refused

\* The inductive invariant: metrics, batch, rows and lock agree in every
\* reachable state.
THEOREM InvariantHolds == Spec => []IInv
  BY InitIInv, NextKeeps, PTL DEF Spec

\* Every variable keeps its type.
THEOREM TypesHold == Spec => []TypeOK
  BY InvariantHolds, PTL DEF IInv

\* A run is recorded as complete only when it has checked its whole batch and
\* dealt with all alerts, or had no mail to send and says so.  (the state of
\* runWatchlistWorker)
THEOREM CompleteIsTrue == Spec => []CompleteMeansChecked
  BY InvariantHolds, PTL DEF IInv

\* Whatever runs die and statements fail, at most one row of the runs that
\* never lost their lock says running.  (startWatchlistRun)
THEOREM OneRowRuns == Spec => []OneRunningRow
  BY InvariantHolds, PTL DEF IInv, Records

================================================================================
