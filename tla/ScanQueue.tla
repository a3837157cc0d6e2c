------------------------------- MODULE ScanQueue -------------------------------
(***************************************************************************)
(* The scan queue of the PWA: pwa/src/lib/scan-queue.ts and                *)
(* pwa/src/components/scan-queue.tsx.                                      *)
(*                                                                         *)
(* Scanned products become rows.  An effect compares a few of them at a    *)
(* time, with a timeout; the user cancels, retries, removes and scans      *)
(* again while comparisons are under way, and closes the tab.  What        *)
(* happens to the history of a compared row is the matter of ScanHistory.  *)
(*                                                                         *)
(* An item stands for the key of a row, barcode and time of the scan, so a *)
(* product that is removed and scanned again is another item.  Rows with   *)
(* and without an offer are both "compared".                               *)
(***************************************************************************)
EXTENDS Naturals, FiniteSets

CONSTANTS
  Barcode,
  Scans,        \* bound on the scans of one barcode
  None,
  Concurrency,  \* SCAN_COMPARE_CONCURRENCY
  Limit         \* SCAN_QUEUE_LIMIT

Item == Barcode \X (1..Scans)

\* What is assumed of the constants, wherever this module is instantiated.
Assumptions ==
  /\ {Scans, Concurrency, Limit} \subseteq Nat \ {0}
  /\ None \notin Item

VARIABLES
  alive,    \* is the page mounted?
  row,      \* row[i]: status of the row, or absent
  stored,   \* what localStorage holds of the rows
  scanned,  \* items that have been scanned
  job       \* job[b]: the entry of b in the comparisons Map

vars == <<alive, row, stored, scanned, job>>

NoJob == [item |-> None, aborted |-> FALSE, timedOut |-> FALSE]
BarcodeOf(i) == i[1]
Empty == [i \in Item |-> "absent"]

Init ==
  /\ alive = TRUE
  /\ row = Empty
  /\ stored = Empty
  /\ scanned = {}
  /\ job = [b \in Barcode |-> NoJob]

Rows == {i \in Item : row[i] # "absent"}
Jobs == {b \in Barcode : job[b] # NoJob}

--------------------------------------------------------------------------------
(* Rows and comparisons. *)

\* Scans of a barcode are numbered by time.
IsNext(i) == i[2] = 1 + Cardinality({j \in scanned : BarcodeOf(j) = BarcodeOf(i)})

\* add and enqueueScan: duplicates and a full queue change nothing.
Add(i) ==
  /\ alive
  /\ IsNext(i)
  /\ \A j \in Rows : BarcodeOf(j) # BarcodeOf(i)
  /\ Cardinality(Rows) < Limit
  /\ row' = [row EXCEPT ![i] = "queued"]
  /\ scanned' = scanned \cup {i}
  /\ UNCHANGED <<alive, stored, job>>

\* The comparison effect starts a queued row whose barcode is not in the Map.
Compare(i) ==
  /\ alive
  /\ row[i] = "queued"
  /\ job[BarcodeOf(i)] = NoJob
  /\ Cardinality(Jobs) < Concurrency
  /\ job' = [job EXCEPT ![BarcodeOf(i)] = [NoJob EXCEPT !.item = i]]
  /\ row' = [row EXCEPT ![i] = "loading"]
  /\ UNCHANGED <<alive, stored, scanned>>

\* The timer aborts; it also runs out for a comparison that was cancelled.
Timeout(b) ==
  /\ job[b] # NoJob /\ ~job[b].timedOut
  /\ job' = [job EXCEPT ![b].aborted = TRUE, ![b].timedOut = TRUE]
  /\ UNCHANGED <<alive, row, stored, scanned>>

\* What a commit of the comparison of b does to the rows.
Lands(b, status) == [i \in Item |-> IF BarcodeOf(i) = b /\ row[i] = "loading" THEN status ELSE row[i]]

\* The comparison ends and its entry leaves the Map: with the answer or an
\* error, with an error after the timeout, with nothing after an abort.
Finish(b) ==
  /\ job[b] # NoJob
  /\ job' = [job EXCEPT ![b] = NoJob]
  /\ \/ ~job[b].aborted /\ \E status \in {"compared", "error"} : row' = Lands(b, status)
     \/ job[b].aborted /\ row' = IF job[b].timedOut THEN Lands(b, "error") ELSE row
  /\ UNCHANGED <<alive, stored, scanned>>

\* cancel, of one barcode or of all: the entries stay until they finish.
Cancel(bs) ==
  /\ alive
  /\ job' = [b \in Barcode |-> IF b \in bs /\ job[b] # NoJob THEN [job[b] EXCEPT !.aborted = TRUE] ELSE job[b]]
  /\ row' = [i \in Item |-> IF BarcodeOf(i) \in bs /\ row[i] \in {"queued", "loading"} THEN "cancelled" ELSE row[i]]
  /\ UNCHANGED <<alive, stored, scanned>>

\* retry: the button is shown for rows that are not at work.
Retry(i) ==
  /\ alive
  /\ row[i] \in {"compared", "error", "cancelled"}
  /\ row' = [row EXCEPT ![i] = "queued"]
  /\ UNCHANGED <<alive, stored, scanned, job>>

\* remove of one row, and clear of all.
Remove(items) ==
  /\ alive
  /\ items # {}
  /\ row' = [i \in Item |-> IF i \in items THEN "absent" ELSE row[i]]
  /\ LET bs == {BarcodeOf(i) : i \in items} IN
     job' = [b \in Barcode |-> IF b \in bs /\ job[b] # NoJob THEN [job[b] EXCEPT !.aborted = TRUE] ELSE job[b]]
  /\ UNCHANGED <<alive, stored, scanned>>

--------------------------------------------------------------------------------
(* The device. *)

\* The page is left or the tab killed and comparisons with it.  The persistence effect
\* has kept the rows as they are now, or it could not and the device has those of an
\* earlier visit.
Close ==
  /\ alive
  /\ alive' = FALSE
  /\ stored' \in {stored, row}
  /\ row' = Empty
  /\ job' = [b \in Barcode |-> NoJob]
  /\ UNCHANGED scanned

\* restoreScanQueue: what was being compared is cancelled.
Restored == [i \in Item |-> IF stored[i] = "loading" THEN "cancelled" ELSE stored[i]]

Open ==
  /\ ~alive
  /\ alive' = TRUE
  /\ row' = Restored
  /\ UNCHANGED <<stored, scanned, job>>

\* Steps of the page itself.
Work == (\E i \in Item : Compare(i)) \/ (\E b \in Barcode : Finish(b))

\* Steps of the user.
Meddle ==
  \/ \E i \in Item : Add(i) \/ Retry(i)
  \/ \E bs \in {Barcode} \cup {{b} : b \in Barcode} : Cancel(bs)
  \/ \E items \in {Rows} \cup {{i} : i \in Rows} : Remove(items)
  \/ Close \/ Open

Next == Work \/ Meddle \/ \E b \in Barcode : Timeout(b)

Spec == Init /\ [][Next]_vars

\* Effects run after every render, and the timeout ends every comparison.
FairSpec == Spec /\ WF_vars(Work)

--------------------------------------------------------------------------------
(* Properties. *)

\* The types of the variables; no barcode has two rows.
TypeOK ==
  /\ alive \in BOOLEAN
  /\ row \in [Item -> {"absent", "queued", "loading", "compared", "error", "cancelled"}]
  /\ stored \in [Item -> {"absent", "queued", "loading", "compared", "error", "cancelled"}]
  /\ scanned \subseteq Item
  /\ job \in [Barcode -> [item : Item \cup {None}, aborted : BOOLEAN, timedOut : BOOLEAN]]
  /\ \A i, j \in Rows : BarcodeOf(i) = BarcodeOf(j) => i = j

\* A row that says it is being compared has a comparison of its own under way
\* that will still report, whatever was cancelled, removed, scanned again or
\* restored before.
LoadingIsWatched ==
  \A i \in Item : row[i] = "loading" =>
    LET j == job[BarcodeOf(i)] IN j.item = i /\ (j.aborted => j.timedOut)

\* When the user comes to rest, so does the queue: no row waits or is being
\* compared for ever, though comparisons may all fail or time out.
QueueSettles ==
  <>[][~Meddle]_vars => <>[](\A i \in Item : row[i] \notin {"queued", "loading"})
================================================================================
