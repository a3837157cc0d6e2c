------------------------------ MODULE ScanHistory ------------------------------
(***************************************************************************)
(* Who gets a scan: the history effect of                                  *)
(* pwa/src/components/scan-queue.tsx with userRequest and getAccountToken  *)
(* of pwa/src/lib/user-api.ts and recordScan of src/db.js.                 *)
(*                                                                         *)
(* A scanned product is compared (ScanQueue) and then written to the       *)
(* history of its owner: the account, or the guest, who was settled when   *)
(* it was scanned, or who settled first afterwards.  The account may       *)
(* change at any moment, in this tab or behind its back, and the tab may   *)
(* be closed; rows are kept on the device, owners are not.                 *)
(*                                                                         *)
(* An item stands for the key of a row, barcode and time of the scan, so a *)
(* product that is removed and scanned again is another item.  A row that  *)
(* has not been compared is "waiting", whatever its comparison does.       *)
(***************************************************************************)
EXTENDS Naturals, FiniteSets

CONSTANTS
  Item,         \* keys of rows
  Account,      \* signed-in owners
  Guest,        \* the owner of a tab that is signed out
  Loading,      \* the session is not known yet
  None,
  Concurrency   \* history saves at a time

Owner == Account \cup {Guest}

\* What is assumed of the constants, wherever this module is instantiated.
Assumptions ==
  /\ Guest \notin Account /\ {Loading, None} \cap Owner = {} /\ Loading # None
  /\ Concurrency \in Nat \ {0}

VARIABLES
  alive,      \* is the page mounted?
  row,        \* row[i]: absent, waiting or compared
  recorded,   \* rows marked historyRecorded
  stored,     \* what localStorage holds of both
  scanned,    \* items that have been scanned
  candidate,  \* candidate[i]: owner of the scan; Loading while nobody has settled
  failed,     \* historyFailures
  saving,     \* saving[i]: the save under way, and how far it is
  shown,      \* the owner this page shows, or Loading
  cookie,     \* the owner the server sees
  wire,       \* posts of scans that have not reached the server
  history,    \* scans in the histories of their owners
  first,      \* history: the owner when i was scanned, or the first to settle after it
  retried     \* history: items whose save the user asked for again

rowVars  == <<row, recorded>>
saveVars == <<candidate, failed, saving>>
vars == <<alive, rowVars, stored, scanned, saveVars, shown, cookie, wire, history, first, retried>>

NoSave == [owner |-> None, step |-> "none"]
Empty  == [i \in Item |-> "absent"]
Rows   == {i \in Item : row[i] # "absent"}
Saves  == {i \in Item : saving[i] # NoSave}

Init ==
  /\ alive = TRUE
  /\ row = Empty /\ recorded = {}
  /\ stored = [row |-> Empty, recorded |-> {}]
  /\ scanned = {}
  /\ candidate = [i \in Item |-> None] /\ failed = {} /\ saving = [i \in Item |-> NoSave]
  /\ shown = Loading /\ cookie \in Owner
  /\ wire = {} /\ history = {}
  /\ first = [i \in Item |-> None] /\ retried = {}

--------------------------------------------------------------------------------
(* Rows. *)

\* add: the candidate belongs to the owner of the moment.
Add(i) ==
  /\ alive
  /\ i \notin scanned
  /\ row' = [row EXCEPT ![i] = "waiting"]
  /\ scanned' = scanned \cup {i}
  /\ candidate' = [candidate EXCEPT ![i] = shown]
  /\ first' = [first EXCEPT ![i] = shown]
  /\ UNCHANGED <<alive, recorded, stored, failed, saving, shown, cookie, wire, history, retried>>

\* A comparison succeeds, or the user asks for another.
Compared(i) ==
  /\ alive
  /\ i \in Rows
  /\ row' = [row EXCEPT ![i] = IF @ = "waiting" THEN "compared" ELSE "waiting"]
  /\ UNCHANGED <<alive, recorded, stored, scanned, saveVars, shown, cookie, wire, history, first, retried>>

\* remove, and clear when it is all rows; a row being saved can be cleared
\* but not removed.
Remove(items) ==
  /\ alive
  /\ items = Rows \/ (\E i \in Rows : items = {i} /\ saving[i] = NoSave)
  /\ row' = [i \in Item |-> IF i \in items THEN "absent" ELSE row[i]]
  /\ recorded' = recorded \ items
  /\ candidate' = [i \in Item |-> IF i \in items THEN None ELSE candidate[i]]
  /\ failed' = failed \ items
  /\ UNCHANGED <<alive, stored, scanned, saving, shown, cookie, wire, history, first, retried>>

--------------------------------------------------------------------------------
(* History. *)

\* Mutant: candidates of another owner move to the one that is shown.
Inherited(o) == [i \in Item |-> IF candidate[i] = None THEN None ELSE o]

\* The history effect settles candidates: those without an owner get the one
\* shown, those of another owner are dropped.
Settled(o) ==
  [i \in Item |-> IF candidate[i] = Loading THEN o ELSE IF candidate[i] = o THEN o ELSE None]

\* The session is read again: the page shows what the server sees, or that it
\* does not know yet.  The effect runs before the next change is rendered.
See(o) ==
  /\ alive
  /\ o \in {Loading, cookie} \ {shown}
  /\ shown' = o
  /\ candidate' = IF o = Loading THEN candidate ELSE Settled(o)
  /\ first' = [i \in Item |-> IF first[i] = Loading THEN o ELSE first[i]]
  /\ UNCHANGED <<alive, rowVars, stored, scanned, failed, saving, cookie, wire, history, retried>>

\* Signing in or out, perhaps in another tab.
SwitchAccount(o) ==
  /\ cookie' = o
  /\ cookie # o
  /\ UNCHANGED <<alive, rowVars, stored, scanned, saveVars, shown, wire, history, first, retried>>

Savable(i) ==
  row[i] = "compared" /\ i \notin recorded /\ candidate[i] = shown /\ saving[i] = NoSave /\ i \notin failed

\* A save for an account begins with a token.
StartSave(i) ==
  /\ alive /\ shown \in Account
  /\ Savable(i)
  /\ Cardinality(Saves) < Concurrency
  /\ saving' = [saving EXCEPT ![i] = [owner |-> shown, step |-> "token"]]
  /\ UNCHANGED <<alive, rowVars, stored, scanned, candidate, failed, shown, cookie, wire, history, first, retried>>

\* A guest's scan is written to the device at once, or device storage fails.
SaveOnDevice(i) ==
  /\ alive /\ shown = Guest
  /\ Savable(i)
  /\ \/ /\ history' = history \cup {<<i, Guest>>}
        /\ recorded' = recorded \cup {i}
        /\ candidate' = [candidate EXCEPT ![i] = None]
        /\ UNCHANGED failed
     \/ failed' = failed \cup {i} /\ UNCHANGED <<history, recorded, candidate>>
  /\ UNCHANGED <<alive, row, stored, scanned, saving, shown, cookie, wire, first, retried>>

\* shouldProceed: the page still shows the owner and the scan is still there.
ShouldProceed(i) == shown = saving[i].owner /\ candidate[i] = saving[i].owner /\ i \in Rows

\* getAccountToken refuses a token of another account than expected.
GetToken(i) ==
  /\ saving[i].step = "token"
  /\ cookie = saving[i].owner
  /\ saving' = [saving EXCEPT ![i].step = "checked"]
  /\ UNCHANGED <<alive, rowVars, stored, scanned, candidate, failed, shown, cookie, wire, history, first, retried>>

\* userRequest checks the owner once more and posts.
PostScan(i) ==
  /\ saving[i].step = "checked"
  /\ ShouldProceed(i)
  /\ wire' = wire \cup {<<i, saving[i].owner>>}
  /\ saving' = [saving EXCEPT ![i].step = "posted"]
  /\ UNCHANGED <<alive, rowVars, stored, scanned, candidate, failed, shown, cookie, history, first, retried>>

\* recordScan stores a scan once per account, however often it is posted.
Deliver(w) ==
  /\ w \in wire
  /\ wire' = wire \ {w}
  /\ history' = history \cup {w}
  /\ UNCHANGED <<alive, rowVars, stored, scanned, saveVars, shown, cookie, first, retried>>

\* The server confirmed; the row is marked when nothing has changed meanwhile.
ConfirmSave(i) ==
  /\ saving[i].step = "posted"
  /\ <<i, saving[i].owner>> \in history
  /\ saving' = [saving EXCEPT ![i] = NoSave]
  /\ IF ShouldProceed(i)
       THEN recorded' = recorded \cup {i} /\ candidate' = [candidate EXCEPT ![i] = None]
       ELSE UNCHANGED <<recorded, candidate>>
  /\ UNCHANGED <<alive, row, stored, scanned, failed, shown, cookie, wire, history, first, retried>>

\* A check fails, or a request does; what was posted may still arrive.
FailSave(i) ==
  /\ saving[i] # NoSave
  /\ failed' = failed \cup {i}
  /\ saving' = [saving EXCEPT ![i] = NoSave]
  /\ UNCHANGED <<alive, rowVars, stored, scanned, candidate, shown, cookie, wire, history, first, retried>>

\* retryHistory, confirmed by the user.
RetryHistory(i) ==
  /\ alive /\ shown # Loading
  /\ row[i] = "compared" /\ i \notin recorded /\ saving[i] = NoSave
  /\ i \in failed \/ candidate[i] \notin {shown, Loading}
  /\ candidate' = [candidate EXCEPT ![i] = shown]
  /\ failed' = failed \ {i}
  /\ retried' = retried \cup {i}
  /\ UNCHANGED <<alive, rowVars, stored, scanned, saving, shown, cookie, wire, history, first>>

--------------------------------------------------------------------------------
(* The device. *)

\* The page is left or the tab killed: comparisons and saves lose their page,
\* posts under way go on.  The persistence effect has kept the rows as they are
\* now, or it could not and the device has the rows of an earlier visit.
Close ==
  /\ alive
  /\ alive' = FALSE
  /\ stored' \in {stored, [row |-> row, recorded |-> recorded]}
  /\ row' = Empty /\ recorded' = {}
  /\ candidate' = [i \in Item |-> None] /\ failed' = {} /\ saving' = [i \in Item |-> NoSave]
  /\ shown' = Loading
  /\ UNCHANGED <<scanned, cookie, wire, history, first, retried>>

\* Rows come back without candidates.
Open ==
  /\ ~alive
  /\ alive' = TRUE
  /\ row' = stored.row /\ recorded' = stored.recorded
  /\ UNCHANGED <<stored, scanned, saveVars, shown, cookie, wire, history, first, retried>>

Next ==
  \/ \E i \in Item :
       \/ Add(i) \/ Compared(i) \/ RetryHistory(i)
       \/ StartSave(i) \/ SaveOnDevice(i) \/ GetToken(i) \/ PostScan(i) \/ ConfirmSave(i) \/ FailSave(i)
  \/ \E items \in {Rows} \cup {{i} : i \in Rows} : Remove(items)
  \/ \E o \in Owner \cup {Loading} : See(o)
  \/ \E o \in Owner : SwitchAccount(o)
  \/ \E w \in wire : Deliver(w)
  \/ Close \/ Open

Spec == Init /\ [][Next]_vars

--------------------------------------------------------------------------------
(* Properties. *)

\* The types of the variables; candidates are kept for rows only.
TypeOK ==
  /\ alive \in BOOLEAN
  /\ row \in [Item -> {"absent", "waiting", "compared"}]
  /\ recorded \subseteq Item
  /\ stored \in [row : [Item -> {"absent", "waiting", "compared"}], recorded : SUBSET Item]
  /\ scanned \subseteq Item
  /\ candidate \in [Item -> Owner \cup {None, Loading}]
  /\ failed \subseteq Item
  /\ saving \in [Item -> [owner : Account \cup {None}, step : {"none", "token", "checked", "posted"}]]
  /\ shown \in Owner \cup {Loading} /\ cookie \in Owner
  /\ wire \subseteq Item \X Account /\ history \subseteq Item \X Owner
  /\ first \in [Item -> Owner \cup {None, Loading}] /\ retried \subseteq Item
  /\ \A i \in Item : candidate[i] # None => i \in Rows

\* Unless the user asked for the save again, a scan is only ever sent to the
\* owner who was settled when it was scanned, or the first to settle after.
SavedForFirstOwner ==
  \A w \in wire \cup history : w[2] = first[w[1]] \/ w[1] \in retried

\* A row marked as recorded, here or in device storage, is in a history.
RecordedIsInHistory ==
  \A i \in recorded \cup stored.recorded : \E o \in Owner : <<i, o>> \in history

================================================================================
