----------------------------- MODULE MCBrowserData -----------------------------
(***************************************************************************)
(* What the browser keeps: data of a guest, histories of scans, requests   *)
(* for products, notes, offline copies.  The parts have no state in        *)
(* common, so each behaviour is one of a single part.                      *)
(***************************************************************************)
EXTENDS GuestSync, TLC

CONSTANTS
  Concurrency,                      \* of ScanHistory
  MaxRev, MaxPosts,                 \* of ResultPage and CoverageForm
  Hint, MaxSent,                    \* of CoverageForm
  Field, Value, Blank, NoAmount,    \* of LabelNotes
  Request, Carried, Dropped, MaxResponses \* of OfflineCache

VARIABLES
  part, \* the part at work
  tabs, used, \* bounds of the guest's part: tabs that are opened, and accounts that sign in
  alive, row, recorded, stored, scanned, candidate, failed, saving, scanShown, scanCookie,
  scanWire, history, first, retried,
  owner, resultCookie, loading, resultCandidate, attempt, phase, resultWire, resultHistory,
  resultFirst, consented,
  formOwner, state, asker, inFlight, sent, formWire, formRow, unsure, repeated,
  open, fields, confirmed, saved, noteStored, promised, watched, checked,
  worker, todo, old, runtime, responses, pc, response, answer, had, passed

scanVars == <<alive, row, recorded, stored, scanned, candidate, failed, saving, scanShown,
  scanCookie, scanWire, history, first, retried>>
resultVars == <<owner, resultCookie, loading, resultCandidate, attempt, phase, resultWire,
  resultHistory, resultFirst, consented>>
formVars == <<formOwner, state, asker, inFlight, sent, formWire, formRow, unsure, repeated>>
noteVars == <<open, fields, confirmed, saved, noteStored, promised, watched, checked>>
offlineVars == <<worker, todo, old, runtime, responses, pc, response, answer, had, passed>>

\* The parts, with small constants and variables of their own.
Scans == INSTANCE ScanHistory WITH
  Item <- Barcode, shown <- scanShown, cookie <- scanCookie,
  wire <- scanWire
Result == INSTANCE ResultPage WITH
  cookie <- resultCookie, candidate <- resultCandidate, wire <- resultWire,
  history <- resultHistory, first <- resultFirst
Form == INSTANCE CoverageForm WITH
  Who <- Account \cup {Guest}, owner <- formOwner, wire <- formWire, row <- formRow
Notes == INSTANCE LabelNotes WITH stored <- noteStored
Offline == INSTANCE OfflineCache

\* The parts are given constants they are made for.
ASSUME PartsAssumption ==
  /\ Scans!Assumptions /\ Result!Assumptions /\ Form!Assumptions /\ Notes!Assumptions
  /\ Offline!Assumptions

\* One part is at work; each of the others rests in one of its initial states.  Guests have
\* one tab and any account, or any tabs and one account.
InitParts ==
  /\ part \in {"guest", "scans", "result", "form", "notes", "offline"}
  /\ Init
  /\ \/ part = "guest" /\ (\E t \in Tab : tabs = {t}) /\ used = Account
     \/ part = "guest" /\ tabs = Tab /\ \E a \in Account : used = {a}
     \/ part # "guest" /\ tabs = {} /\ used = {}
  /\ cookie \in used \cup {Guest} /\ {t \in Tab : shown[t] # Closed} = tabs
  /\ Scans!Init /\ (part # "scans" => scanCookie = Guest)
  /\ Result!Init /\ (part # "result" => resultCookie = Guest /\ owner.who = Loading)
  /\ Form!Init /\ (part # "form" => formOwner.who = Guest)
  /\ Notes!Init /\ (part # "notes" => watched = CHOOSE e \in Notes!Entries \ {Notes!Empty} : TRUE)
  /\ Offline!Init /\ (part # "offline" => ~had /\ \A c \in Dropped : old[c] = None)

NextParts ==
  /\ UNCHANGED <<part, tabs, used>>
  /\ IF part = "guest" THEN Next ELSE UNCHANGED vars
  /\ cookie' \in used \cup {Guest} /\ \A t \in Tab \ tabs : shown'[t] = Closed
  /\ IF part = "scans" THEN Scans!Next ELSE UNCHANGED scanVars
  /\ IF part = "result" THEN Result!Next ELSE UNCHANGED resultVars
  /\ IF part = "form" THEN Form!Next \/ UNCHANGED formVars ELSE UNCHANGED formVars
  /\ IF part = "notes" THEN Notes!Next \/ UNCHANGED noteVars ELSE UNCHANGED noteVars
  /\ IF part = "offline" THEN Offline!Next \/ UNCHANGED offlineVars ELSE UNCHANGED offlineVars

everything == <<part, tabs, used, vars, scanVars, resultVars, formVars, noteVars, offlineVars>>

SpecParts == InitParts /\ [][NextParts]_everything

Symmetry == Permutations(Account) \cup Permutations(Tab)

--------------------------------------------------------------------------------
(* Properties. *)

\* Unless it is asked for again, a scan goes to the first owner who was settled, and a row
\* or a page that says the scan is saved is right (scan-queue.tsx, result/page.tsx).
ScansBelong ==
  /\ part = "scans" => Scans!TypeOK /\ Scans!SavedForFirstOwner /\ Scans!RecordedIsInHistory
  /\ part = "result" => Result!TypeOK /\ Result!SavedForFirstOwner /\ Result!SavedIsInHistory

\* What the user is told is so: a product request that is said to be saved was counted
\* (db.js), one that may have been is not sent again unasked (result/page.tsx), label
\* notes that are shown or stored were checked by the user, and notes said to be kept are
\* kept (label-data-input.tsx).
SaidIsTrue ==
  /\ part = "form" => Form!TypeOK /\ Form!NoSilentRepeat /\ Form!SavedIsCounted
  /\ part = "notes" => Notes!TypeOK /\ Notes!NotesWereChecked /\ Notes!WordIsKept

\* An update of the service worker never loses the copies of the caches it carries over, and
\* an outage evicts no facts except those that were kept after it was decided on (sw.js).
OfflineIsKept ==
  /\ [](part = "offline" => Offline!TypeOK /\ Offline!NothingLostByUpdate)
  /\ Offline!OutageKeepsFacts
================================================================================
