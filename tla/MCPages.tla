-------------------------------- MODULE MCPages --------------------------------
(***************************************************************************)
(* Pages and controls that wait for answers.  A tab shows one of them,     *)
(* so each behaviour is one of a single part.                              *)
(***************************************************************************)
EXTENDS HistoryPage

CONSTANTS
  Barcode, None, Loading, Closed,
  Alert, MaxLoads, MaxRemovals,    \* of the alerts page,
  MaxVisits, MaxTries, MaxChecks,  \* the star,
  MaxStarts,                       \* the camera
  MaxAge, MaxTime, MaxLookups      \* and the panel

VARIABLES
  part, \* the part at work
  of, active, alertsCookie, alertsSession, list, loading, message, pending, alertsLoads,
  removals, alertsChanges, loaded, removed, alertsStrayed, doubtful,
  starCookie, starChanges, context, visits, kept, saved, ready, failed, saving, starMessage,
  checks, tries, toggles, overtaken, starStrayed,
  mounted, mode, status, starts, current, starting, navigating, pc, stream, controls, live,
  decoders, queued, pushes, reader,
  now, page, healthEffect, begun, lookups, shown, stored, confirmed,
  alive, row, queueStored, scanned, job,
  device, clock, syncCookie, syncShown, sync, error, wire, copies, owed

alertsVars == <<of, active, alertsCookie, alertsSession, list, loading, message, pending,
  alertsLoads, removals, alertsChanges, loaded, removed, alertsStrayed, doubtful>>
starVars == <<starCookie, starChanges, context, visits, kept, saved, ready, failed, saving,
  starMessage, checks, tries, toggles, overtaken, starStrayed>>
cameraVars == <<mounted, mode, status, starts, current, starting, navigating, pc, stream,
  controls, live, decoders, queued, pushes, reader>>
healthVars == <<now, page, healthEffect, begun, lookups, shown, stored, confirmed>>
queueVars == <<alive, row, queueStored, scanned, job>>
syncVars == <<device, clock, syncCookie, syncShown, sync, error, wire, copies, owed>>

\* The parts, with small constants and variables of their own.
Alerts == INSTANCE AlertsPage WITH
  Nobody <- Guest, cookie <- alertsCookie, session <- alertsSession, loads <- alertsLoads,
  changes <- alertsChanges, strayed <- alertsStrayed
Star == INSTANCE FavouriteControl WITH
  message <- starMessage, cookie <- starCookie, changes <- starChanges, strayed <- starStrayed
Camera == INSTANCE CameraScanner
Health == INSTANCE HealthPage WITH effect <- healthEffect
Queue == INSTANCE ScanQueue WITH
  Scans <- 2, Concurrency <- 1, Limit <- 2, stored <- queueStored
Sync == INSTANCE GuestSync WITH
  Tab <- {"tab"}, Barcode <- {"barcode"}, Account <- {"account"}, MaxAt <- 3,
  cookie <- syncCookie, shown <- syncShown

\* The parts are given constants they are made for.
ASSUME PartsAssumption ==
  Alerts!Assumptions /\ Star!Assumptions /\ Camera!Assumptions /\ Health!Assumptions /\ Queue!Assumptions

\* One part is at work; each of the others rests in one of its initial states.  The alerts
\* page is two parts: with one removal, and with one change of the cookie.  So is the star:
\* of two products whose cookie does not change, and of one product that is changed once
\* while the cookie changes.
InitParts ==
  /\ part \in {"history", "alerts", "removals", "star", "strays", "camera", "health", "queue", "sync"}
  /\ Init /\ (part # "history" => cookie = Guest)
  /\ Alerts!Init
  /\ part \notin {"alerts", "removals"} =>
       active = {} /\ {alertsCookie} \cup {of[id] : id \in Alert} = {CHOOSE a \in Account : TRUE}
  /\ Star!Init /\ context.barcode = (CHOOSE b \in Barcode : TRUE)
  /\ context.who \in (IF part = "strays" THEN {} ELSE {Guest})
                     \cup (IF part \in {"star", "strays"} THEN {CHOOSE a \in Account : TRUE} ELSE {})
  /\ \A c \in DOMAIN kept : kept[c] => part \in {"star", "strays"} /\ c = context
  /\ Camera!Init
  /\ Health!Init /\ (part # "health" => page = CHOOSE b \in Barcode : TRUE)
  /\ Queue!Init
  /\ Sync!Init /\ syncShown["tab"] = Loading /\ (part # "sync" => syncCookie = Guest)

NextParts ==
  /\ UNCHANGED part
  /\ IF part = "history" THEN Next \/ UNCHANGED vars ELSE UNCHANGED vars
  /\ \/ /\ part \in {"alerts", "removals"} /\ Alerts!Next
        /\ IF part = "alerts" THEN removed' < MaxRemovals ELSE alertsChanges' < MaxChanges
     \/ UNCHANGED alertsVars
  /\ \/ /\ part \in {"star", "strays"} /\ Star!Next
        /\ IF part = "star" THEN starChanges' + 2 <= MaxChanges
           ELSE starChanges' < MaxChanges /\ tries' < MaxTries /\ context'.barcode = context.barcode
     \/ UNCHANGED starVars
  /\ IF part = "camera" THEN Camera!Next \/ UNCHANGED cameraVars ELSE UNCHANGED cameraVars
  /\ IF part = "health" THEN Health!Next \/ UNCHANGED healthVars ELSE UNCHANGED healthVars
  /\ IF part = "queue" THEN Queue!Next ELSE UNCHANGED queueVars
  /\ IF part = "sync" THEN Sync!Next ELSE UNCHANGED syncVars

everything == <<part, vars, alertsVars, starVars, cameraVars, healthVars, queueVars,
              syncVars>>

\* The fairness of each part, while it is at work.
FairnessOfParts ==
  /\ WF_(vars)(part = "history" /\ Render)
  /\ WF_(vars)(part = "history" /\ Effect)
  /\ WF_(vars)(part = "history" /\ (\E load \in loads : Request(load)))
  /\ WF_(alertsVars)(part = "alerts" /\ Alerts!EndLoads)
  /\ WF_(alertsVars)(part = "alerts" /\ Alerts!EndRemovals)
  /\ WF_(starVars)(part \in {"star", "strays"} /\ Star!EndCheck)
  /\ WF_(starVars)(part \in {"star", "strays"} /\ Star!EndToggle)
  /\ WF_(cameraVars)(part = "camera" /\ starts = 0 /\ Camera!Begin)
  /\ \A s \in 1..MaxStarts : WF_(cameraVars)(part = "camera" /\ Camera!Awaited(s))
  /\ WF_(healthVars)(part = "health" /\ Health!Effect)
  /\ WF_(healthVars)(part = "health" /\ Health!EndLookup)
  /\ WF_(queueVars)(part = "queue" /\ Queue!Work)
  /\ \A t \in {"tab"} : WF_(syncVars)(part = "sync" /\ Sync!Steps(t))

SpecParts == InitParts /\ [][NextParts]_everything /\ FairnessOfParts

--------------------------------------------------------------------------------
(* Properties. *)

\* The alerts page lists alerts of its account unless a token was of another, at rest the
\* active ones, and an alert leaves the list only when it is not active or with the list
\* (alerts/page.tsx).  A star at rest that shows no error shows what is kept, and reports done
\* what was done, unless a token was of another or a check or change has overtaken another;
\* it sends one change at a time (favourite-control.tsx).
ListsAreTrue ==
  /\ [](part \in {"alerts", "removals"} => Alerts!TypeOK /\ Alerts!ShowsOwn /\ Alerts!ListIsActive)
  /\ Alerts!RemovedIsGone
  /\ [](part \in {"star", "strays"} => Star!TypeOK /\ Star!ShownIsKept /\ Star!OneChange)
  /\ Star!ToldIsDone

\* A camera or a decoder that is on will be stopped, the page offers to, and what the
\* camera reads counts only while it is on (scan/page.tsx).
CameraIsKnown == Camera!CameraIsKnown

\* The panel of a product shows that product or an error, facts it does not call outdated
\* were told by the source at the time shown, what the device keeps was told and is young
\* enough, and an outage takes no facts away (product-health.tsx).
PanelIsTrue ==
  /\ [](part = "health" => /\ Health!TypeOK /\ Health!ShowsOwn
                          /\ Health!NotOutdatedIsTold /\ Health!SavedWasTold)
  /\ Health!OutageKeepsFacts

\* Whatever a page waits for comes to an end: loads, busy buttons, checks, the start of a
\* camera and its end after the page is left, lookups; when events rest, the checks of a
\* star, and when the user does, the scan queue and the syncs.  Until then a row that is
\* being compared has a comparison that will report (scan-queue.tsx, guest-data-sync.tsx).
PagesSettle ==
  /\ []<>(part = "history" => Settled)
  /\ []<>(part = "alerts" => Alerts!Settled)
  /\ []<>(part = "alerts" => Alerts!Free)
  /\ Star!StarGoesFree
  /\ Star!CheckEnds
  /\ Camera!CameraGoesOff
  /\ []<>(part = "camera" => Camera!Started)
  /\ Health!LookupEnds
  /\ [](part = "queue" => Queue!TypeOK /\ Queue!LoadingIsWatched)
  /\ Queue!QueueSettles
  /\ Sync!SyncSettles
================================================================================
