------------------------------- MODULE HistoryPage -------------------------------
(***************************************************************************)
(* The scan history of pwa/src/app/history/page.tsx: the device's for a    *)
(* guest, the account's for who is signed in.                              *)
(*                                                                         *)
(* The browser's cookie changes with a sign-in or sign-out anywhere; the   *)
(* page learns of it later, renders, and runs its effect after that.  What *)
(* a request reads is decided by the cookie when its token is issued       *)
(* (getAccountToken of pwa/src/lib/user-api.ts).  The page before its      *)
(* first session is known is left out.                                     *)
(***************************************************************************)
EXTENDS Integers, FiniteSets

CONSTANTS
  Account,
  Guest,      \* nobody is signed in
  MaxChanges, \* bounds on the changes of the cookie,
  MaxScans    \* and on the scans

ASSUME HistoryAssumption == Guest \notin Account /\ MaxChanges \in Nat /\ MaxScans \in Nat \ {0}

Principal == Account \cup {Guest}

VARIABLES
  cookie,   \* who is signed in in this browser
  session,  \* who the page was rendered for
  owner,    \* ownerRef: how often the page changed principals
  effect,   \* the owner whose effect runs; the effect of the render is due if it is another
  history,  \* the state: owner, scans, whether it loads, and whether it failed
  loads,    \* the requests under way; whose is empty until a token is issued
  scans,    \* scans[p]: how many scans the account's or the device's history holds
  changes,
  strayed   \* history: a request got the token of another than the page was rendered for

vars == <<cookie, session, owner, effect, history, loads, scans, changes, strayed>>

Entries(p, n) == {[of |-> p, scan |-> i] : i \in 1..n}

State(o, entries, loading, failed) == [owner |-> o, scans |-> entries, loading |-> loading, failed |-> failed]

\* syncGuestHistory: the n scans of the device, or that it cannot be read.
Device(n) == {State(owner, Entries(Guest, n), FALSE, FALSE), State(owner, {}, FALSE, TRUE)}

Init ==
  /\ cookie \in Principal /\ session = cookie
  /\ owner = 1 /\ effect = 0
  /\ history = State(1, {}, TRUE, FALSE) /\ loads = {}
  /\ scans = [p \in Principal |-> 1] /\ changes = 0 /\ strayed = FALSE

\* What the render shows: not the state of a previous owner.
Shown == IF history.owner = owner THEN history ELSE State(owner, {}, TRUE, FALSE)

--------------------------------------------------------------------------------
(* The browser *)

SignIn(p) ==
  /\ p # cookie /\ changes < MaxChanges /\ cookie' = p /\ changes' = changes + 1
  /\ UNCHANGED <<session, owner, effect, history, loads, scans, strayed>>

\* useSession has the new session: the page renders.
Render ==
  /\ session # cookie
  /\ session' = cookie /\ owner' = owner + 1
  /\ UNCHANGED <<cookie, effect, history, loads, scans, changes, strayed>>

\* A scan is recorded elsewhere; for a guest the page is told with an event.
Scan(p) ==
  /\ scans[p] < MaxScans /\ scans' = [scans EXCEPT ![p] = @ + 1]
  /\ IF p = Guest /\ session = Guest /\ effect = owner THEN history' \in Device(scans'[Guest]) ELSE history' = history
  /\ UNCHANGED <<cookie, session, owner, effect, loads, changes, strayed>>

--------------------------------------------------------------------------------
(* The effect and its request *)

Effect ==
  /\ effect # owner /\ effect' = owner
  /\ IF session = Guest
     THEN history' \in Device(scans[Guest]) /\ UNCHANGED loads
     ELSE /\ history' = State(owner, {}, TRUE, FALSE)
          /\ loads' = loads \cup {[owner |-> owner, whose |-> {}, entries |-> {}, read |-> FALSE]}
  /\ UNCHANGED <<cookie, session, owner, scans, changes, strayed>>

Becomes(load, next) == loads' = (loads \ {load}) \cup {next}

\* getAccountToken
Token(load) ==
  /\ load.whose = {} /\ cookie # Guest
  /\ Becomes(load, [load EXCEPT !.whose = {cookie}]) /\ strayed' = (strayed \/ (load.owner = owner /\ cookie # session))
  /\ UNCHANGED <<cookie, session, owner, effect, history, scans, changes>>

\* listScanHistory
Read(load) ==
  /\ load.whose # {} /\ ~load.read
  /\ \E p \in load.whose : Becomes(load, [load EXCEPT !.entries = Entries(p, scans[p]), !.read = TRUE])
  /\ UNCHANGED <<cookie, session, owner, effect, history, scans, changes, strayed>>

\* Mutant: a late answer is taken.
CurrentAny(load) == TRUE

\* current: not cancelled by the next effect, and no render for another since.
Current(load) == load.owner = effect /\ load.owner = owner

Receive(load) ==
  /\ load.read /\ loads' = loads \ {load}
  /\ history' = IF Current(load) THEN State(load.owner, load.entries, FALSE, FALSE) ELSE history
  /\ UNCHANGED <<cookie, session, owner, effect, scans, changes, strayed>>

\* Mutant: the failure is not shown.
FailQuietly(load) ==
  /\ loads' = loads \ {load}
  /\ UNCHANGED <<cookie, session, owner, effect, history, scans, changes, strayed>>

\* Nobody is signed in, or the request or its answer is lost.
Fail(load) ==
  /\ loads' = loads \ {load}
  /\ history' = IF Current(load) THEN State(load.owner, {}, FALSE, TRUE) ELSE history
  /\ UNCHANGED <<cookie, session, owner, effect, scans, changes, strayed>>

Request(load) == Token(load) \/ Read(load) \/ Receive(load) \/ Fail(load)

Next ==
  \/ Render \/ Effect
  \/ \E p \in Principal : SignIn(p) \/ Scan(p)
  \/ \E load \in loads : Request(load)

\* React renders and runs effects; requests come to an end.
Spec == Init /\ [][Next]_vars /\ WF_vars(Render) /\ WF_vars(Effect) /\ WF_vars(\E load \in loads : Request(load))

--------------------------------------------------------------------------------
(* Properties. *)

TypeOK ==
  /\ {cookie, session} \subseteq Principal /\ effect \in 0..owner /\ history.owner \in 1..owner
  /\ scans \in [Principal -> 0..MaxScans] /\ changes \in 0..MaxChanges /\ strayed \in BOOLEAN
  /\ \A load \in loads : load.owner <= effect

\* The page shows the history of who it was rendered for, from the first render on,
\* unless a token was issued to another in the meantime.
ShowsOwn == ~strayed => \A e \in Shown.scans : e.of = session

\* "A new token also invalidates an old A request after an A -> B -> A switch": what
\* is shown of an account was asked for since the page last changed principals.
NoOldRequest ==
  [][\A load \in loads : load \notin loads' /\ load.owner < owner => Shown' = Shown]_vars

\* A guest who sees scans sees all that the device holds.
GuestIsCurrent == session = Guest /\ ~Shown.loading /\ ~Shown.failed => Shown.scans = Entries(Guest, scans[Guest])

\* A page that loads comes to show scans or to say that it cannot.
Settled == ~Shown.loading
LoadingEnds == []<>Settled

\* The page shows the history of its owner, to a guest the current one, and
\* takes no answer to a request of before.
HistoryIsOwn == [](TypeOK /\ ShowsOwn /\ GuestIsCurrent) /\ NoOldRequest
================================================================================
