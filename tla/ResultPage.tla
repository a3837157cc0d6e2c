------------------------------- MODULE ResultPage -------------------------------
(***************************************************************************)
(* A comparison page: pwa/src/app/result/page.tsx.                         *)
(*                                                                         *)
(* The page compares one barcode and writes the first identified           *)
(* comparison to the history of its first owner.  The session settles and  *)
(* changes meanwhile; every change makes an owner of a new revision, even  *)
(* when the account is one that was here before.                           *)
(*                                                                         *)
(* Pages opened from the scan queue are left out: their scans are saved by *)
(* ScanHistory, or only on request.  CoverageForm models its form.         *)
(***************************************************************************)
EXTENDS Naturals, FiniteSets

CONSTANTS
  Account,
  Guest,     \* signed out: history is on the device
  Loading,   \* the session is not known yet
  None,
  MaxRev,    \* bound on changes of the session
  MaxPosts   \* bound on posts of an account on their way

Settled == Account \cup {Guest}
Owner   == [who : Settled \cup {Loading}, rev : 0..MaxRev]

\* The page's scan, a save under way, and what is said of it.
Candidates == [owner : Owner \cup {None}, attempted : BOOLEAN, recorded : SUBSET Settled]
Attempts   == [owner : Owner, step : {"device", "token", "posted", "answered"}, aborted : BOOLEAN]
Phases     == [owner : Owner, phase : {"saving", "saved", "error"}]

\* What is assumed of the constants, wherever this module is instantiated.
Assumptions ==
  /\ {Guest, Loading, None} \cap Account = {} /\ Cardinality({Guest, Loading, None}) = 3
  /\ None \notin Owner \cup Candidates \cup Attempts
  /\ MaxRev \in Nat /\ MaxPosts \in Nat

VARIABLES
  owner,      \* ownerRef: the session this page shows
  cookie,     \* the owner the server sees
  loading,    \* the comparison under way: its owner, or None
  candidate,  \* pendingScanRef: the scan to save, or None
  attempt,    \* historyInFlight: the save under way, or None
  phase,      \* historySave: what the page says of a save, and to whom
  wire,       \* wire[a]: posts of the scan on their way to account a
  history,    \* owners whose history has the scan
  first,      \* history: the first settled owner since the comparison began, or None
  consented   \* history: owners the user asked a save for

loadVars == <<loading, candidate, first>>
saveVars == <<attempt, phase, wire, history, consented>>
vars == <<owner, cookie, loadVars, saveVars>>

NoPhase == [owner |-> None, phase |-> "idle"]

Init ==
  /\ cookie \in Settled
  /\ owner \in [who : {Loading, cookie}, rev : {0}]
  /\ loading = owner /\ candidate = None
  /\ first = IF owner.who = Loading THEN None ELSE owner
  /\ attempt = None /\ phase = NoPhase /\ wire = [a \in Account |-> 0]
  /\ history = {} /\ consented = {}

--------------------------------------------------------------------------------
(* Saving the scan: recordSuccessfulScan. *)

\* The automatic save: the candidate c is fresh and its owner is the one shown,
\* or has yet to settle.
MayAutoSave(c, o) ==
  /\ c # None /\ attempt = None /\ o.who # Loading
  /\ ~c.attempted /\ c.owner \in {None, o}

\* An attempt stamps the candidate and says so.
Stamped(c, o) == [c EXCEPT !.owner = o, !.attempted = TRUE]
Attempt(o)    == [owner |-> o, step |-> IF o.who = Guest THEN "device" ELSE "token", aborted |-> FALSE]
Saving(o)     == [owner |-> o, phase |-> "saving"]

\* Either an automatic save begins, or nothing does.
AutoSave(c, o) ==
  IF MayAutoSave(c, o)
  THEN candidate' = Stamped(c, o) /\ attempt' = Attempt(o) /\ phase' = Saving(o)
  ELSE candidate' = c /\ UNCHANGED <<attempt, phase>>

\* Retry: an owner who has the scan is told so, any other is asked to confirm.
Retry ==
  /\ candidate # None /\ attempt = None /\ owner.who # Loading
  /\ IF owner.who \in candidate.recorded
     THEN phase' = [owner |-> owner, phase |-> "saved"] /\ UNCHANGED <<candidate, attempt, consented>>
     ELSE /\ candidate' = Stamped(candidate, owner)
          /\ attempt' = Attempt(owner) /\ phase' = Saving(owner)
          /\ consented' = consented \cup {owner.who}
  /\ UNCHANGED <<owner, cookie, loading, first, wire, history>>

\* current(): neither unmounted, nor aborted, nor another owner.
Current == ~attempt.aborted /\ owner = attempt.owner

\* The token is the cookie's; one of another account is refused.
GetToken ==
  /\ attempt # None /\ attempt.step = "token"
  /\ IF Current /\ cookie = attempt.owner.who
     THEN /\ wire[cookie] < MaxPosts
          /\ attempt' = [attempt EXCEPT !.step = "posted"]
          /\ wire' = [wire EXCEPT ![cookie] = @ + 1] /\ UNCHANGED phase
     ELSE /\ attempt' = None /\ UNCHANGED wire
          /\ phase' = IF Current THEN [owner |-> owner, phase |-> "error"] ELSE phase
  /\ UNCHANGED <<owner, cookie, loadVars, history, consented>>

\* recordScan on the server inserts a scan once; its answer may be lost.
Deliver(a) ==
  /\ wire[a] > 0
  /\ wire' = [wire EXCEPT ![a] = @ - 1]
  /\ history' = history \cup {a}
  /\ \/ attempt # None /\ attempt.step = "posted" /\ attempt.owner.who = a
        /\ attempt' = [attempt EXCEPT !.step = "answered"]
     \/ UNCHANGED attempt
  /\ UNCHANGED <<owner, cookie, loadVars, phase, consented>>

Lose(a) ==
  /\ wire[a] > 0
  /\ wire' = [wire EXCEPT ![a] = @ - 1]
  /\ UNCHANGED <<owner, cookie, loadVars, attempt, phase, history, consented>>

\* The post is refused, aborted, or its answer lost.
Fail ==
  /\ attempt # None /\ attempt.step \in {"posted", "answered"}
  /\ attempt' = None
  /\ phase' = IF Current THEN [owner |-> owner, phase |-> "error"] ELSE phase
  /\ UNCHANGED <<owner, cookie, loadVars, wire, history, consented>>

\* A confirmed save marks the candidate for its owner.
Confirmed ==
  IF Current
  THEN /\ candidate' = [candidate EXCEPT !.recorded = @ \cup {attempt.owner.who}]
       /\ phase' = [owner |-> attempt.owner, phase |-> "saved"]
  ELSE UNCHANGED <<candidate, phase>>

Confirm ==
  /\ attempt # None /\ attempt.step = "answered"
  /\ Confirmed
  /\ attempt' = None
  /\ UNCHANGED <<owner, cookie, loading, first, wire, history, consented>>

\* A guest's scan goes to the device in the step that begins the attempt.
SaveOnDevice ==
  /\ attempt # None /\ attempt.step = "device"
  /\ history' = history \cup {Guest}
  /\ Confirmed
  /\ attempt' = None
  /\ UNCHANGED <<owner, cookie, loading, first, wire, consented>>

\* No other step comes between.
Busy == attempt # None /\ attempt.step = "device"

--------------------------------------------------------------------------------
(* The comparison and the session. *)

\* The user asks for a comparison again.
Load ==
  /\ loading = None
  /\ loading' = owner
  /\ first' = IF candidate # None THEN first ELSE IF owner.who = Loading THEN None ELSE owner
  /\ UNCHANGED <<owner, cookie, candidate, saveVars>>

\* The owner of the scan: the one the comparison began with, or the one who
\* settled it when the session was not known.
OwnerOfScan == IF loading.who = Loading /\ owner.rev <= loading.rev + 1 THEN None ELSE loading

\* A fresh comparison with a known identity makes the page's scan, once.
Answer ==
  /\ loading # None
  /\ loading' = None
  /\ IF candidate = None
     THEN AutoSave([owner |-> OwnerOfScan, attempted |-> FALSE, recorded |-> {}], owner)
     ELSE UNCHANGED <<candidate, attempt, phase>>
  /\ UNCHANGED <<owner, cookie, first, wire, history, consented>>

\* A stale answer, one without an identity, or an error.
AnswerUnidentified ==
  /\ loading # None
  /\ loading' = None
  /\ UNCHANGED <<owner, cookie, candidate, first, saveVars>>

\* The session is read again: an owner of a new revision.  The effect aborts
\* the save of another owner and lets a scan nobody owns be saved.
See(who) ==
  /\ who \in {Loading, cookie} \ {owner.who} /\ owner.rev < MaxRev
  /\ owner' = [who |-> who, rev |-> owner.rev + 1]
  /\ first' = IF first = None /\ who # Loading THEN owner' ELSE first
  /\ IF candidate # None /\ candidate.owner = None
     THEN AutoSave(candidate, owner')
     ELSE /\ attempt' = IF attempt = None THEN None ELSE [attempt EXCEPT !.aborted = TRUE]
          /\ UNCHANGED <<candidate, phase>>
  /\ UNCHANGED <<cookie, loading, wire, history, consented>>

SwitchAccount(who) ==
  /\ cookie # who
  /\ cookie' = who
  /\ UNCHANGED <<owner, loadVars, saveVars>>

--------------------------------------------------------------------------------
Steps ==
  \/ Retry \/ GetToken \/ Fail \/ Confirm \/ Load \/ Answer \/ AnswerUnidentified
  \/ \E a \in Account : Deliver(a) \/ Lose(a)
  \/ \E who \in Settled \cup {Loading} : See(who)
  \/ \E who \in Settled : SwitchAccount(who)

Next == IF Busy THEN SaveOnDevice ELSE Steps

Spec == Init /\ [][Next]_vars

--------------------------------------------------------------------------------
(* Properties. *)

\* A scan without an owner was never attempted, and a save under way is of the
\* page's scan: types, with what ties them together.
TypeOK ==
  /\ owner \in Owner /\ cookie \in Settled /\ loading \in Owner \cup {None}
  /\ candidate \in Candidates \cup {None}
  /\ attempt \in Attempts \cup {None}
  /\ phase \in Phases \cup {NoPhase}
  /\ wire \in [Account -> 0..MaxPosts] /\ history \subseteq Settled
  /\ first \in Owner \cup {None} /\ consented \subseteq Settled
  /\ candidate # None => (candidate.attempted => candidate.owner # None)
  /\ attempt # None => candidate # None /\ candidate.attempted

\* Who has the scan, or will have it, without having asked for it, is the first
\* owner who settled since the comparison began ("Only the first settled owner
\* may auto-save.  Refreshes and account switches never retry writes").
SavedForFirstOwner ==
  \A o \in Settled \ consented :
    /\ o \in history \/ (o # Guest /\ wire[o] > 0) => first # None /\ o = first.who
    /\ o # Guest => wire[o] <= 1 /\ (wire[o] = 1 => o \notin history)

\* An owner who is told the scan is saved has it: an answer is never credited
\* to the owner who came after.
SavedIsInHistory ==
  /\ candidate # None => candidate.recorded \subseteq history
  /\ phase.phase = "saved" => phase.owner.who \in history
================================================================================
