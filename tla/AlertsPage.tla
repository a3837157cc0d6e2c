-------------------------------- MODULE AlertsPage --------------------------------
(***************************************************************************)
(* The alerts of pwa/src/app/alerts/page.tsx: the list of an account, its  *)
(* reload, and the removal of alerts.                                      *)
(*                                                                         *)
(* Every request first gets a token, which is of whoever the browser's     *)
(* cookie names by then (userRequest of pwa/src/lib/user-api.ts, without   *)
(* a guard), and may be lost before or after the server has acted on it.   *)
(* A render for another account and its effect are one step.               *)
(***************************************************************************)
EXTENDS Integers, FiniteSets

CONSTANTS
  Account,
  Nobody,     \* nobody is signed in
  Alert,      \* the ids of price_alerts
  MaxChanges, \* bounds on the changes of the cookie,
  MaxLoads,   \* on the loads of the page,
  MaxRemovals \* and on the removals

\* What is assumed of the constants, wherever this module is instantiated.
Assumptions == Nobody \notin Account /\ {MaxChanges, MaxLoads, MaxRemovals} \subseteq Nat

VARIABLES
  of,       \* the account of each alert
  active,   \* the active alerts
  cookie,   \* who is signed in in this browser
  session,  \* accountRef
  list,     \* the alerts that are listed
  loading,
  message,  \* whether there is an error to read
  pending,  \* the alerts whose button is busy
  loads,    \* the loads under way
  removals, \* the removals under way
  changes, loaded, removed, \* counts
  strayed,  \* history: a request got the token of another account than it was made for
  doubtful \* history: a removal was under way when the page began to load, or failed since

page == <<list, loading, message, pending>>
vars == <<of, active, cookie, session, page, loads, removals, changes, loaded, removed, strayed, doubtful>>

\* The effect: it cancels earlier loads and begins one.
Load ==
  /\ list' = {} /\ message' = FALSE /\ pending' = {} /\ loading' = (session' # Nobody) /\ loaded' = loaded + 1
  /\ loads' = {[l EXCEPT !.live = FALSE] : l \in loads}
       \cup IF session' = Nobody THEN {} ELSE {[n |-> loaded, live |-> TRUE, at |-> "token", who |-> session', found |-> {}]}
  /\ doubtful' = (removals # {})

Init ==
  /\ of \in [Alert -> Account] /\ active \in SUBSET Alert
  /\ cookie \in Account /\ session = cookie
  /\ list = {} /\ loading = TRUE /\ message = FALSE /\ pending = {}
  /\ loads = {[n |-> 0, live |-> TRUE, at |-> "token", who |-> cookie, found |-> {}]} /\ loaded = 1
  /\ removals = {} /\ changes = 0 /\ removed = 0 /\ strayed = FALSE /\ doubtful = FALSE

--------------------------------------------------------------------------------
(* Accounts and tokens *)

SignIn(a) ==
  /\ a # cookie /\ changes < MaxChanges /\ cookie' = a /\ changes' = changes + 1
  /\ UNCHANGED <<of, active, session, page, loads, removals, loaded, removed, strayed, doubtful>>

\* The page learns who is signed in.
Switch ==
  /\ session # cookie /\ loaded < MaxLoads /\ session' = cookie /\ Load
  /\ UNCHANGED <<of, active, cookie, removals, changes, removed, strayed>>

\* The token of a request is of whoever the cookie names, not of who asked.
Stray(request) == strayed' = (strayed \/ cookie # request.who)

\* listAlerts and activeUniqueAlerts
Mine(account) == {id \in active : of[id] = account}

--------------------------------------------------------------------------------
(* Loads *)

Reload ==
  /\ session # Nobody /\ ~loading /\ loaded < MaxLoads
  /\ UNCHANGED session /\ Load
  /\ UNCHANGED <<of, active, cookie, removals, changes, removed, strayed>>

LoadToken(l) ==
  /\ l.at = "token" /\ cookie # Nobody /\ Stray(l)
  /\ loads' = (loads \ {l}) \cup {[l EXCEPT !.at = "sent", !.who = cookie]}
  /\ UNCHANGED <<of, active, cookie, session, page, removals, changes, loaded, removed, doubtful>>

Read(l) ==
  /\ l.at = "sent"
  /\ loads' = (loads \ {l}) \cup {[l EXCEPT !.at = "read", !.found = Mine(l.who)]}
  /\ UNCHANGED <<of, active, cookie, session, page, removals, changes, loaded, removed, strayed, doubtful>>

\* The alerts are there; their prices are asked for next.
Receive(l) ==
  /\ l.at = "read"
  /\ loads' = (loads \ {l}) \cup {[l EXCEPT !.at = "prices"]}
  /\ list' = IF l.live THEN l.found ELSE list
  /\ UNCHANGED <<of, active, cookie, session, loading, message, pending, removals, changes, loaded, removed, strayed, doubtful>>

\* With the prices or without.
EndLoad(l) ==
  /\ l.at = "prices" /\ loads' = loads \ {l}
  /\ loading' = (loading /\ ~l.live)
  /\ UNCHANGED <<of, active, cookie, session, list, message, pending, removals, changes, loaded, removed, strayed, doubtful>>

\* No token, a request that is lost, or its answer.
LoadFails(l) ==
  /\ l.at # "prices" /\ loads' = loads \ {l}
  /\ message' = (message \/ l.live) /\ loading' = (loading /\ ~l.live)
  /\ UNCHANGED <<of, active, cookie, session, list, pending, removals, changes, loaded, removed, strayed, doubtful>>

--------------------------------------------------------------------------------
(* Removals *)

\* Mutant: the alert leaves the list before the server has been asked.
RemoveAtOnce(id) ==
  /\ session # Nobody /\ ~loading /\ id \in list \ pending /\ removed < MaxRemovals
  /\ pending' = pending \cup {id} /\ message' = FALSE /\ removed' = removed + 1 /\ list' = list \ {id}
  /\ removals' = removals \cup {[n |-> removed, owner |-> session, id |-> id, at |-> "token", who |-> session]}
  /\ UNCHANGED <<of, active, cookie, session, loading, loads, changes, loaded, strayed, doubtful>>

Remove(id) ==
  /\ session # Nobody /\ ~loading /\ id \in list \ pending /\ removed < MaxRemovals
  /\ pending' = pending \cup {id} /\ message' = FALSE /\ removed' = removed + 1
  /\ removals' = removals \cup {[n |-> removed, owner |-> session, id |-> id, at |-> "token", who |-> session]}
  /\ UNCHANGED <<of, active, cookie, session, list, loading, loads, changes, loaded, strayed, doubtful>>

Moved(r, next) == removals' = (removals \ {r}) \cup {next}

RemovalToken(r) ==
  /\ r.at = "token" /\ cookie # Nobody /\ Stray(r)
  /\ Moved(r, [r EXCEPT !.at = "sent", !.who = cookie])
  /\ UNCHANGED <<of, active, cookie, session, page, loads, changes, loaded, removed, doubtful>>

\* deactivateAlert: an alert of another account is left alone.
Deactivate(r) ==
  /\ r.at \in {"sent", "lost"}
  /\ active' = active \ {id \in {r.id} : of[id] = r.who}
  /\ IF r.at = "sent" THEN Moved(r, [r EXCEPT !.at = "done"]) ELSE removals' = removals \ {r}
  /\ UNCHANGED <<of, cookie, session, page, loads, changes, loaded, removed, strayed, doubtful>>

\* accountRef.current === owner
Owns(r) == r.owner = session

\* Whether the server has removed anything is not looked at.
Answer(r) ==
  /\ r.at = "done" /\ removals' = removals \ {r}
  /\ IF Owns(r) THEN list' = list \ {r.id} /\ pending' = pending \ {r.id} ELSE UNCHANGED <<list, pending>>
  /\ UNCHANGED <<of, active, cookie, session, loading, message, loads, changes, loaded, removed, strayed, doubtful>>

\* No token, or a request that is lost, which the server may act on yet, or its answer.
RemoveFails(r) ==
  /\ r.at # "lost" /\ doubtful' = TRUE
  /\ removals' \in {removals \ {r}} \cup IF r.at = "sent" THEN {(removals \ {r}) \cup {[r EXCEPT !.at = "lost"]}} ELSE {}
  /\ IF Owns(r) THEN message' = TRUE /\ pending' = pending \ {r.id} ELSE UNCHANGED <<message, pending>>
  /\ UNCHANGED <<of, active, cookie, session, list, loading, loads, changes, loaded, removed, strayed>>

EndLoads    == \E l \in loads : LoadToken(l) \/ Read(l) \/ Receive(l) \/ EndLoad(l) \/ LoadFails(l)
EndRemovals == \E r \in removals : RemovalToken(r) \/ Deactivate(r) \/ Answer(r) \/ RemoveFails(r)

Next ==
  \/ Switch \/ Reload \/ EndLoads \/ EndRemovals
  \/ \E a \in Account \cup {Nobody} : SignIn(a)
  \/ \E id \in Alert : Remove(id)

\* Requests come to an end.
Spec == Init /\ [][Next]_vars /\ WF_vars(EndLoads) /\ WF_vars(EndRemovals)

--------------------------------------------------------------------------------
(* Properties. *)

\* The page loads exactly while the load that was begun last is under way.
TypeOK ==
  /\ active \subseteq Alert /\ list \subseteq Alert /\ pending \subseteq Alert
  /\ {cookie, session} \subseteq Account \cup {Nobody} /\ message \in BOOLEAN
  /\ {strayed, doubtful} \subseteq BOOLEAN
  /\ loading <=> \E l \in loads : l.live
  /\ \A l, k \in loads : l.live /\ k.live => l = k

\* The page lists alerts of its account, unless a token was of another.
ShowsOwn == ~strayed => \A id \in list : of[id] = session

\* What a page at rest lists are the active alerts of its account: "Active targets
\* only."  A reload beside a removal may list an alert again that is not active any
\* more, and a removal that failed may have been made, until the next reload.
ListIsActive ==
  (session # Nobody /\ loads = {} /\ removals = {} /\ ~message /\ ~strayed /\ ~doubtful) => list = Mine(session)

\* An alert leaves the list when it is not active any more, or with the whole list.
RemovedIsGone == [][~strayed /\ loaded' = loaded => \A id \in list \ list' : id \notin active']_vars

\* A page that loads comes to an end, and a busy button becomes free.
Settled == ~loading
Free == pending = {}
LoadingEnds == []<>Settled
ButtonsFree == []<>Free
================================================================================
