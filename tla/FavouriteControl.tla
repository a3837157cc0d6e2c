----------------------------- MODULE FavouriteControl -----------------------------
(***************************************************************************)
(* The star of pwa/src/components/favourite-control.tsx: it checks whether *)
(* a product is saved and saves or removes it, for a guest on the device   *)
(* and for an account on the server.                                       *)
(*                                                                         *)
(* A context is a product together with who is signed in, as the page      *)
(* knows it; the page moves between contexts and comes back, while checks  *)
(* and changes of earlier visits are still under way.  Checks that         *)
(* loadVersion has made void are kept with live = FALSE.                   *)
(*                                                                         *)
(* Every request first gets a token, which is of whoever the browser's     *)
(* cookie names by then (userRequest of pwa/src/lib/user-api.ts, without   *)
(* a guard).  A render for another context and its effect are one step.    *)
(***************************************************************************)
EXTENDS Integers, FiniteSets

CONSTANTS
  Account,
  Guest,      \* nobody is signed in
  Barcode,
  MaxVisits,  \* bounds on the visits of other products,
  MaxChanges, \* on the changes of the cookie,
  MaxTries,   \* on the changes of the server
  MaxChecks   \* and on the checks at the same time

\* What is assumed of the constants, wherever this module is instantiated.
Assumptions ==
  /\ Guest \notin Account
  /\ {MaxVisits, MaxChanges, MaxTries, MaxChecks} \subseteq Nat

Principal == Account \cup {Guest}
Context   == [barcode : Barcode, who : Principal]

VARIABLES
  cookie,   \* who is signed in in this browser
  changes,  \* how often that has changed
  context,  \* contextRef
  visits,   \* how often the context has changed
  kept,     \* kept[c]: whether the product is saved, on the server or the device
  saved,    \* what the star shows
  ready,    \* it has been checked
  failed,   \* checkFailed
  saving,   \* saving, and busy with it
  message,  \* none, ok or error
  checks,   \* the checks under way; value is empty until the server has read
  tries,    \* how many changes were begun on the server
  toggles,  \* the changes under way
  overtaken, \* history: a context was checked or changed while a change of it was under way
  strayed   \* history: a request got the token of another account than it was made for

star    == <<saved, ready, failed, saving, message>>
browser == <<cookie, changes>>
page    == <<context, visits>>
past    == <<overtaken, strayed>>
vars    == <<browser, page, kept, star, checks, tries, toggles, past>>

\* A check that is about to be asked of the server.
Asked(c, n) == [n |-> n, context |-> c, live |-> TRUE, at |-> "token", who |-> c.who, value |-> {}]

\* The star is mounted and its first check has begun; a guest's has ended.
Init ==
  /\ context \in Context /\ visits = 0 /\ cookie = context.who /\ changes = 0
  /\ kept \in [Context -> BOOLEAN]
  /\ ready = (context.who = Guest) /\ saved = (ready /\ kept[context])
  /\ checks = IF ready THEN {} ELSE {Asked(context, 0)}
  /\ failed = FALSE /\ saving = FALSE /\ message = "none"
  /\ tries = 0 /\ toggles = {} /\ overtaken = FALSE /\ strayed = FALSE

\* The context c is checked or changed while the changes S are under way.
Overtake(c, S) == overtaken' = (overtaken \/ \E t \in S : t.context = c) /\ UNCHANGED strayed

\* The token of a request is of whoever the cookie names, not of who asked.
Stray(request) == strayed' = (strayed \/ cookie # request.context.who) /\ UNCHANGED overtaken

Void == {[check EXCEPT !.live = FALSE] : check \in checks}

\* check, with what the star showed before; a guest's is done at once, an account's
\* is asked of the server.
Check(c, shown) ==
  IF c.who = Guest
  THEN saved' = kept[c] /\ ready' = TRUE /\ failed' = FALSE /\ checks' = Void
  ELSE /\ saved' = shown /\ ready' = FALSE /\ failed' = FALSE
       /\ checks' = Void \cup {Asked(c, Cardinality(checks))}

--------------------------------------------------------------------------------
(* The page, and who is signed in *)

\* The effect begins anew for another context.
Show(c) ==
  /\ Cardinality(checks) < MaxChecks
  /\ context' = c /\ visits' = visits + 1
  /\ saving' = FALSE /\ message' = "none" /\ Check(c, FALSE)
  /\ Overtake(c, toggles)
  /\ UNCHANGED <<browser, kept, tries, toggles>>

\* Another product.
Visit(b) == visits < MaxVisits /\ b # context.barcode /\ Show([context EXCEPT !.barcode = b])

\* In another tab, say.
SignIn(p) ==
  /\ p # cookie /\ changes < MaxChanges /\ cookie' = p /\ changes' = changes + 1
  /\ UNCHANGED <<page, kept, star, checks, tries, toggles, past>>

\* The page learns who is signed in.
Switch == context.who # cookie /\ Show([context EXCEPT !.who = cookie])

\* "Retry favourites"
Retry ==
  /\ failed /\ Cardinality(checks) < MaxChecks
  /\ message' = "none" /\ Check(context, saved) /\ Overtake(context, toggles)
  /\ UNCHANGED <<browser, page, kept, saving, tries, toggles>>

\* Another part of the page, or of the browser, says that favourites have changed.
Changed ==
  /\ ~saving /\ Cardinality(checks) < MaxChecks
  /\ Check(context, saved) /\ Overtake(context, toggles)
  /\ UNCHANGED <<browser, page, kept, saving, message, tries, toggles>>

--------------------------------------------------------------------------------
(* A check *)

Becomes(check, next) == checks' = (checks \ {check}) \cup {next}

CheckToken(check) ==
  /\ check.at = "token" /\ cookie # Guest /\ Stray(check)
  /\ Becomes(check, [check EXCEPT !.at = "sent", !.who = cookie])
  /\ UNCHANGED <<browser, page, kept, star, tries, toggles>>

\* What the server keeps for the request: its product, for the account of its token.
For(request) == [request.context EXCEPT !.who = request.who]

Read(check) ==
  /\ check.at = "sent"
  /\ Becomes(check, [check EXCEPT !.at = "read", !.value = {kept[For(check)]}])
  /\ UNCHANGED <<browser, page, kept, star, tries, toggles, past>>

Receive(check) ==
  /\ check.at = "read" /\ checks' = checks \ {check}
  /\ IF check.live /\ check.context = context
     THEN saved' = (TRUE \in check.value) /\ ready' = TRUE
     ELSE UNCHANGED <<saved, ready>>
  /\ UNCHANGED <<browser, page, kept, failed, saving, message, tries, toggles, past>>

\* No token, a request that is lost, or its answer.
CheckFails(check) ==
  /\ checks' = checks \ {check}
  /\ IF check.live THEN failed' = TRUE /\ message' = "error" ELSE UNCHANGED <<failed, message>>
  /\ UNCHANGED <<browser, page, kept, saved, ready, saving, tries, toggles, past>>

--------------------------------------------------------------------------------
(* toggle *)

\* What the device holds is turned over; the device may refuse.
ToggleHere ==
  /\ context.who = Guest /\ ready /\ ~saving
  /\ checks' = Void
  /\ \/ kept' = [kept EXCEPT ![context] = ~@] /\ saved' = kept'[context] /\ message' = "ok"
     \/ UNCHANGED <<kept, saved>> /\ message' = "error"
  /\ UNCHANGED <<browser, page, ready, failed, saving, tries, toggles, past>>

Toggle ==
  /\ context.who # Guest /\ ready /\ ~saving /\ tries < MaxTries
  /\ saving' = TRUE /\ message' = "none" /\ checks' = Void /\ tries' = tries + 1
  /\ toggles' = toggles \cup {[n |-> tries, context |-> context, who |-> context.who, next |-> ~saved, at |-> "token"]}
  /\ Overtake(context, toggles)
  /\ UNCHANGED <<browser, page, kept, saved, ready, failed>>

Moved(t, next) == toggles' = (toggles \ {t}) \cup {next}

ToggleToken(t) ==
  /\ t.at = "token" /\ cookie # Guest /\ Stray(t)
  /\ Moved(t, [t EXCEPT !.at = "sent", !.who = cookie])
  /\ UNCHANGED <<browser, page, kept, star, checks, tries>>

\* addFavourite and removeFavourite: removing what is not there is not confirmed.
Apply(t) ==
  /\ t.at \in {"sent", "lost"}
  /\ kept' = [kept EXCEPT ![For(t)] = t.next]
  /\ IF t.at = "lost" THEN toggles' = toggles \ {t}
     ELSE Moved(t, [t EXCEPT !.at = IF t.next \/ kept[For(t)] THEN "confirmed" ELSE "unconfirmed"])
  /\ UNCHANGED <<browser, page, star, checks, tries, past>>

\* The answer: the star shows it, if it is of its context.  Then favourites have changed,
\* for which the star begins a check unless it is busy, by this change or another.
Confirm(t) ==
  /\ t.at = "confirmed" /\ toggles' = toggles \ {t}
  /\ IF t.context = context THEN message' = "ok" /\ saving' = FALSE ELSE UNCHANGED <<message, saving>>
  /\ LET shown == IF t.context = context THEN t.next ELSE saved IN
     IF saving THEN saved' = shown /\ UNCHANGED <<ready, failed, checks, past>>
     ELSE Cardinality(checks) < MaxChecks /\ Check(context, shown) /\ Overtake(context, toggles')
  /\ UNCHANGED <<browser, page, kept, tries>>

\* Without an answer, the server may not have done it, or do it later.
Lose(t) == toggles' = toggles \ {t} \/ (t.at = "sent" /\ Moved(t, [t EXCEPT !.at = "lost"]))

\* No token, a change that is not confirmed, a request that is lost, or its answer.
ToggleFails(t) ==
  /\ t.at # "lost" /\ Lose(t)
  /\ IF t.context = context THEN message' = "error" /\ saving' = FALSE ELSE UNCHANGED <<message, saving>>
  /\ UNCHANGED <<browser, page, kept, saved, ready, failed, checks, tries, past>>

EndCheck  == \E check \in checks : CheckToken(check) \/ Read(check) \/ Receive(check) \/ CheckFails(check)
EndToggle == \E t \in toggles : ToggleToken(t) \/ Apply(t) \/ Confirm(t) \/ ToggleFails(t)

Next ==
  \/ Retry \/ Changed \/ Switch \/ ToggleHere \/ Toggle \/ EndCheck \/ EndToggle
  \/ (\E b \in Barcode : Visit(b)) \/ \E p \in Principal : SignIn(p)

\* Requests come to an end.
Spec == Init /\ [][Next]_vars /\ WF_vars(EndCheck) /\ WF_vars(EndToggle)

--------------------------------------------------------------------------------
(* Properties. *)

\* At most one check is not void, and it is of the context that is shown.
TypeOK ==
  /\ context \in Context /\ cookie \in Principal /\ kept \in [Context -> BOOLEAN] /\ saved \in BOOLEAN
  /\ ready \in BOOLEAN /\ failed \in BOOLEAN /\ saving \in BOOLEAN
  /\ message \in {"none", "ok", "error"} /\ overtaken \in BOOLEAN /\ strayed \in BOOLEAN
  /\ \A a \in checks : a.live => a.context = context /\ ~ready /\ (\A b \in checks : b.live => a = b)

\* A star at rest that shows no error shows what is kept, unless a check or a change
\* has overtaken another, or a request was made with the token of another account:
\* coming back to a context with a change under way frees the star, which then shows
\* the answers as they come.
ShownIsKept ==
  (ready /\ toggles = {} /\ checks = {} /\ message # "error" /\ ~overtaken /\ ~strayed) => saved = kept[context]

\* Without leaving the context, the star sends one change at a time, and waits for no
\* check beside it.
OneChange ==
  LET awaited == {t \in toggles : t.at # "lost"} IN
  visits = 0 => /\ Cardinality(awaited) <= 1
                /\ awaited # {} => \A check \in checks : ~check.live

\* A change that is said to be done was done, for the account that is shown unless the
\* token was of another: "Saved to your account."
ToldIsDone == [][message # "ok" /\ message' = "ok" /\ ~overtaken /\ ~strayed => kept'[context'] = saved']_vars

\* A busy star becomes free; and once nothing says any more that favourites have changed,
\* which voids the check under way and begins another, a check ends.
StarGoesFree == []<>~saving
CheckEnds    == <>[][~Changed]_vars => []<>(ready \/ failed)
================================================================================
