------------------------------- MODULE HealthPage -------------------------------
(***************************************************************************)
(* The component ProductHealth of pwa/src/components/product-health.tsx:   *)
(* what a page shows of the ingredients of its product, and the copy it    *)
(* keeps in localStorage.                                                  *)
(*                                                                         *)
(* The effect of a page starts one lookup and cancels the one before; the  *)
(* answer of a cancelled lookup may still arrive.  An answer holds facts   *)
(* or none, is outdated or not (the service worker and the server may      *)
(* both say so), and may report an outage of the source.                   *)
(***************************************************************************)
EXTENDS Integers, FiniteSets

CONSTANTS
  Barcode,
  None,
  MaxAge,     \* healthCacheAge
  MaxTime,    \* bound on the time
  MaxLookups  \* bound on the lookups of one page

Time == 0..MaxTime

\* The data of an answer: product, facts or none, an outage, and when it was given.
Data == [barcode : Barcode, facts : BOOLEAN, down : BOOLEAN, at : Time]
Copies == [data : Data, savedAt : Time]
Answer == [facts : BOOLEAN, down : BOOLEAN, stale : BOOLEAN]
\* The server's outdated copies and its outages; what the service worker kept.
Answers == {a \in Answer : a.down /\ a.facts => a.stale}

\* What is assumed of the constants, wherever this module is instantiated.
Assumptions == {MaxAge, MaxTime, MaxLookups} \subseteq Nat \ {0} /\ None \notin Data \cup Copies \cup Time

VARIABLES
  now,
  page,      \* the product of the page
  effect,    \* the effect for the product or the retry has not run yet
  begun,     \* how many lookups have begun
  lookups,   \* the lookups under way, the cancelled ones included
  shown,     \* the state of the component
  stored,    \* stored[b]: the copy in localStorage, or None
  confirmed  \* history: confirmed[b]: when the source was last known to tell facts of b

vars == <<now, page, effect, begun, lookups, shown, stored, confirmed>>

LoadingView == [status |-> "loading", data |-> None, stale |-> FALSE, refreshing |-> FALSE, failed |-> FALSE]

Init ==
  /\ now = 0 /\ page \in Barcode /\ effect = TRUE /\ begun = 0 /\ lookups = {}
  /\ shown = LoadingView
  /\ stored = [b \in Barcode |-> None] /\ confirmed = [b \in Barcode |-> None]

Tick == now < MaxTime /\ now' = now + 1 /\ UNCHANGED <<page, effect, begun, lookups, shown, stored, confirmed>>

\* readCachedHealth
Cached(b) == IF stored[b] # None /\ now - stored[b].savedAt <= MaxAge THEN stored[b].data ELSE None

Open(b) ==
  /\ b # page /\ ~effect
  /\ page' = b /\ effect' = TRUE
  /\ UNCHANGED <<now, begun, lookups, shown, stored, confirmed>>

\* The button is disabled while a lookup is under way.
Retry ==
  /\ ~effect /\ ~shown.refreshing
  /\ effect' = TRUE
  /\ UNCHANGED <<now, page, begun, lookups, shown, stored, confirmed>>

Own == shown.data # None /\ shown.data.barcode = page

\* The cleanup of the last effect, and the effect: what is shown of the product, or
\* else was saved of it, stays while it is looked up again.
Effect ==
  /\ effect /\ begun < MaxLookups
  /\ effect' = FALSE /\ begun' = begun + 1
  /\ lookups' = {[l EXCEPT !.cancelled = TRUE] : l \in lookups} \cup {[n |-> begun, barcode |-> page, cancelled |-> FALSE]}
  /\ LET data == IF Own THEN shown.data ELSE Cached(page) IN
     shown' = IF data = None THEN [LoadingView EXCEPT !.refreshing = TRUE]
              ELSE [status |-> "ready", data |-> data, stale |-> IF Own THEN shown.stale ELSE TRUE,
                    refreshing |-> TRUE, failed |-> FALSE]
  /\ UNCHANGED <<now, page, stored, confirmed>>

Told(l, a) == [barcode |-> l.barcode, facts |-> a.facts, down |-> a.down, at |-> now]

\* saveHealth, unless the answer is outdated or the source is down.
Save(l, a) ==
  IF ~a.stale /\ ~a.down THEN [stored EXCEPT ![l.barcode] = [data |-> Told(l, a), savedAt |-> now]] ELSE stored

\* Mutant: an outage is shown like any other answer.
AfterAny(l, a) ==
  [status |-> "ready", data |-> Told(l, a), stale |-> a.stale, refreshing |-> FALSE, failed |-> a.down]

\* An outage leaves the facts that are shown.
After(l, a) ==
  IF a.down /\ ~a.facts /\ shown.data # None /\ shown.data.barcode = l.barcode /\ shown.data.facts
  THEN [shown EXCEPT !.status = "ready", !.data.down = TRUE, !.stale = TRUE, !.refreshing = FALSE, !.failed = TRUE]
  ELSE [status |-> "ready", data |-> Told(l, a), stale |-> a.stale, refreshing |-> FALSE, failed |-> a.down]

\* An answer arrives; storage may refuse the copy.
Receive(l, a) ==
  /\ lookups' = lookups \ {l}
  /\ shown' = IF l.cancelled THEN shown ELSE After(l, a)
  /\ stored' \in IF l.cancelled THEN {stored} ELSE {stored, Save(l, a)}
  /\ confirmed' = IF a.facts /\ ~a.stale THEN [confirmed EXCEPT ![l.barcode] = now] ELSE confirmed
  /\ UNCHANGED <<now, page, effect, begun>>

\* An error, an answer that is not understood, or the timeout.
Fail(l) ==
  /\ lookups' = lookups \ {l}
  /\ shown' = IF l.cancelled THEN shown
              ELSE IF shown.data # None /\ shown.data.barcode = l.barcode
              THEN [shown EXCEPT !.status = "ready", !.stale = TRUE, !.refreshing = FALSE, !.failed = TRUE]
              ELSE [LoadingView EXCEPT !.status = "error", !.failed = TRUE]
  /\ UNCHANGED <<now, page, effect, begun, stored, confirmed>>

EndLookup == \E l \in lookups : Fail(l) \/ \E a \in Answers : Receive(l, a)

Next == Tick \/ Retry \/ Effect \/ EndLookup \/ \E b \in Barcode : Open(b)

\* The timeout ends every lookup, and React runs effects.
Spec == Init /\ [][Next]_vars /\ WF_vars(Effect) /\ WF_vars(EndLookup)

--------------------------------------------------------------------------------
(* Properties. *)

\* Facts are shown of the product of the page only.
Rendered == IF Own THEN shown.data ELSE None

TypeOK ==
  /\ now \in Time /\ page \in Barcode /\ effect \in BOOLEAN /\ begun \in 0..MaxLookups
  /\ shown.data = None \/ shown.data \in Data
  /\ shown.status \in {"loading", "ready", "error"}
  /\ \A b \in Barcode : stored[b] # None => stored[b].data \in Data /\ stored[b].savedAt \in 0..now
  /\ confirmed \in [Barcode -> Time \cup {None}]
  /\ Cardinality({l \in lookups : ~l.cancelled}) <= 1

\* Once a page's lookup has ended it shows its own product or an error, never the
\* one before ("Never show the previous item").
ShowsOwn == ~effect => (shown.data # None => Own) /\ (~shown.refreshing => Own \/ shown.status = "error")

\* Facts that are not called outdated were told by the source, at the time shown.
NotOutdatedIsTold ==
  Rendered # None /\ Rendered.facts /\ ~shown.stale
    => ~Rendered.down /\ confirmed[page] # None /\ confirmed[page] >= Rendered.at

\* What was saved was told by the source when it was saved: a copy that is read
\* back is never older than the limit.
SavedWasTold ==
  \A b \in Barcode : Cached(b) # None =>
    /\ ~Cached(b).down /\ now - Cached(b).at <= MaxAge
    /\ Cached(b).facts => confirmed[b] # None /\ confirmed[b] >= Cached(b).at

\* An outage takes no facts from the page.
OutageKeepsFacts ==
  [][Rendered # None /\ Rendered.facts /\ page' = page /\ shown'.failed => Rendered' # None /\ Rendered'.facts /\ shown'.stale]_vars

\* A lookup comes to an end.
LookupEnds == []<>(~shown.refreshing \/ effect)
================================================================================
