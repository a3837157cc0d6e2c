------------------------------ MODULE WatchlistItems ------------------------------
(***************************************************************************)
(* What a user's watchlist says of one product: watchlistItem of           *)
(* src/watchlist.js over what recordComparisonCheck and insertPrice have   *)
(* stored, and the route by which a user has it checked again.             *)
(*                                                                         *)
(* A comparison is run by the web process, which shares it between all who *)
(* wait, or by the worker, under one lock (RefreshCoordinator).  A failed  *)
(* one of the worker is recorded after the lock is given up.               *)
(***************************************************************************)
EXTENDS Integers, FiniteSets

CONSTANTS
  User, Retailer,
  Price,
  StaleAfter, \* six hours
  MaxTime,    \* bounds on the time, of which a tick is at least the minute between refreshes,
  MaxRuns     \* and on the comparisons

ASSUME ItemsAssumption == Price \subseteq Nat \ {0} /\ {StaleAfter, MaxRuns} \subseteq Nat /\ MaxTime \in Nat \ {0}

VARIABLES
  now,
  saved,   \* who has the product among the favourites or has an active alert
  prices,  \* retailer_prices: the newest offer of each retailer
  check,   \* watchlist_checks: the row of the product
  by,      \* who compares: web, worker or nobody
  found,   \* the offers the comparison has found
  owed,    \* whether the worker is about to record a failure
  request, \* request[u]: where the request to refresh is, and what it has read or answers
  runs

vars == <<now, saved, prices, check, by, found, owed, request, runs>>

Offer == [retailer : Retailer, price : Price, at : 0..MaxTime]

NoRequest == [at |-> "idle", own |-> FALSE, read |-> 0, since |-> 0, item |-> {}]

Init ==
  /\ now = 1 /\ saved \in SUBSET User
  /\ prices = {} /\ check = [state |-> "never", offers |-> {}, at |-> 0, lastAvailable |-> 0]
  /\ by = "nobody" /\ found = {} /\ owed = FALSE
  /\ request = [u \in User |-> NoRequest] /\ runs = 0

--------------------------------------------------------------------------------
(* The item *)

\* sourceIsStale
Stale(offer) == now - offer.at > StaleAfter

\* bestKnown: the cheapest fresh offer, or the cheapest if none is fresh.
Best(offers) ==
  LET fresh == {o \in offers : ~Stale(o)}
      first == IF fresh # {} THEN fresh ELSE offers
  IN  {o \in first : \A p \in first : o.price <= p.price}

\* Mutant: old listings stand in for a check that found nothing.
ItemKnown ==
  [best |-> IF Best(check.offers) # {} THEN Best(check.offers) ELSE Best(prices), known |-> Best(prices),
   checked |-> check.at, availability |-> check.state]

\* watchlistItem.  best and known are the offers of which the first is shown.
Item ==
  LET best == IF check.state \in {"failed", "unavailable"} THEN {}
              ELSE IF Best(check.offers) # {} THEN Best(check.offers) ELSE Best(prices)
  IN  [best |-> best, known |-> Best(prices), checked |-> check.at,
       availability |-> IF check.state \in {"failed", "unavailable"} THEN check.state
                        ELSE IF best # {} THEN "available" ELSE "not_checked"]

\* The item's stale.
ItemStale == \A o \in Item.best : Stale(o)

--------------------------------------------------------------------------------
(* Comparisons *)

Tick == now < MaxTime /\ now' = now + 1 /\ UNCHANGED <<saved, prices, check, by, found, owed, request, runs>>

\* Another visitor's refresh, or the worker's.
Begin(p) ==
  /\ by = "nobody" /\ runs < MaxRuns /\ (p = "worker" => ~owed)
  /\ by' = p /\ found' = {} /\ runs' = runs + 1
  /\ UNCHANGED <<now, saved, prices, check, owed, request>>

Others(offers, r) == {o \in offers : o.retailer # r}

\* boundedScrape: the offer is stored before it is a result; one that cannot be stored
\* is none.
Find(r, price) ==
  /\ by # "nobody" /\ \A o \in found : o.retailer # r
  /\ LET o == [retailer |-> r, price |-> price, at |-> now]
     IN  found' = found \cup {o} /\ prices' = Others(prices, r) \cup {o}
  /\ UNCHANGED <<now, saved, check, by, owed, request, runs>>

\* recordComparisonCheck
Recorded(offers, state) ==
  check' = [state |-> state, offers |-> offers, at |-> now, lastAvailable |-> IF offers # {} THEN now ELSE check.lastAvailable]

\* Whoever waits for the comparison of this process goes on.
Released(at) == request' = [u \in User |-> IF request[u].at = "waits" /\ by = "web" THEN [request[u] EXCEPT !.at = at] ELSE request[u]]

Finish ==
  /\ by # "nobody"
  /\ Recorded(found, IF found # {} THEN "available" ELSE "unavailable") /\ Released("compared")
  /\ by' = "nobody" /\ found' = {}
  /\ UNCHANGED <<now, saved, prices, owed, runs>>

\* The comparison cannot be recorded, or the lock is lost.
Fail ==
  /\ by # "nobody" /\ Released("503") /\ by' = "nobody" /\ found' = {} /\ owed' = (owed \/ by = "worker")
  /\ UNCHANGED <<now, saved, prices, check, runs>>

\* The worker's recordFailure.
RecordFailure ==
  /\ owed /\ owed' = FALSE /\ Recorded({}, "failed")
  /\ UNCHANGED <<now, saved, prices, by, found, request, runs>>

--------------------------------------------------------------------------------
(* The routes *)

Save(u) ==
  /\ saved' = IF u \in saved THEN saved \ {u} ELSE saved \cup {u}
  /\ UNCHANGED <<now, prices, check, by, found, owed, request, runs>>

\* ownedItem
Read(u) ==
  /\ request[u].at = "idle"
  /\ request' = [request EXCEPT ![u] = [@ EXCEPT !.at = "read", !.own = u \in saved, !.read = check.at]]
  /\ UNCHANGED <<now, saved, prices, check, by, found, owed, runs>>

Answers(u, code) == request' = [request EXCEPT ![u].at = code] /\ UNCHANGED <<by, runs>>

\* Mutant: a product may be refreshed at once.
RefreshAtOnce(u) ==
  /\ request[u].at = "read"
  /\ IF ~request[u].own THEN Answers(u, "404")
     ELSE IF by = "worker" THEN Answers(u, "409")
     ELSE /\ by = "web" \/ runs < MaxRuns
          /\ request' = [request EXCEPT ![u] = [@ EXCEPT !.at = "waits", !.since = now]]
          /\ by' = "web" /\ runs' = IF by = "web" THEN runs ELSE runs + 1
  /\ UNCHANGED <<now, saved, prices, check, found, owed>>

\* The route decides by what it has read, and begins the comparison or joins it.
Refresh(u) ==
  /\ request[u].at = "read"
  /\ IF ~request[u].own THEN Answers(u, "404")
     ELSE IF request[u].read = now THEN Answers(u, "429")
     ELSE IF by = "worker" THEN Answers(u, "409")
     ELSE /\ by = "web" \/ runs < MaxRuns
          /\ request' = [request EXCEPT ![u] = [@ EXCEPT !.at = "waits", !.since = now]]
          /\ by' = "web" /\ runs' = IF by = "web" THEN runs ELSE runs + 1
  /\ UNCHANGED <<now, saved, prices, check, found, owed>>

\* The item is read again; one that is not the user's any more is an error.
Answer(u) ==
  /\ request[u].at = "compared"
  /\ request' = [request EXCEPT ![u] = IF u \in saved THEN [@ EXCEPT !.at = "200", !.item = {Item}] ELSE [@ EXCEPT !.at = "503"]]
  /\ UNCHANGED <<now, saved, prices, check, by, found, owed, runs>>

\* The user sees the answer.
Done(u) ==
  /\ request[u].at \notin {"idle", "read", "waits", "compared"}
  /\ request' = [request EXCEPT ![u] = NoRequest]
  /\ UNCHANGED <<now, saved, prices, check, by, found, owed, runs>>

Next ==
  \/ Tick \/ Finish \/ Fail \/ RecordFailure
  \/ \E p \in {"web", "worker"} : Begin(p)
  \/ \E r \in Retailer, price \in Price : Find(r, price)
  \/ \E u \in User : Save(u) \/ Read(u) \/ Refresh(u) \/ Answer(u) \/ Done(u)

\* A comparison comes to an end (its scrapes are bounded), and the route goes on.
Spec == Init /\ [][Next]_vars /\ WF_vars(Finish \/ Fail) /\ \A u \in User : WF_vars(Answer(u))

--------------------------------------------------------------------------------
(* Properties. *)

\* Only the web process has waiting requests, and a row that was never written is empty.
TypeOK ==
  /\ prices \subseteq Offer /\ found \subseteq Offer /\ check.offers \subseteq Offer
  /\ saved \subseteq User /\ now \in 1..MaxTime /\ owed \in BOOLEAN /\ runs \in 0..MaxRuns
  /\ \A u \in User : request[u].at = "waits" => by = "web"
  /\ check.state = "available" <=> check.offers # {}
  /\ check.state = "never" <=> check.at = 0

\* "A failed/unavailable check must not resurrect an old listing as available": an offer
\* that is shown is one of the last check's, or there has been no check.
NotResurrected == Item.best # {} => check.state = "never" \/ Item.best \subseteq check.offers

\* An item that is not stale shows an offer found within StaleAfter, and no fresh offer
\* of the same check is cheaper, even when an older one is.
FreshIsCheapest ==
  ~ItemStale => \A o \in Item.best :
    /\ now - o.at <= StaleAfter
    /\ \A p \in check.offers : now - p.at <= StaleAfter => o.price <= p.price

\* The stored prices are never behind the check: for each offer of the check there is
\* one of the same retailer that is not older, although they are written apart.
KnownIsNewest == \A o \in check.offers : \E p \in prices : p.retailer = o.retailer /\ p.at >= o.at

\* The time at which the product was last available never falls back, whatever later
\* checks find, and is that of the last check while it found the product.
AvailabilityIsKept ==
  [][check'.lastAvailable >= check.lastAvailable /\ (check'.offers # {} => check'.lastAvailable = check'.at)]_vars

\* A user who is answered with an item gets one that was checked since it was asked for.
AnswerIsChecked == \A u \in User : \A item \in request[u].item : item.checked >= request[u].since

\* "This product was checked less than a minute ago": a request begins no comparison so
\* soon, unless the check was recorded after the request had looked.
Cooled == [][\A u \in User : by = "nobody" /\ request[u].at = "read" /\ request'[u].at = "waits"
             => check.at < now \/ check.at > request[u].read]_vars

\* A request that waits is answered.
RequestsEnd == \A u \in User : []<>(request[u].at \notin {"waits", "compared"})

\* What the watchlist keeps and shows of a product was found, by the newest check
\* that found it, and what a user is told was checked.
OffersAreTrue == TypeOK /\ AnswerIsChecked /\ NotResurrected /\ FreshIsCheapest /\ KnownIsNewest

\* Comparisons are spaced by the cooldown, and a failed one forgets no availability.
ChecksAreSpaced == Cooled /\ AvailabilityIsKept
================================================================================
