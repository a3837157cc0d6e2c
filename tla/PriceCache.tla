------------------------------- MODULE PriceCache -------------------------------
(***************************************************************************)
(* What a visitor is told of a product's prices: getComparison of          *)
(* src/priceService.js over retailer_prices and recordComparisonCheck of   *)
(* src/db.js.                                                              *)
(*                                                                         *)
(* A visitor reads the latest prices and the latest check, and later       *)
(* answers with them, or with a refresh that is made or joined.  A refresh *)
(* writes prices one by one and its check at the end; the worker records a *)
(* failed refresh outside of the lock.  One product; RefreshCoordinator    *)
(* models who may refresh it.                                              *)
(***************************************************************************)
EXTENDS Integers, FiniteSets

CONSTANTS
  Retailer,
  Visitor,
  None,
  MaxAge,   \* CACHE_MAX_AGE_MS
  MaxTime   \* bound on the time

\* What is assumed of the constants, wherever this module is instantiated.
Assumptions ==
  /\ MaxAge \in Nat \ {0} /\ MaxTime \in Nat
  /\ None \notin Nat /\ None \notin [at : Nat, failed : BOOLEAN, available : SUBSET Retailer]

Time == 0..MaxTime

VARIABLES
  now,
  row,      \* row[r]: scraped_at of the latest price of r, or None
  check,    \* the row of watchlist_checks: when, failed?, retailers available; or None
  refresh,  \* the refresh under way, or None
  failing,  \* the worker is about to record that a refresh failed
  visit,    \* visit[v]: idle, read, waiting or told
  copy,     \* copy[v]: what v read, and the findings behind it
  told,     \* told[v]: the answer for each retailer
  latest,   \* history: latest[r]: the last finding recorded of r: price, negative or None
  owing     \* history: a stale answer was given and no refresh has ended since

stored == <<row, check, latest>>
vars   == <<now, stored, refresh, failing, visit, copy, told, owing>>

Nothing == [r \in Retailer |-> [kind |-> "none", at |-> None, stale |-> FALSE]]
NoCopy  == [row |-> [r \in Retailer |-> None], check |-> None, latest |-> [r \in Retailer |-> None]]

Init ==
  /\ now = 0
  /\ row = [r \in Retailer |-> None] /\ check = None /\ latest = [r \in Retailer |-> None]
  /\ refresh = None /\ failing = FALSE
  /\ visit = [v \in Visitor |-> "idle"] /\ copy = [v \in Visitor |-> NoCopy] /\ told = [v \in Visitor |-> Nothing]
  /\ owing = FALSE

Tick ==
  /\ now < MaxTime
  /\ now' = now + 1
  /\ UNCHANGED <<stored, refresh, failing, visit, copy, told, owing>>

--------------------------------------------------------------------------------
(* A refresh. *)

NewRefresh == [began |-> now, pending |-> Retailer, price |-> [r \in Retailer |-> None]]

\* The worker's, or another caller's.
StartRefresh ==
  /\ refresh = None
  /\ refresh' = NewRefresh
  /\ UNCHANGED <<now, stored, failing, visit, copy, told, owing>>

Newest(a, b) == IF a # None /\ a > b THEN a ELSE b

\* A retailer answers with a price, stamped when it was read: it is written at
\* once.
StorePrice(r, at) ==
  /\ refresh # None /\ r \in refresh.pending /\ at \in refresh.began..now
  /\ row' = [row EXCEPT ![r] = Newest(@, at)]
  /\ latest' = [latest EXCEPT ![r] = "price"]
  /\ refresh' = [refresh EXCEPT !.pending = @ \ {r}, !.price[r] = at]
  /\ UNCHANGED <<now, check, failing, visit, copy, told, owing>>

\* The write is done but its answer is lost: the retailer counts as unavailable.
StoreUnanswered(r) ==
  /\ refresh # None /\ r \in refresh.pending
  /\ row' = [row EXCEPT ![r] = now] /\ latest' = [latest EXCEPT ![r] = "price"]
  /\ refresh' = [refresh EXCEPT !.pending = @ \ {r}]
  /\ UNCHANGED <<now, check, failing, visit, copy, told, owing>>

\* Nothing found, an error, or the time is up.
NoPrice(r) ==
  /\ refresh # None /\ r \in refresh.pending
  /\ refresh' = [refresh EXCEPT !.pending = @ \ {r}]
  /\ UNCHANGED <<now, stored, failing, visit, copy, told, owing>>

Available == {r \in Retailer : refresh.price[r] # None}
Waiters   == {v \in Visitor : visit[v] = "waiting"}

\* Everybody who waits gets the answer of the refresh.
Settle(answer) ==
  /\ refresh' = None /\ owing' = FALSE
  /\ visit' = [v \in Visitor |-> IF v \in Waiters THEN "told" ELSE visit[v]]
  /\ told'  = [v \in Visitor |-> IF v \in Waiters THEN answer ELSE told[v]]

\* recordComparisonCheck ends the refresh.
RecordCheck ==
  /\ refresh # None /\ refresh.pending = {}
  /\ check' = [at |-> now, failed |-> FALSE, available |-> Available]
  /\ latest' = [r \in Retailer |-> IF r \in Available THEN "price" ELSE "negative"]
  /\ Settle([r \in Retailer |-> [kind |-> IF r \in Available THEN "fresh" ELSE "missing",
                                 at |-> refresh.price[r], stale |-> FALSE]])
  /\ UNCHANGED <<now, row, failing, copy>>

\* An exception, or the loss of the lock; the worker will record it.
RefreshFails ==
  /\ refresh # None
  /\ failing' \in {failing, TRUE}
  /\ Settle([r \in Retailer |-> [kind |-> "failed", at |-> None, stale |-> FALSE]])
  /\ UNCHANGED <<now, stored, copy>>

\* recordFailure, whatever has been stored meanwhile.
RecordFailure ==
  /\ failing
  /\ failing' = FALSE
  /\ check' = [at |-> now, failed |-> TRUE, available |-> {}]
  /\ latest' = [r \in Retailer |-> "negative"]
  /\ UNCHANGED <<now, row, refresh, visit, copy, told, owing>>

--------------------------------------------------------------------------------
(* A visitor. *)

Read(v) ==
  /\ visit[v] = "idle"
  /\ visit' = [visit EXCEPT ![v] = "read"]
  /\ copy' = [copy EXCEPT ![v] = [row |-> row, check |-> check, latest |-> latest]]
  /\ UNCHANGED <<now, stored, refresh, failing, told, owing>>

\* A check without r that is not older than its price.
Hidden(c, r) ==
  /\ c.check # None
  /\ c.check.failed \/ r \notin c.check.available
  /\ c.row[r] # None => c.check.at >= c.row[r]

\* cachedRetailerObservation
Observed(c, r) ==
  IF Hidden(c, r) THEN [kind |-> "missing", at |-> c.check.at]
  ELSE IF c.row[r] # None THEN [kind |-> "cached", at |-> c.row[r]]
  ELSE [kind |-> "none", at |-> None]

Misses(c) == {r \in Retailer : Observed(c, r).kind = "none"}

\* Mutant: the price of a retailer is stale only when it was hidden.
StaleByCheck(c) == {r \in Retailer : Observed(c, r).kind = "missing" /\ now - Observed(c, r).at >= MaxAge}

\* cacheIsStale
Stale(c) == {r \in Retailer : Observed(c, r).kind # "none" /\ now - Observed(c, r).at >= MaxAge}

\* With something stale, or nothing missing, the answer is what was read.
FromCache(c) ==
  [r \in Retailer |->
    [kind |-> IF Observed(c, r).kind = "none" THEN "progress" ELSE Observed(c, r).kind,
     at |-> Observed(c, r).at, stale |-> r \in Stale(c)]]

\* Stale facts are answered at once, and refreshed unless somebody does.
AnswerCached(v) ==
  /\ visit[v] = "read"
  /\ Misses(copy[v]) = {} \/ Stale(copy[v]) # {}
  /\ visit' = [visit EXCEPT ![v] = "told"]
  /\ told' = [told EXCEPT ![v] = FromCache(copy[v])]
  /\ refresh' = IF Stale(copy[v]) # {} /\ refresh = None THEN NewRefresh ELSE refresh
  /\ owing' = (owing \/ Stale(copy[v]) # {})
  /\ UNCHANGED <<now, stored, failing, copy>>

\* Something is missing and nothing stale: the answer is a refresh's, made here
\* or joined.
Wait(v) ==
  /\ visit[v] = "read"
  /\ Misses(copy[v]) # {} /\ Stale(copy[v]) = {}
  /\ refresh' = IF refresh = None THEN NewRefresh ELSE refresh
  /\ visit' = [visit EXCEPT ![v] = "waiting"]
  /\ UNCHANGED <<now, stored, failing, copy, told, owing>>

\* Another process refreshes: every retailer is answered as failed.
Refused(v) ==
  /\ visit[v] = "read"
  /\ Misses(copy[v]) # {} /\ Stale(copy[v]) = {} /\ refresh # None
  /\ visit' = [visit EXCEPT ![v] = "told"]
  /\ told' = [told EXCEPT ![v] = [r \in Retailer |-> [kind |-> "failed", at |-> None, stale |-> FALSE]]]
  /\ UNCHANGED <<now, stored, refresh, failing, copy, owing>>

Leave(v) ==
  /\ visit[v] = "told"
  /\ visit' = [visit EXCEPT ![v] = "idle"]
  /\ copy' = [copy EXCEPT ![v] = NoCopy] /\ told' = [told EXCEPT ![v] = Nothing]
  /\ UNCHANGED <<now, stored, refresh, failing, owing>>

Refreshing ==
  \/ \E r \in Retailer : NoPrice(r) \/ StoreUnanswered(r) \/ \E at \in Time : StorePrice(r, at)
  \/ RecordCheck \/ RefreshFails

Answering(v) == AnswerCached(v) \/ Wait(v) \/ Refused(v)

Next ==
  \/ Tick \/ StartRefresh \/ Refreshing \/ RecordFailure
  \/ \E v \in Visitor : Read(v) \/ Answering(v) \/ Leave(v)

\* Lookups are bounded and writes answered, so a refresh ends and every visitor is answered.
Spec == Init /\ [][Next]_vars /\ WF_vars(Refreshing) /\ \A v \in Visitor : WF_vars(Answering(v))

--------------------------------------------------------------------------------
(* Properties. *)

Answers == [kind : {"none", "missing", "cached", "fresh", "failed", "progress"}, at : Time \cup {None}, stale : BOOLEAN]

\* A stored price is not from the future, and a refresh that has a price of a
\* retailer has written it.
TypeOK ==
  /\ now \in Time
  /\ row \in [Retailer -> (0..now) \cup {None}]
  /\ check = None \/ check \in [at : 0..now, failed : BOOLEAN, available : SUBSET Retailer]
  /\ refresh = None \/ refresh \in [began : 0..now, pending : SUBSET Retailer, price : [Retailer -> (0..now) \cup {None}]]
  /\ failing \in BOOLEAN /\ owing \in BOOLEAN
  /\ visit \in [Visitor -> {"idle", "read", "waiting", "told"}]
  /\ told \in [Visitor -> [Retailer -> Answers]]
  /\ latest \in [Retailer -> {"price", "negative", None}]
  /\ refresh # None => \A r \in Retailer : refresh.price[r] # None => row[r] # None /\ row[r] >= refresh.price[r]

\* A price is answered from the cache only when the last finding of its
\* retailer, when it was read, was a price ("never returned as a current
\* available offer after a newer unavailable/failed check").
NoOfferAfterNegative ==
  \A v \in Visitor, r \in Retailer : told[v][r].kind = "cached" => copy[v].latest[r] = "price"

\* The answer is one refresh's or the cache's, never a mixture of both ("not a
\* pre-refresh cache mixture"), and the same for every visitor who waited.
NoMixture ==
  \A v \in Visitor :
    (\E r \in Retailer : told[v][r].kind = "fresh") => \A r \in Retailer : told[v][r].kind \in {"fresh", "missing"} /\ ~told[v][r].stale

\* A cached answer that is not called stale was younger than the limit when it
\* was given.
StaleIsSaid ==
  [][\A v \in Visitor, r \in Retailer :
       told'[v] # told[v] /\ told'[v][r].kind \in {"cached", "missing"} /\ told'[v][r].at # None /\ ~told'[v][r].stale
         => now - told'[v][r].at < MaxAge \/ visit[v] = "waiting"]_vars

\* All of it: offers, answers and what is said of their age.
PricesAreTrue == [](TypeOK /\ NoOfferAfterNegative /\ NoMixture) /\ StaleIsSaid

\* After a stale answer a refresh ends, and whoever waits is answered.
StaleIsRefreshed == []<>~owing /\ \A v \in Visitor : []<>(visit[v] # "waiting")
================================================================================
