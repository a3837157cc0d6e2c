-------------------------------- MODULE MCJobs --------------------------------
(***************************************************************************)
(* What the server has to bring to an end: refreshes users ask for,        *)
(* e-mails that were abandoned, runs of the worker, its rotation, the      *)
(* seed, lookups at retailers and stale prices.  The parts share no state  *)
(* here, so each behaviour is one of a single part.                        *)
(***************************************************************************)
EXTENDS WatchlistItems

CONSTANTS
  None,
  Products, MaxSize, MaxVisitors,              \* of WatchlistRotation
  SeedProducts, MaxCrashes, MaxSeeds, Runner,  \* of SeedCatalogue
  Budget, NameNeeds, BrowserNeeds, MaxArticles, \* of PnpLookup
  MaxPayloads                                  \* of PageLookup

VARIABLES
  part, \* the part at work
  alert, claim, pc, runAge, held, best, afterId, page, full, job, mailed,
  row, owner, workerHeld, workerPc, queue, current, metrics, deposed,
  size, pace, place, watched, rotationQueue, done, busy, visitors,
  file, table, at, index, skip, progress, status, seedRuns, crashes, seedDone, written,
  configured, hint, apiKey, left, aborted, stage, articles, detailing, searched, browser,
  task, pnpFound, answer, late,
  adapter, setup, step, seen, pageBrowser, result, expired, race, product, price, told,
  pricesNow, pricesRow, pricesCheck, refresh, failing, visit, copy, pricesTold, latest,
  owing

deliveryVars == <<alert, claim, pc, runAge, held, best, afterId, page, full, job, mailed>>
workerVars == <<row, owner, workerHeld, workerPc, queue, current, metrics, deposed>>
rotationVars == <<size, pace, place, watched, rotationQueue, done, busy, visitors>>
seedVars == <<file, table, at, index, skip, progress, status, seedRuns, crashes, seedDone,
  written>>
pnpVars == <<configured, hint, apiKey, left, aborted, stage, articles, detailing,
  searched, browser, task, pnpFound, answer, late>>
pageVars == <<adapter, setup, step, seen, pageBrowser, result, expired, race, product,
  price, told>>
pricesVars == <<pricesNow, pricesRow, pricesCheck, refresh, failing, visit, copy,
  pricesTold, latest, owing>>

\* The parts, with small constants and variables of their own.
Delivery == INSTANCE AlertDelivery WITH
  Key <- {1}, Worker <- {"worker"}, Token <- {"one", "two"}, NoToken <- "none",
  Price <- {1}, Target <- {1, 2}, Cooldown <- 1, RunTicks <- 1, PageSize <- 1
Worker == INSTANCE WatchlistWorker WITH
  Run <- {"first", "second"}, NoRun <- "none", Product <- {"product"}, NoProduct <- "none",
  BatchLimit <- 1, MaxDeposed <- 0, held <- workerHeld, pc <- workerPc
Rotation == INSTANCE WatchlistRotation WITH queue <- rotationQueue
Seed == INSTANCE SeedCatalogue WITH
  Products <- SeedProducts, MaxRuns <- MaxSeeds, runs <- seedRuns, done <- seedDone
Pnp == INSTANCE PnpLookup WITH found <- pnpFound
Page == INSTANCE PageLookup WITH browser <- pageBrowser
Prices == INSTANCE PriceCache WITH
  Retailer <- {"retailer"}, Visitor <- {"visitor"}, MaxAge <- 1, MaxTime <- 2,
  now <- pricesNow, row <- pricesRow, check <- pricesCheck, told <- pricesTold

\* The parts are given constants they are made for, and the server runs seeds.
ASSUME PartsAssumption ==
  /\ "server" \in Runner
  /\ Rotation!Assumptions /\ Seed!Assumptions /\ Pnp!Assumptions /\ Page!Assumptions /\ Prices!Assumptions

\* One part is at work; each of the others rests in one of its initial states.
InitParts ==
  /\ part \in {"items", "delivery", "worker", "rotation", "seed", "seed alone",
                "pnp", "page", "prices"}
  /\ Init /\ (part # "items" => saved = {})
  /\ Delivery!Init /\ (part # "delivery" => alert[1].target = 1)
  /\ Worker!Init
  /\ Rotation!Init /\ (part # "rotation" => watched = {} /\ size = 1)
  /\ Seed!Init
  /\ Pnp!Init /\ (part # "pnp" => configured = "no" /\ ~hint /\ ~apiKey)
  /\ Page!Init /\ (part # "page" => adapter = "spar" /\ setup = "off")
  /\ Prices!Init

NextParts ==
  /\ UNCHANGED part
  /\ IF part = "items" THEN Next \/ UNCHANGED vars ELSE UNCHANGED vars
  /\ IF part = "delivery" THEN Delivery!Next ELSE UNCHANGED deliveryVars
  /\ IF part = "worker" THEN Worker!Next ELSE UNCHANGED workerVars
  /\ IF part = "rotation" THEN Rotation!Next ELSE UNCHANGED rotationVars
  /\ CASE part = "seed" -> Seed!Next \/ UNCHANGED seedVars
       [] part = "seed alone" -> Seed!Act("server") \/ UNCHANGED seedVars
       [] OTHER -> UNCHANGED seedVars
  /\ IF part = "pnp" THEN Pnp!Next \/ UNCHANGED pnpVars ELSE UNCHANGED pnpVars
  /\ IF part = "page" THEN Page!Next \/ UNCHANGED pageVars ELSE UNCHANGED pageVars
  /\ IF part = "prices" THEN Prices!Next \/ UNCHANGED pricesVars ELSE UNCHANGED pricesVars

everything == <<part, vars, deliveryVars, workerVars, rotationVars, seedVars, pnpVars,
              pageVars, pricesVars>>

\* The fairness of each part, while it is at work.
FairnessOfParts ==
  /\ WF_(vars)(part = "items" /\ (Finish \/ Fail))
  /\ \A u \in User : WF_(vars)(part = "items" /\ Answer(u))
  /\ WF_(deliveryVars)(part = "delivery" /\ Delivery!Tick)
  /\ \A w \in {"worker"} : WF_(deliveryVars)(part = "delivery" /\ Delivery!Begin(w))
  /\ \A w \in {"worker"} : WF_(deliveryVars)(part = "delivery" /\ Delivery!Step(w))
  /\ \A w \in {"worker"} : WF_(deliveryVars)(part = "delivery" /\ Delivery!ProviderAccepts(w))
  /\ WF_(workerVars)(part = "worker" /\ (\E r \in {"first", "second"} : Worker!Begin(r)))
  /\ \A r \in {"first", "second"} : WF_(workerVars)(part = "worker" /\ Worker!Step(r))
  /\ WF_(rotationVars)(part = "rotation" /\ Rotation!Begin)
  /\ WF_(rotationVars)(part = "rotation" /\ Rotation!Turn)
  /\ \A p \in 1..Products : WF_(rotationVars)(part = "rotation" /\ Rotation!Leave(p))
  /\ \A r \in Runner : WF_(seedVars)(part = "seed" /\ Seed!Step(r))
  /\ WF_(pnpVars)(part = "pnp" /\ Pnp!Tick)
  /\ WF_(pnpVars)(part = "pnp" /\ Pnp!Answer)
  /\ WF_(pnpVars)(part = "pnp" /\ (Pnp!Launched \/ Pnp!LaunchFails))
  /\ WF_(pageVars)(part = "page" /\ Page!Browser)
  /\ WF_(pageVars)(part = "page" /\ Page!Outer)
  /\ WF_(pricesVars)(part = "prices" /\ Prices!Refreshing)
  /\ \A v \in {"visitor"} : WF_(pricesVars)(part = "prices" /\ Prices!Answering(v))

SpecParts == InitParts /\ [][NextParts]_everything /\ FairnessOfParts

--------------------------------------------------------------------------------
(* Properties. *)

\* An abandoned claim does not silence an alert for good (claimAlertDelivery).
AbandonedClaimRecovers == part = "delivery" => Delivery!AbandonedClaimRecovers

\* The row of a dead worker does not stay running (startWatchlistRun).
StaleRowsSettle == Worker!StaleRowsSettle

\* A lookup of Pick n Pay gives its caller the product asked for at a price of our store,
\* starts nothing once the caller was answered, and a browser only when the search by EAN
\* has failed; what another lookup writes is the product asked for, priced and in time
\* (scrapers/pnp.js, woolworths.js, checkers.js, boundedScrape).
LookupsAreExact ==
  /\ part = "pnp" => Pnp!TypeOK /\ Pnp!OnlyExactProducts /\ Pnp!NoWastedWork
  /\ part = "page" => Page!TypeOK /\ Page!OnlyExactProducts /\ Page!NothingLate

\* A batch of the worker is full, keeps its quotas and takes of each kind those that have
\* waited longest (getWatchlistCandidates).  A seed lists no product twice, and what it
\* calls completed was done (seed-catalogue.js).
BatchesAreFair ==
  /\ part = "rotation" => Rotation!TypeOK /\ Rotation!BatchIsFair
  /\ part \in {"seed", "seed alone"} => Seed!TypeOK /\ Seed!ListedOnce /\ Seed!CompleteIsDone

\* What was begun comes to an end: a user's request to refresh an item is answered, a
\* stale price is refreshed, every product gets its turn in a batch, a seed ends, and with
\* one runner goes on where the last one stopped unless the file was torn, the caller of a
\* lookup is answered by the deadline, and no browser is left running.
JobsEnd ==
  /\ RequestsEnd
  /\ Prices!StaleIsRefreshed
  /\ \A p \in 1..Products : []<>(part = "rotation" => Rotation!HasTurn(p))
  /\ []<>(part = "seed" => Seed!Ended)
  /\ [][part = "seed alone" => Seed!GoesOn]_seedVars
  /\ <>[](part = "pnp" => Pnp!Answered)
  /\ Pnp!BrowserCloses
  /\ <>[](part = "page" => Page!AtRest)
================================================================================
