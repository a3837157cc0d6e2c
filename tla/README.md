# PriceCheck in TLA+

TLA+ specifications, TLC runs and TLAPS proofs for the PriceCheck ("TrolleyWise")
repository: an Express backend that compares grocery prices (`src/*.js`), a Next.js PWA
(`pwa/src`) and the jobs in `scripts/`. Paths below are relative to the repository.

Contents: [the system](#the-system) · [modules](#modules) · [runs](#runs-and-bounds) ·
[fairness](#fairness) · [proofs](#proofs) · [what is not proved](#what-is-only-model-checked) · [findings](#findings) ·
[what the code does](#what-the-code-does-at-the-edges) ·
[abstractions](#abstractions) · [what is left out](#what-is-not-modelled) ·
[how far this goes](#how-far-this-goes)

## The system

One Postgres database is shared by the web servers and by a cron process that runs every
six hours. Nothing else is shared between processes: locks are advisory locks of the
database, ownership of an alert delivery is a row. The browser keeps data of its own and
changes accounts while requests are under way.

| Component | State | Operations | What makes it correct |
|---|---|---|---|
| Alert delivery (`src/alerts.js`, `src/db.js`) | `price_alerts`, `alert_delivery_claims`, cursor and page of a run | load a page, claim, send, complete; users edit alerts | one mail per claim; overlapping workers never both deliver; *sent* only if mailed; no alert skipped by paging; an abandoned claim does not silence an alert |
| Alert storage (`src/db.js`) | rows of one user and product | create, deactivate, list | one target or none, whatever rows there were before the unique key |
| Refresh coordination (`src/priceService.js`, `src/db.js`) | `refreshes` Map per process, advisory locks, two pools | `forceRefreshComparison`, `withDatabaseLock` | one comparison of a product at a time; joiners are answered; results stay in order; the pools never wait for each other |
| Price cache (`src/priceService.js`) | prices, checks, background refreshes | `getComparison` | nothing after a negative finding; stale is said; no mixture of two refreshes |
| Retailer adapters (`src/scrapers/`) | attempts, browser, result object | search, fall back, launch, race a timer | exact products only, nothing after the answer, no browser left over |
| Watchlist worker and rotation (`src/watchlist.js`, `src/db.js`, `scripts/run-watchlist.js`) | `watchlist_runs`, lock, batch; attempts of products | start, refresh, evaluate alerts, finish, fail; rank products | *complete* only for a whole batch, alerts included where mail is configured; one running row; fair batches |
| Watchlist items (`src/watchlist.js`) | checks, prices, requests that wait | list, refresh, record | offers are of the last check; minutes between checks |
| Accounts and recovery (`src/authFlows.js`, `src/userAuth.js`, `src/server.js`) | users, action tokens, sessions | register, sign in, request a link, confirm, revoke, reset | a link works once; one live link per purpose; a reset ends older sessions |
| Product health (`src/productHealth.js`, `product-health.tsx`, `label-data-input.tsx`) | cache, panel, device copies, notes | look up, score, show, keep | nothing outdated unsaid; outages take no facts away |
| Guest data (`guest-data.ts`, `guest-data-sync.tsx`, `migrateGuestData`) | three device keys, rows of accounts | record, post, merge, clear | nothing lost, nothing twice |
| Scan queue, history, result page (`scan-queue.tsx`, `result/page.tsx`, `history/page.tsx`) | rows, attempts, who owns a scan | add, compare, retry, save, show | a scan has one owner; a page shows its own account |
| Alerts page, star, camera (`alerts/page.tsx`, `favourite-control.tsx`, `scan/page.tsx`) | lists, busy flags, streams | load, toggle, start, stop | what is shown is kept; no camera leaks |
| Seed, service worker, budgets, product requests | progress file; offline caches; windows; requests | run again after a crash; install, fetch; admit; ask | nothing listed twice; no copy lost by an update; no budget passed |

How they interact. The cron worker takes the worker lock, asks `forceRefreshComparison`
for every product of its batch, then hands the comparisons to `evaluatePriceAlerts`.
Visitors reach `forceRefreshComparison` through the web servers at the same time, and edit
their alerts while the worker pages through them. Both kinds of lock live on connections
of `lockSql` (at most two per process), statements on `sql` (at most three). Pages of
the PWA reach the backend with a token that names whoever the cookie names when it is
asked for.

What is hard here: a lock is lost with its connection while the code under it goes on;
statements fail with their effect in place; the mail provider answers late or never;
processes are killed by a safety stop; rows are old when they are used; promises are
shared; accounts change between a request and its answer. `PROJECT.json` lists each
such place under "hazards", with the properties that would catch it going wrong.

## Modules

A module stands for one component; its variables carry the names of the code where there
is one, and each action is one handler up to its next `await`. `PROJECT.json` "map" names
the lines behind every definition. Definitions whose comment begins with "Mutant" are not
part of a specification: each is a plausible bug, put in the place of the definition
after it to see that a property notices.

| Module | Code | State and actions |
|---|---|---|
| `AlertNotice` | contract | what a shopper may expect of e-mails: `Open`, `Mail`, `Close`, `Age`; no workers, claims or database |
| `AlertDelivery` | `evaluatePriceAlerts`, `claimAlertDelivery`, `completeAlertDelivery` | any number of workers without the worker lock; every statement may throw with or without its effect; implements `AlertNotice` |
| `AlertPaging`, `AlertSpacing` | the same | history variables: what a run visited and should have; when a price was last announced |
| `AlertRegister`, `AlertStore` | `createAlert`, `deactivateAlert` | an abstract target or none; the transactions, row locks and the unique key that implement it |
| `RefreshCoordinator` | `forceRefreshComparison`, `withDatabaseLock` | Map per process, pools, lock connections, refreshes from queue to answer |
| `PriceCache` | `getComparison` | rows and checks read apart, background refreshes, what visitors are told |
| `PnpLookup`, `PageLookup` | `scrapers/pnp.js`; the page adapters | work beside its caller's race with the timer; browser that is launched late |
| `WatchlistWorker` | `runWatchlistWorker`, `run-watchlist.js` | rows of runs, lock, batch, counts as sets of products |
| `WatchlistRotation` | `getWatchlistCandidates` | ranks, quotas, products in the order of their last checks (`place`), for each size of a batch and each number of products a run has time for (`size`, `pace`) |
| `WatchlistItems` | `watchlistItem`, the refresh route | checks, observations, requests of users beside worker and visitors |
| `AuthFlows` | `authFlows.js`, `userAuth.js` | statements and transactions of requests, confirmations, registrations, sessions, calls |
| `HealthCache`, `CleanScore`, `HealthPage`, `LabelNotes` | `productHealth.js`, its panel, the notes | lookups that share a cache with limits; the score; the panel beside its device copies; checked fields |
| `GuestSync` | `guest-data.ts`, `guest-data-sync.tsx`, `migrateGuestData` | device, tabs, payloads that may be posted twice, rows of accounts |
| `ScanQueue`, `ScanHistory`, `ResultPage`, `CoverageForm` | the queue, who owns a scan, the result page, its form | attempts and saves while accounts change |
| `HistoryPage`, `AlertsPage`, `FavouriteControl`, `CameraScanner` | the pages and controls of that name | renders, effects, loads, buttons, tokens of whoever the cookie names; generations of starts |
| `OfflineCache` | `pwa/public/sw.js` | activation with caches that are copied and caches that are not, fetch handlers that cross |
| `SeedCatalogue`, `RequestBudgets` | `seed-catalogue.js`; `proxy-identity.ts`, `auth-flows.ts` | progress file that may be torn; the two tables of counters, with the order of their keys |

Two refinements are stated with `INSTANCE ... WITH`: `AlertDelivery` implements
`AlertNotice` (a claim row is read as a notice) and `AlertStore` implements
`AlertRegister` (all rows of a product are read as one target).

`MCTables`, `MCJobs`, `MCServer`, `MCBrowserData` and `MCPages` put components side by
side that share no state: a variable `part` picks one component when a behaviour begins,
that component runs by its own `Init` and `Next`, and the others rest in one initial
state. A property of such a module is the conjunction of its components' properties;
`part = "x" => ...` keeps those of a resting component out. They take their components'
constants from the `.cfg` (or name them in the `INSTANCE`, where nothing is proved about
the component there) and state in `PartsAssumption` what is assumed of them.
`MCAlertDelivery`, `MCRefreshCoordinator` and `MCWatchlistWorker` hold symmetry sets and
one view. Modules ending in `Proofs` hold the theorems; those about composites extend the
composite, so that a theorem speaks of the very property that a run checks.

## Runs and bounds

| Run | Instance | Shows |
|---|---|---|
| `alert_overlap` | one alert, two workers, two prices, three tokens, a cooldown and a run of one tick | overlapping workers with every failing statement, lost answer, crash and edit: `DeliveryOwnsClaim`, `NoDoubleDelivery`, `SentMeansMailed`, `ClaimsAreCurrent`, `OneMailPerClaim`, and the refinement `NoticeSpec` |
| `alert_spacing` | one worker, two prices | violation, see [findings](#findings) |
| `refresh_safety` | two processes, one product, two visitors, a worker, three refreshes | `OneRefreshPerProduct`, `WaitersShareRefresh`, `NewestCheckWins` |
| `refresh_answers` | one process, a data pool of one, two products, two workers, a visitor, fair | `EveryCallAnswered`: the pools do not deadlock |
| `worker_accounts` | two runs, three products, batches of two | `CompleteMeansChecked` |
| `worker_records` | three run ids, one at a time without its lock | `OneRunningRow` |
| `worker_comment` | two run ids, one lost lock | violation, see [findings](#findings) |
| `server_tables` | three sessions, rows 1..3, two targets; four alerts in pages of two; records of products over three texts; three visitors, budgets of two and a table that is full with one | `RowsAreSound`, `RegisterSpec`, `PagingVisitsAll`, `ScoreIsHonest`, `BudgetsHold` |
| `server_jobs` | one user, two retailers, two prices; one worker and alert; two run ids; batches of one to three out of three products, with time for one to three; three products to seed and one crash; lookups with two articles | `OffersAreTrue`, `ChecksAreSpaced`, `LookupsAreExact`, `BatchesAreFair`, and that what was begun ends: `AbandonedClaimRecovers`, `StaleRowsSettle`, `JobsEnd` |
| `server_state` | one account with two requests, two confirmations, a registration, a session, a call; two retailers; two lookups and a cache of one | `LinksAreSound`, `SessionsAreSound`, `PricesAreTrue`, `FactsAreTrue` |
| `browser_data` | one tab and two accounts, two tabs and one account; scans, results, forms, notes; two offline requests, four responses, two caches that are carried over and one that is not | `GuestDataIsKept`, `ScansBelong`, `SaidIsTrue`, `OfflineIsKept` |
| `pages_settle` | two accounts and a guest, two products; two starts of the camera, two alerts, three lookups; the star of two products, and of one while the cookie changes | `HistoryIsOwn`, `ListsAreTrue`, `CameraIsKnown`, `PanelIsTrue`, `PagesSettle` |

Why the bounds are enough. Every conflict over an alert is between two workers, and a
third token lets a third claim follow while two are remembered. Two prices tell "same
price" from "another price"; four alerts in pages of two give a full page, a short page
and an empty last page. A tick stands for some hours and ages saturate one above the
cooldown, beyond which the code tells none apart; `RunTicks` bounds the life of a run (in
the code 60 s beyond its budget) and need only not exceed the cooldown. `Op` bounds the
refreshes under way at a time: three are one that is overtaken, one that overtakes it and
one refused. `LockPool` and `DataPool` are the limits of `lockSql` and `sql`; the smallest
data pool is the hardest. `MaxDeposed` bounds the run ids at a time whose run has lost its
lock. Two accounts beside the guest let a page go there and back; two requests and two
confirmations of one account are the crossings of `authFlows.js`, which looks at one
account at a time. Two tabs share one device. `StaleAfter = 0` makes an offer of an
earlier tick stale, so three moments of time tell fresh, stale and stale again apart. A
cache of one entry has to evict at the second barcode; with no third barcode it cannot grow beyond its limit
there, so that the size in `FactsAreTrue` is shown by the proof alone. Budgets of two and a table that is
full with one counter meet every branch of the sweep, and in five moments a visitor is
admitted a fifth time, one more than two budgets. Three products let a crash fall before,
between and after them. The star is two parts. `star` has two products
and two changes on the server while the cookie stays; `strays` has one product and one change
while the cookie changes, so that each request may get the token of another account. Two
requests of the service worker cross in each order, and four responses let an outage follow
two others. Clocks, renders, visits, tries, posts and changes of accounts have
bounds of their own (`Max...`) that stop them at the instance's size. `worker_records`
uses a view that leaves out the metrics stored in rows, which no action reads.

Deadlock is checked in every run. The parts that come to rest when their bounds are
reached may stutter in the composites (`... \/ UNCHANGED`), the others may not.

## Fairness

Safety runs assume none. The liveness properties assume, for the component alone or
inside its composite:

* `AlertDelivery`: time passes, cron starts runs again, a live process takes its next
  step, the provider answers within the attempt (20 s in the code).
  `AbandonedClaimRecovers` supposes besides that users and faults come to rest and the
  price stays below the target; without that nobody promises a mail.
* `RefreshCoordinator`: steps of a refresh are taken; strong fairness for getting a
  connection, since the pools of the postgres library serve their queues in order.
  Scrapes end because `boundedScrape` has timeouts; statements are assumed to end.
* `WatchlistWorker`: cron starts a run whenever the lock is free and a live run goes on.
  `StaleRowsSettle` supposes that faults come to rest.
* `WatchlistRotation`: a batch is started and worked off; a busy product becomes free. A
  run has time for one product at least: `RETAILER_TIMEOUT_MS` and 40 s are less than
  `WATCHLIST_MAX_RUNTIME_MS`, which holds for the defaults (15 s, 20 min). With the longest
  timeout and the shortest run that are configurable (85 s, 60 s) no product is ever checked.
  `EveryTurnComes` promises turns of the history only where `HistoryHasTime`, see
  [the edges](#what-the-code-does-at-the-edges).
* `WatchlistItems`, `PriceCache`: comparisons that were begun end or fail; answers follow.
* `PnpLookup`, `PageLookup`: time passes, settled promises continue, a browser that was
  asked for starts or fails, and the awaits on it and the race's timer end. Nothing is
  assumed of the retailers.
* `SeedCatalogue`: a runner that is alive goes on.
* Pages: renders and their effects run, requests are answered or lost, browser and user
  answer the question for the camera, queues work. `CheckEnds` of the star supposes besides
  that events come to rest: each `storage` or favourites event voids the check under way and
  begins another (`favourite-control.tsx:48`). `QueueSettles` and `SyncSettles` suppose that
  the user rests. Nothing else is assumed of users.

## Proofs

The theorems hold for every number of workers, alerts, tokens, prices, processes,
products, callers, refreshes, runs, requests, sessions, tabs, accounts, scans, lookups and
visitors that the named assumptions of the modules allow: tokens and ids differ from their
absences, prices are positive, a run does not outlive the cooldown (`CooldownAssumption`),
pages, pools, tables and budgets are not empty, a lookup reserves time for its name search
and its browser. TLC evaluates those assumptions in the runs.

Each proof has an inductive invariant that TLC checked first, one lemma per action or
group of actions, and theorems that follow without another induction. Composites are
proved about as they are: `SpecParts => []FactsAreTrue` holds because `NextParts` is a step
of each part's `[Next]_vars`, and so each part's invariant is kept whichever part is at
work. The component that a composite extends is proved about by its own `Spec`, which
`SpecParts` implies (`PartsAreSpec`). Where that `Spec` also states fairness, which no
proof uses, `PartsAreSpec` gives `Init /\ [][Next]_vars` (`WatchlistItems`), or the
theorem is stated for `SpecParts` too (`GuestDataStaysInParts`, `HistoryStaysOwn`).

`AlertDeliveryProofs` (properties of `alert_overlap`, and `AlertPaging`).
* `IInv` strengthens `DeliveryOwnsClaim` and `SentMeansMailed` by `PageCompared` (a page
  row is one that was compared), `TokensDistinct` (two attempts never carry the same
  token) and `MailKnown` (what a worker thinks of its mail is so). It is needed because
  `DeliveryOwnsClaim` is not inductive by itself: that a claim in progress is not replaced
  follows from its age, which is at most the age of its run, which is at most the
  cooldown. `DeliveryIsExclusive` follows: two owners of a row would carry one token.
* `RowChanges` says in which five ways a step can change a claim row. From it follow
  `ClaimsStayCurrent` (with `Unclaimed`: a row without a claim has no price),
  `OneMail`, and `DeliveryIsNotice`, the refinement of `AlertNotice`: taking a claim
  opens a notice, the provider's acceptance mails it, a completion that finds its token
  closes it, time ages it, and every other step leaves the notices alone.
* `VisitsOnce` and `VisitsAll` prove the keyset pagination for any page size.
  `PageTakesFirst` is a counting lemma: an alert that is wanted and not on the page
  implies that the page is full and lies below it. `WalkInv` then says that the
  cursor divides what a run has visited from what is on the page or will be on the next
  one. They are the two conjuncts of `PagingVisitsAll`, which `server_tables` checks on
  four alerts.

`RefreshProofs` (`refresh_safety`). `IInv` has, besides `TypeOK` and
`WaitersShareRefresh`: `LockBacked` (a comparison whose connection lives holds the lock,
and the lock's owner is such a refresh), `MapLive` (an entry of the Map is a refresh under
way), `EarlyPending` (a refresh that has not taken the lock is in the Map) and
`OvertakenLost` (a refresh that another one overtook has lost its connection). Exclusion
and the order of results both follow from `LockBacked`.

`WatchlistWorkerProofs` (`worker_accounts`, `worker_records`). `Batches`: nothing is
counted twice or before the batch is selected, so equal counts mean equal sets, which is
what makes the subtraction of `runWatchlistWorker` a proof of work. `Records`: a live run
has the lock unless it lost it, and between its first statement and its last update no
other row says running. A run without mail is recorded complete with its alerts *skipped*
(`alerts.js:83`, `watchlist.js:126`), which `CompleteMeansChecked` names beside *done*: all
products of the batch were checked all the same.

`TablesProofs` (`server_tables`).
* `AlertStore` (`RowsAreSound`, `RegisterSpec`). The row locks of a save are held until its
  commit, so the rows read as one target change once per transaction: each commit is a
  `Set` or a `Remove` of the register, everything else a stutter.
* `CleanScore` (`ScoreIsHonest`). Each deduction is monotone in what the record tells, and
  the caps and bands keep the order (`MoreIsDeducted`); texts need only be finite.
* `RequestBudgets` (`BudgetsHold`). That a window admits two budgets at most is not
  inductive: a counter must not begin too early. `Walked` dates what a visitor was
  admitted by its counter: what the counter has counted lies in its window, the budget
  before that is older than the window, and everything else older by a whole window.
  `RoomyIs` shows that a full table gives up one live counter at most.

`ServerProofs` (`server_state`).
* `AuthFlows` (`LinksAreSound`, `SessionsAreSound`). A request and a confirmation hold
  the lock of the user's row while they look at its links; the invariant says what the
  holder has read is still so, that at most one link of a purpose is unused, and that a
  session's version is behind as soon as a password has changed.
* `PriceCache` (`PricesAreTrue`). A visitor answers with a copy of the tables that a
  refresh may have overtaken. `TablesBacked` says that the tables show a price only when
  the last finding of its retailer was one: a check that is recorded at `now` is never
  older than a stored price, so it hides every price it did not confirm. Copies inherit
  that (`CopiesBacked`), and a cached answer shows what its copy shows.
* `HealthCache` (`FactsAreTrue`). What the source gave is known of every entry and of every
  copy of one (`EntriesKnown`, `CopiesKnown`). The cache outgrows its limit only when a
  lookup that fails puts back an entry that was evicted meanwhile. `Room` counts the
  lookups that may still do so: an entry put back is one such lookup fewer.

`JobsProofs` (`server_jobs`).
* `WatchlistItems` (`OffersAreTrue`, `ChecksAreSpaced`). The newest finding of a retailer
  is at least as new as the last check's, times never run ahead of the clock, and what a
  request is told was recorded after it began to wait. The cheapest offer exists because
  prices are well founded (`WFMin`).
* `PnpLookup`, `PageLookup` (`LookupsAreExact`). `PnpWork`: what was found is exact from the
  moment it is found, whoever was answered has aborted the work, and a browser is there
  only in its turn. `OutcomeOK`: what is written was won against the timer and is what the
  lookup returned.
* `WatchlistRotation`, `SeedCatalogue` (`BatchesAreFair`). Places are one for each product
  (`RotationInv`), so the `ORDER BY` is one order: shares compare as numbers over a common
  denominator do (`Multiples`), the candidates of a kind that wait longest come first, and
  all that are within a quota fit into a batch by counting. `SeedInv`: what a run calls
  completed it left out or has gone through, and that was done.

`BrowserDataProofs` (`browser_data`).
* `GuestSync` (`GuestDataIsKept`). Accounts keep what they have; a tab clears only
  what a confirmed payload contained; a payload on the wire contains only what the device
  held when it was read.
* `ScanHistory` and `ResultPage` (`ScansBelong`). In the queue the candidate of a row keeps
  the owner who was first (`CandidateIsFirst`), a save copies its owner from the candidate
  (`SavesAreOwned`), and what is not scanned yet is neither in a row nor on its way
  (`EverythingScanned`), so that a scan may set its first owner. On a result page
  `NothingYet` says that nobody has the scan before its first attempt, `FirstIsKnown` who
  is first while the comparison runs and while its scan has no owner: it compares the
  revisions of the session, which is what `OwnerOfScan` relies on; and `AttemptIsFirst`
  that an attempt nobody asked for is the first owner's, and still the only one.
* `CoverageForm`, `LabelNotes` (`SaidIsTrue`). Who asked is the owner or one of before
  (`AskerIsPast`), so that a request of which nothing is known is asked about by all who
  come after (`UnsureIsAsked`), and each request is counted once at most (`CountedOnce`).
  The box of the notes is ticked only for entries the user has checked (`TickIsMeant`).
* `OfflineCache` (`OfflineIsKept`). What is to be carried over is in the new cache when the
  earlier ones are deleted, whichever were copied before the update was cut short
  (`OldIsSafe`). What may be kept when that is decided may be kept when it is, unless
  another request has kept its response in between, which `passed` records
  (`DecidedRight`).

`PagesProofs` (`pages_settle`).
* `HistoryPage` (`HistoryIsOwn`). What is shown is for the owner of the last render, and a
  load that may still write belongs to the current effect.
* `AlertsPage`, `FavouriteControl` (`ListsAreTrue`). A page at rest lists what its load has
  found, less the removals whose answers are there (`ListFollows`); a page whose load has
  failed lists nothing, so that no removal clears its error. For the star, a context has
  one check or one change at a time (`LiveCheck`, `ChangesAreSafe`) unless a check or a
  change overtook another of the same context, which `overtaken` records; what is asked for
  a context is kept for it, since its token is of its account (`OwnTokens`), unless one
  was of another, which `strayed` records; and no check begins beside a busy star
  (`BusyIsReady`). `StarStaysTrue` is about the module itself, of which the run's two
  parts are cases.
* `CameraScanner` (`CameraIsKnown`). A start is given up by no longer being the current one
  and notices when what it awaits has come. `HeldIsCurrent`: the stream and the decoder
  that the page holds are the current start's. `CurrentIsAsked`: while there is a current
  start the page is mounted and does not say that the camera is off. `ResultsCounted`: a
  result that is still possible belongs to a start of its own.
* `HealthPage` (`PanelIsTrue`). What is shown was told whatever page it is of
  (`ShownWasTold`), and what is saved is of the product it is saved for (`StoredWasTold`).

Two models were changed because of a proof. The cases of `PageLookup`'s `Start` overlapped
for a Spar lookup while Checkers has a proxy or a parser: TLC takes the first case that
applies, the logic any, so that a Spar lookup might have launched a browser; they exclude
each other now. The counters of `RequestBudgets` were a sequence filtered by a recursive
function; they are a function with places now, and `TwoBudgets` speaks of every interval
instead of the last.

## What is only model-checked

* Liveness: `EveryCallAnswered`, `AbandonedClaimRecovers`, `StaleRowsSettle`, `JobsEnd`,
  `PagesSettle`. It needs ENABLED and fairness, which are beyond the prover. With them goes
  `LoadingIsWatched` of the scan queue, a safety part of `PagesSettle`.
* `PagingVisitsAll` as the run states it, of an instance of `AlertPaging`: its conjuncts are
  the theorems `VisitsOnce` and `VisitsAll` about the module itself, and the prover cannot
  carry a theorem over to an instance.
* `SamePriceSuppressed` and `PreviousRunIsOver` are violated, see [findings](#findings).

## Findings

* `alert_spacing`: the product says that the same price is not mailed twice within
  24 hours (`DEPLOYMENT_ACTIVATION.md:7`, `pwa/src/app/alerts/page.tsx:80`). The code only
  remembers the last price: a price that goes p, q, p is mailed at p twice.
* `worker_comment`: `startWatchlistRun` says that a row still running belongs to an
  interrupted worker, never to an active one (`src/db.js:675`). A run whose lock session
  has ended goes on, and its row is marked while it is at work; it then sets the row
  to running or complete again. The heartbeat narrows the window to seconds; a product
  that is being refreshed is finished first.

## What the code does at the edges

Behaviour that the models show and no document of the repository denies, but for the comment
at `sw.js:40`, which is true of one request at a time; the properties are stated so as to say
exactly this much.

* History products may starve. A batch of one has no room for them: the watched share is
  80 % rounded down but at least one, which is the whole batch. And a batch is
  ordered by the share of the quota that is used up: a run has to have time for as many
  products as one place of the history is worth, four where the quotas are 160/40 and two
  where they are 2/1, or else it checks watched products only (`HistoryHasTime`; a product
  may take 55 s, and a run as little as 60 s).
* A seed whose progress file was torn by a crash starts from the beginning; two runners
  at once may both do the work.
* With two requests for one product at a time the service worker may keep the older
  response, and a cache write that fails keeps nothing. An outage that was allowed into a
  cache without facts (`sw.js:21`) is written even if another request has kept facts
  meanwhile (`sw.js:43`): that an outage must not evict facts (`sw.js:40`) holds for all
  other orders, and `OutageKeepsFacts` names this one.
* An update of the service worker copies `pricecheck-runtime-` caches only (`sw.js:60`) and
  then deletes earlier `trolleywise-runtime-` caches too (`sw.js:70`): what only those held
  is lost. `NothingLostByUpdate` is about the former.
* A run of the worker without a mail configuration looks at no alert and is recorded
  complete.
* A lookup of product health that fails while facts are outdated keeps them, with the
  outage said; which of two crossing lookups is kept depends on the order of their answers.
* A request gets the token of whoever is signed in when it asks for one, so the alerts
  page and the star may ask or act for another account than they show (`strayed` in
  `AlertsPage` and `FavouriteControl`). The properties name it as their exception: they say
  that nothing else breaks them.
* A change that is confirmed after its context was left and come back to frees the star while
  another change is under way, and answers are then shown as they come (`overtaken`).
* A card found on a page of Checkers may carry no barcode of its own; it is then accepted
  for its name, and the model counts as exact what the adapter compares.
* Adding the same alert beside its removal leaves either outcome, each as a whole.

## Abstractions

Time is in ticks and clocks are bounded. Names, prices, texts and pages are members of
small sets; validation, formatting and hashing are left out. A statement is atomic, and
so is a block of storage accesses without an await. A fetch that is aborted rejects.

* `AlertDelivery`: a provider's acceptance after the 20 s timeout is part of the attempt;
  that sources older than six hours are not mailed is a matter of one run only.
* `AlertStore`: READ COMMITTED; the update of a removal is one statement that waits for
  row locks; rows from before the key have none; `done` is history.
* `RefreshCoordinator`: `begin` of the postgres library may reject at once when a
  connection is lost and leave the callback running (external behaviour).
* `PriceCache`: one product and one clock; the worker's `recordFailure` runs outside the
  lock. `HealthCache`: times are those at which a lookup began. `CleanScore`: texts are the
  sets of E-numbers found in them.
* `PnpLookup`: coarse time (a budget of 4, of which a name search needs 2 and a browser
  3); a timer inside is a nondeterministic failure. `PageLookup`: a later browser
  response may replace the first.
* `WatchlistItems`: one product, lock held throughout a comparison, a tick is at least
  the minutes between two checks; one user beside anonymous visitors and the worker.
* `WatchlistRotation`: `NOW()` differs from call to call, no product is added meanwhile.
* `WatchlistWorker`: a run id whose row is settled may be used again, so two or three ids
  stand for any number of runs.
* `SeedCatalogue`: one disk; the processes of one host.
* `GuestSync`: the request for a token is not bounded by the timer of the post, the
  limits of lists are not reached, a second tab that is open already does not post again.
* `ScanQueue`: whether rows are kept is decided when the page is closed; scans are
  numbered in the order they are made. `ResultPage`: pages opened from the scan queue are
  left out. `HistoryPage`: so is the page before there is any session; a storage event
  and the page's refresh after it are one step.
* `AlertsPage`: a render and its effect are one step; `strayed` and `doubtful` are history.
* `FavouriteControl`: a context is a product with whom the page knows to be signed in, a render
  and its effect are one step, and the time before the session is known (`loading`) is left
  out; what is kept is changed by this star only, others' changes are the event alone; a lost
  request may still be applied later. `CameraScanner`: the two seconds for which a repeated read is ignored may
  end at any time.
* `OfflineCache`: one public API request; a worker is activated when the one before it has
  no event left, and its fetches wait for the activation; personal and forced requests are never
  kept. `RequestBudgets`: the order of the table is the insertion order of the Map,
  a place for each key; what was admitted is not followed once a counter was given up.

## What is not modelled

The parsing of HTML and JSON by the retailer adapters, rendering, header filtering of the
proxy, hashing and validation: they keep no state the properties are about. Statements
that never end. The favourites and account pages, saving a batch of favourites, the list
of product requests and the trend of an item. `src/rateLimit.js` is only used by its
test, and the limiters of express-rate-limit are a library. Components are listed with
their status in `PROJECT.json`.

## How far this goes

Every safety invariant and every action property that a passing run checks is also proved
for all values of the constants, with the exceptions named above. What could follow: the
favourites and account pages (they would repeat the pattern of `AlertsPage`), the request
deduplication of the website's own server, and the windows of the express-rate-limit
library if it were replaced by the repository's `rateLimit.js`.
