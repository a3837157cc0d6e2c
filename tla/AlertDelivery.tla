----------------------------- MODULE AlertDelivery -----------------------------
(***************************************************************************)
(* Price-alert e-mail delivery: evaluatePriceAlerts of src/alerts.js, run  *)
(* by any number of workers at once, against the price_alerts and          *)
(* alert_delivery_claims tables of src/db.js, while users edit alerts.     *)
(*                                                                         *)
(* The worker-wide lock normally keeps one worker at a time, but it can be *)
(* lost with the connection that holds it, so nothing here relies on it:   *)
(* the claim row alone has to keep two workers from mailing one alert.     *)
(*                                                                         *)
(* An alert is one (user, barcode) pair; its number is also its row id.    *)
(* Time is counted in ticks of some hours; ages saturate just above the    *)
(* cooldown.  An e-mail attempt (20 s) and the database statements around  *)
(* it are short against a tick, a whole run lasts at most RunTicks.        *)
(***************************************************************************)
EXTENDS Naturals, FiniteSets

CONSTANTS
  Key,        \* alert ids
  Worker,     \* worker processes
  Token,      \* claim tokens (UUIDs: a fresh one is one nobody refers to)
  NoToken,    \* the absence of one
  Price,      \* prices a comparison may yield
  Target,     \* target prices users choose
  Cooldown,   \* the 24 hours, in ticks
  RunTicks,   \* the longest a run stays alive, in ticks
  PageSize    \* alerts loaded at once

NoPrice == 0
Expired == Cooldown + 1
Age     == 0 .. Expired

ASSUME KeyAssumption      == Key \subseteq Nat \ {0}
ASSUME TokenAssumption    == NoToken \notin Token
ASSUME PriceAssumption    == Price \subseteq Nat \ {0} /\ Target \subseteq Nat \ {0} /\ Target # {}
ASSUME CooldownAssumption == Cooldown \in Nat /\ RunTicks \in Nat /\ RunTicks <= Cooldown
ASSUME PageAssumption     == PageSize \in Nat \ {0}

VARIABLES
  alert,      \* price_alerts: the canonical row of each alert
  claim,      \* alert_delivery_claims, one row per (user, barcode)
  pc,         \* where each worker is in evaluatePriceAlerts
  runAge,     \* ticks since the worker's run began
  held,       \* mayContinue: the worker lock is held and nobody asked it to stop
  best,       \* best[w]: the comparisons of the run, reduced to lowestAvailable
  afterId,    \* keyset cursor
  page,       \* alert rows as they were when the page was loaded
  full,       \* was the last page as long as PageSize?
  job,        \* the delivery attempt in progress
  mailed      \* history: did the provider accept the e-mail of the current claim?

tables    == <<alert, claim>>
runVars   == <<runAge, held, best>>
pageVars  == <<afterId, page, full>>
vars      == <<tables, pc, runVars, pageVars, job, mailed>>

AlertRow == [active : BOOLEAN, target : Target, lastPrice : Price \cup {NoPrice}, lastAge : Age]
PageRow  == [id : Key, target : Target, lastPrice : Price \cup {NoPrice}, lastAge : Age]
ClaimRow == [state : {"none", "claimed", "sent", "uncertain"}, price : Price \cup {NoPrice},
             token : Token \cup {NoToken}, age : Age]
Job      == [id : Key, price : Price, token : Token, ok : BOOLEAN]
NoJob    == [id |-> 0]
Found    == UNION {[S -> Price \cup {NoPrice}] : S \in SUBSET Key}
Nothing  == [k \in {} |-> NoPrice]

Busy       == {"claimed", "sending", "accepted", "completing"}
Delivering(w, k) == pc[w] \in Busy /\ job[w].id = k
\* Mutant: ages that do not stop.
EverOlder(a) == a + 1

Older(a)   == IF a < Expired THEN a + 1 ELSE a

TypeOK ==
  /\ alert    \in [Key -> AlertRow]
  /\ claim    \in [Key -> ClaimRow]
  /\ pc       \in [Worker -> {"idle", "paging", "evaluating"} \cup Busy]
  /\ runAge   \in [Worker -> 0 .. RunTicks]
  /\ held     \in [Worker -> BOOLEAN]
  /\ best     \in [Worker -> Found]
  /\ afterId  \in [Worker -> Nat]
  /\ page     \in [Worker -> SUBSET PageRow]
  /\ full     \in [Worker -> BOOLEAN]
  /\ job      \in [Worker -> Job \cup {NoJob}]
  /\ \A w \in Worker : pc[w] \in Busy => job[w] \in Job
  /\ mailed   \in [Key -> BOOLEAN]

NeverSent(active, target) ==
  [active |-> active, target |-> target, lastPrice |-> NoPrice, lastAge |-> Expired]

Init ==
  /\ alert \in [Key -> {NeverSent(FALSE, t) : t \in Target}]
  /\ claim = [k \in Key |-> [state |-> "none", price |-> NoPrice,
                             token |-> NoToken, age |-> Expired]]
  /\ pc = [w \in Worker |-> "idle"]
  /\ runAge = [w \in Worker |-> 0]
  /\ held = [w \in Worker |-> FALSE]
  /\ best = [w \in Worker |-> Nothing]
  /\ afterId = [w \in Worker |-> 0]
  /\ page = [w \in Worker |-> {}]
  /\ full = [w \in Worker |-> FALSE]
  /\ job = [w \in Worker |-> NoJob]
  /\ mailed = [k \in Key |-> FALSE]

--------------------------------------------------------------------------------
(* Users. *)

\* createAlert: the row of the product is created or updated in place; what
\* was last sent, and the claim, stay as they are.
SetAlert(k, t) ==
  /\ alert' = [alert EXCEPT ![k] = [active |-> TRUE, target |-> t,
                                    lastPrice |-> @.lastPrice, lastAge |-> @.lastAge]]
  /\ UNCHANGED <<claim, pc, runVars, pageVars, job, mailed>>

\* deactivateAlert
Deactivate(k) ==
  /\ alert[k].active
  /\ alert' = [alert EXCEPT ![k].active = FALSE]
  /\ UNCHANGED <<claim, pc, runVars, pageVars, job, mailed>>

--------------------------------------------------------------------------------
(* A run. *)

\* runWatchlistWorker calls evaluate with the comparisons this run made.
Begin(w) ==
  /\ pc[w] = "idle"
  /\ pc' = [pc EXCEPT ![w] = "paging"]
  /\ \E f \in Found : best' = [best EXCEPT ![w] = f]
  /\ held' = [held EXCEPT ![w] = TRUE]
  /\ UNCHANGED <<tables, runAge, pageVars, job, mailed>>

\* getActiveAlerts: active rows of the compared products with an id above the
\* cursor, in id order, at most PageSize of them.
Wanted(w) == {k \in DOMAIN best[w] : alert[k].active /\ k > afterId[w]}
\* Mutant: no ORDER BY, the page holds the largest ids.
UnorderedIds(w) == {k \in Wanted(w) : Cardinality({j \in Wanted(w) : j > k}) < PageSize}

PageIds(w) == {k \in Wanted(w) : Cardinality({j \in Wanted(w) : j < k}) < PageSize}

\* The page is used up: a full one is followed by another.
PageDone(w) == pc[w] = "evaluating" /\ page[w] = {}
ShortPage(w) == ~full[w]

\* The loop goes round: the first time, or after a full page.
NextPage(w) == pc[w] = "paging" \/ (PageDone(w) /\ ~ShortPage(w))

LoadPage(w) ==
  /\ NextPage(w)
  /\ held[w]
  /\ page' = [page EXCEPT ![w] =
       {[id |-> k, target |-> alert[k].target,
         lastPrice |-> alert[k].lastPrice, lastAge |-> alert[k].lastAge] : k \in PageIds(w)}]
  /\ full' = [full EXCEPT ![w] = Cardinality(PageIds(w)) = PageSize]
  /\ pc' = [pc EXCEPT ![w] = "evaluating"]
  /\ UNCHANGED <<tables, runVars, afterId, job, mailed>>

\* evaluatePriceAlerts returns, or its process ends: its locals are gone.
Leave(w) ==
  /\ pc' = [pc EXCEPT ![w] = "idle"]
  /\ runAge' = [runAge EXCEPT ![w] = 0]
  /\ held' = [held EXCEPT ![w] = FALSE]
  /\ best' = [best EXCEPT ![w] = Nothing]
  /\ afterId' = [afterId EXCEPT ![w] = 0]
  /\ page' = [page EXCEPT ![w] = {}]
  /\ full' = [full EXCEPT ![w] = FALSE]
  /\ job' = [job EXCEPT ![w] = NoJob]
  /\ UNCHANGED <<tables, mailed>>

\* The loop ends after a short page, still in charge and in time.
FinishRun(w) ==
  /\ PageDone(w) /\ ShortPage(w)
  /\ held[w]
  /\ Leave(w)

\* metrics.deferred: mayContinue stops the run between two alerts, before a
\* page, or after the last one.
Defer(w) ==
  /\ pc[w] \in {"paging", "evaluating"}
  /\ ~held[w]
  /\ Leave(w)

--------------------------------------------------------------------------------
(* One alert of the page. *)

IsNext(w, row) ==
  /\ pc[w] = "evaluating"
  /\ held[w]
  /\ row \in page[w]
  /\ \A other \in page[w] : row.id <= other.id

ShouldNotify(row, price) ==
  /\ price # NoPrice
  /\ price < row.target
  /\ ~(row.lastPrice = price /\ row.lastAge < Cooldown)

\* The row leaves the page and the cursor moves past it.
Pass(w, row) ==
  /\ page' = [page EXCEPT ![w] = @ \ {row}]
  /\ afterId' = [afterId EXCEPT ![w] = IF row.id > @ THEN row.id ELSE @]

Skip(w) ==
  /\ \E row \in page[w] :
       /\ IsNext(w, row)
       /\ ~ShouldNotify(row, best[w][row.id])
       /\ Pass(w, row)
  /\ UNCHANGED <<tables, pc, runVars, full, job, mailed>>

\* Mutant: the alert row is not looked at again.
WantedOnce(k, p) == TRUE

\* The WHERE clauses of claimAlertDelivery: the row as it is now, and the
\* claim that is already there.
StillWanted(k, p) == alert[k].active /\ alert[k].target > p

\* Mutants: another price replaces a claim in progress; a claim never expires.
ReplaceInProgress(c, p) == c.state = "none" \/ c.age > Cooldown \/ c.price # p
ReplaceNever(c, p) == c.state = "none" \/ (c.price # p /\ c.state # "claimed")

MayReplace(c, p) ==
  \/ c.state = "none"
  \/ c.age > Cooldown
  \/ c.price # p /\ c.state # "claimed"

MayClaim(k, p) == StillWanted(k, p) /\ MayReplace(claim[k], p)

InUse == {claim[k].token : k \in Key} \cup {job[w].token : w \in {v \in Worker : pc[v] \in Busy}}

TakeClaim(k, p, t) ==
  /\ claim' = [claim EXCEPT ![k] = [state |-> "claimed", price |-> p, token |-> t, age |-> 0]]
  /\ mailed' = [mailed EXCEPT ![k] = FALSE]

\* The claim statement succeeds and returns the row.
Claim(w) ==
  /\ \E row \in page[w], t \in Token \ InUse :
       LET k == row.id
           p == best[w][k]
       IN /\ IsNext(w, row)
          /\ ShouldNotify(row, p)
          /\ MayClaim(k, p)
          /\ TakeClaim(k, p, t)
          /\ Pass(w, row)
          /\ job' = [job EXCEPT ![w] = [id |-> k, price |-> p, token |-> t, ok |-> FALSE]]
  /\ pc' = [pc EXCEPT ![w] = "claimed"]
  /\ UNCHANGED <<alert, runVars, full>>

\* It returns no row: somebody else has the delivery, or the user changed
\* the alert after the page was loaded.
Suppressed(w) ==
  /\ \E row \in page[w] :
       /\ IsNext(w, row)
       /\ ShouldNotify(row, best[w][row.id])
       /\ ~MayClaim(row.id, best[w][row.id])
       /\ Pass(w, row)
  /\ UNCHANGED <<tables, pc, runVars, full, job, mailed>>

\* The statement fails, with or without having taken the claim: the catch
\* block goes on to complete(..., false) either way.
ClaimFails(w) ==
  /\ \E row \in page[w], t \in Token \ InUse :
       LET k == row.id
           p == best[w][k]
       IN /\ IsNext(w, row)
          /\ ShouldNotify(row, p)
          /\ \/ MayClaim(k, p) /\ TakeClaim(k, p, t)
             \/ UNCHANGED <<claim, mailed>>
          /\ Pass(w, row)
          /\ job' = [job EXCEPT ![w] = [id |-> k, price |-> p, token |-> t, ok |-> FALSE]]
  /\ pc' = [pc EXCEPT ![w] = "completing"]
  /\ UNCHANGED <<alert, runVars, full>>

\* mayContinue is asked again after the claim: if it fails the run stops and
\* the claim stays claimed.
Abandon(w) ==
  /\ pc[w] = "claimed"
  /\ ~held[w]
  /\ Leave(w)

Send(w) ==
  /\ pc[w] = "claimed"
  /\ held[w]
  /\ pc' = [pc EXCEPT ![w] = "sending"]
  /\ UNCHANGED <<tables, runVars, pageVars, job, mailed>>

\* The provider takes the message (external).
ProviderAccepts(w) ==
  /\ pc[w] = "sending"
  /\ pc' = [pc EXCEPT ![w] = "accepted"]
  /\ mailed' = [mailed EXCEPT ![job[w].id] = TRUE]
  /\ UNCHANGED <<tables, runVars, pageVars, job>>

\* Mutant: the answer of the provider is not awaited.
SendUnawaited(w) ==
  /\ pc[w] \in {"sending", "accepted"}
  /\ pc' = [pc EXCEPT ![w] = "completing"]
  /\ job' = [job EXCEPT ![w].ok = TRUE]
  /\ UNCHANGED <<tables, runVars, pageVars, mailed>>

SendOk(w) ==
  /\ pc[w] = "accepted"
  /\ pc' = [pc EXCEPT ![w] = "completing"]
  /\ job' = [job EXCEPT ![w].ok = TRUE]
  /\ UNCHANGED <<tables, runVars, pageVars, mailed>>

\* Mutant: an attempt without an answer is repeated.
SendRepeats(w) ==
  /\ pc[w] \in {"sending", "accepted"}
  /\ pc' = [pc EXCEPT ![w] = "sending"]
  /\ UNCHANGED <<tables, runVars, pageVars, job, mailed>>

\* Rejected, or the 20 seconds are over, which says nothing of whether the
\* provider took it.
SendFails(w) ==
  /\ pc[w] \in {"sending", "accepted"}
  /\ pc' = [pc EXCEPT ![w] = "completing"]
  /\ UNCHANGED <<tables, runVars, pageVars, job, mailed>>

\* completeAlertDelivery: one transaction over both tables, and only for the
\* token the claim row still carries.
OwnsClaim(w) == claim[job[w].id].token = job[w].token

Settle(w) ==
  LET k == job[w].id IN
  IF OwnsClaim(w)
  THEN /\ claim' = [claim EXCEPT ![k].state = IF job[w].ok THEN "sent" ELSE "uncertain"]
       /\ alert' = IF job[w].ok
                   THEN [alert EXCEPT ![k] = [active |-> @.active, target |-> @.target,
                                              lastPrice |-> job[w].price, lastAge |-> 0]]
                   ELSE alert
  ELSE UNCHANGED tables

NextAlert(w) ==
  /\ pc' = [pc EXCEPT ![w] = "evaluating"]
  /\ job' = [job EXCEPT ![w] = NoJob]

Complete(w) ==
  /\ pc[w] = "completing"
  /\ Settle(w)
  /\ NextAlert(w)
  /\ UNCHANGED <<runVars, pageVars, mailed>>

\* complete(..., true) throws, whether or not the transaction was committed:
\* the catch block calls complete(..., false).
CompleteFails(w) ==
  /\ pc[w] = "completing"
  /\ job[w].ok
  /\ Settle(w) \/ UNCHANGED tables
  /\ job' = [job EXCEPT ![w].ok = FALSE]
  /\ UNCHANGED <<pc, runVars, pageVars, mailed>>

\* complete(..., false) throws: ignored, and the claim stays as it is.
CompleteGivesUp(w) ==
  /\ pc[w] = "completing"
  /\ ~job[w].ok
  /\ NextAlert(w)
  /\ UNCHANGED <<tables, runVars, pageVars, mailed>>

--------------------------------------------------------------------------------
(* The environment. *)

\* The heartbeat fails (withDatabaseLock), or SIGTERM arrives.
LoseStanding(w) ==
  /\ pc[w] # "idle"
  /\ held[w]
  /\ held' = [held EXCEPT ![w] = FALSE]
  /\ UNCHANGED <<tables, pc, runAge, best, pageVars, job, mailed>>

\* The deadline has passed: also deferred, but only found out where Defer is;
\* a claim that was taken is still delivered.
DeadlinePasses(w) ==
  /\ pc[w] \in {"paging", "evaluating"}
  /\ Leave(w)

\* The process dies: a crash, or the safety stop of run-watchlist.js.
Crash(w) ==
  /\ pc[w] # "idle"
  /\ Leave(w)

\* Time passes.  The safety stop leaves no run alive beyond RunTicks.
Tick ==
  /\ \A w \in Worker : pc[w] # "idle" => runAge[w] < RunTicks
  /\ runAge' = [w \in Worker |-> IF pc[w] = "idle" THEN runAge[w] ELSE runAge[w] + 1]
  /\ alert' = [k \in Key |-> [alert[k] EXCEPT !.lastAge = Older(@)]]
  /\ claim' = [k \in Key |-> [claim[k] EXCEPT !.age = Older(@)]]
  /\ page' = [w \in Worker |-> {[row EXCEPT !.lastAge = Older(@)] : row \in page[w]}]
  /\ UNCHANGED <<pc, held, best, afterId, full, job, mailed>>

--------------------------------------------------------------------------------

UserActs == \E k \in Key : Deactivate(k) \/ \E t \in Target : SetAlert(k, t)

Step(w) ==
  \/ LoadPage(w) \/ FinishRun(w) \/ Defer(w)
  \/ Skip(w) \/ Claim(w) \/ Suppressed(w) \/ Abandon(w)
  \/ Send(w) \/ SendOk(w) \/ Complete(w)

Fault(w) ==
  \/ ClaimFails(w) \/ SendFails(w) \/ CompleteFails(w) \/ CompleteGivesUp(w)
  \/ Crash(w) \/ LoseStanding(w) \/ DeadlinePasses(w)

Next ==
  \/ UserActs
  \/ Tick
  \/ \E w \in Worker : Begin(w) \/ Step(w) \/ ProviderAccepts(w) \/ Fault(w)

Spec == Init /\ [][Next]_vars

\* The cron job starts a run again and again, a live process goes on, the
\* provider answers and time passes.
Fairness ==
  /\ WF_vars(Tick)
  /\ \A w \in Worker : WF_vars(Begin(w)) /\ WF_vars(Step(w)) /\ WF_vars(ProviderAccepts(w))

FairSpec == Spec /\ Fairness

--------------------------------------------------------------------------------
(* Properties. *)

\* The claim row is this worker's, at its price, and younger than its run.
\* It is still claimed, unless a committed completion lost its answer.
Owning(w) ==
  LET c == claim[job[w].id] IN
  /\ c.token = job[w].token
  /\ c.price = job[w].price
  /\ c.age <= runAge[w]
  /\ \/ c.state = "claimed"
     \/ c.state = "sent" /\ pc[w] = "completing" /\ ~job[w].ok

\* All that is left to do is a completion that will not match any row.
Harmless(w) ==
  /\ pc[w] = "completing"
  /\ ~job[w].ok
  /\ claim[job[w].id].token # job[w].token

\* While a worker is delivering an alert, the claim row is its own, whatever
\* other workers, users and failed statements do meanwhile; a worker whose
\* claim statement failed may own nothing and do no harm either.
\* (claimAlertDelivery, completeAlertDelivery)
DeliveryOwnsClaim ==
  \A w \in Worker : pc[w] \in Busy => Owning(w) \/ Harmless(w)

\* Two overlapping workers never both hold an e-mail for the same alert
\* between its claim and the provider's answer: the claim alone prevents the
\* second mail, without the worker lock.  (tests/trolleywise-watchlist.test.js
\* covers the case with a fake claim.)
NoDoubleDelivery ==
  \A v, w \in Worker : \A k \in Key :
    v # w /\ Delivering(v, k) /\ Delivering(w, k) =>
      \E u \in {v, w} : pc[u] = "completing" /\ ~job[u].ok

\* A claim recorded as sent is one whose e-mail the provider accepted, and
\* within the cooldown price_alerts remembers it: same price, same moment or
\* later than the claim.  (the two updates of completeAlertDelivery)
SentMeansMailed ==
  \A k \in Key : claim[k].state = "sent" =>
    /\ mailed[k]
    /\ alert[k].lastPrice = claim[k].price
    /\ alert[k].lastAge <= claim[k].age

\* A claim is only taken for an alert the user wants at that moment, at a
\* price below the target of that moment, whatever the page said when it was
\* loaded; and never within the cooldown of another attempt at the same price.
ClaimsAreCurrent ==
  [][\A k \in Key : claim'[k].token # claim[k].token =>
       /\ alert[k].active /\ alert[k].target > claim'[k].price
       /\ claim[k].price = claim'[k].price => claim[k].age > Cooldown]_vars

\* An e-mail goes out at most once per claim: an accepted message is never
\* handed to the provider a second time under the same claim, not by a retry
\* and not by another worker.
OneMailPerClaim ==
  [][\A w \in Worker : ProviderAccepts(w) => ~mailed[job[w].id]]_vars

\* The contract, in terms of notices instead of claims, tokens and workers.
Notice == INSTANCE AlertNotice WITH
  notice <- [k \in Key |->
    [state |-> IF claim[k].state = "claimed" THEN "open" ELSE claim[k].state,
     price |-> claim[k].price, age |-> claim[k].age]]

NoticeSpec == Notice!Spec

\* A claim left behind by a dead or deposed worker.
Abandoned(k) ==
  claim[k].state = "claimed" /\ ~\E w \in Worker : pc[w] \in Busy /\ job[w].token = claim[k].token

\* Every run finds a price below the target.
OffersStay ==
  \A w \in Worker : pc[w] # "idle" =>
    \A k \in Key : k \in DOMAIN best[w] /\ best[w][k] \in 1 .. (alert[k].target - 1)

\* A crash or a stop of a run that was over anyway disturbs nothing.
Disturbance == UserActs \/ \E w \in Worker : Fault(w) /\ ~Step(w)

\* Such a claim does not silence an alert for good: once users and faults come
\* to rest, with the price staying below the target, the alert is delivered
\* after all.  (the 24 hours of claimAlertDelivery)
AbandonedClaimRecovers ==
  (<>[][~Disturbance]_vars /\ <>[]OffersStay) =>
    \A k \in Key : Abandoned(k) ~> (claim[k].state = "sent" \/ ~alert[k].active)

================================================================================
