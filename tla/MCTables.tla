------------------------------- MODULE MCTables -------------------------------
(***************************************************************************)
(* What the server counts and lists: the rows of price_alerts, as users    *)
(* write them (AlertStore) and as a run pages through them (AlertPaging),  *)
(* scores of products and budgets of requests.  The parts have no state    *)
(* in common, so each behaviour is one of a single part.                   *)
(***************************************************************************)
EXTENDS AlertStore

CONSTANTS
  Text, Color, Preservative, Sugar, Mineral,  \* of the score
  Visitor, Limit, Window, Capacity, MaxTime   \* of the budgets

VARIABLES
  part, \* the part at work
  visited, steady, alert, claim, pc, runAge, held, best, afterId, page, full, job, mailed,
  record,
  kind, now, buckets, admitted, given, answer

pagingVars == <<visited, steady, alert, claim, pc, runAge, held, best, afterId, page,
  full, job, mailed>>
budgetVars == <<kind, now, buckets, admitted, given, answer>>

\* The parts; the paging has small constants of its own.
Paging == INSTANCE AlertPaging WITH
  Key <- 1..4, Worker <- {"worker"}, Token <- {"token"}, NoToken <- "none", Price <- {1},
  Target <- {1}, Cooldown <- 0, RunTicks <- 0, PageSize <- 2
Score == INSTANCE CleanScore
Budget == INSTANCE RequestBudgets

\* The parts are given constants they are made for.
ASSUME PartsAssumption == Score!Assumptions /\ Budget!Assumptions

\* One part is at work; each of the others rests in one of its initial states.
InitParts ==
  /\ part \in {"store", "paging", "score", "budgets"}
  /\ Init /\ (part # "store" => rows = {} /\ target = [i \in Id |-> CHOOSE t \in Target : TRUE])
  /\ Paging!InitPaging
  /\ Score!Init /\ (part # "score" => record.tags = {})
  /\ Budget!Init /\ (part # "budgets" => kind = "price")

NextParts ==
  /\ UNCHANGED part
  /\ IF part = "store" THEN Next \/ UNCHANGED vars ELSE UNCHANGED vars
  /\ IF part = "paging" THEN Paging!NextPaging ELSE UNCHANGED pagingVars
  /\ IF part = "score" THEN Score!Next \/ UNCHANGED record ELSE UNCHANGED record
  /\ IF part = "budgets" THEN Budget!Next \/ UNCHANGED budgetVars ELSE UNCHANGED budgetVars

everything == <<part, vars, pagingVars, record, budgetVars>>

SpecParts == InitParts /\ [][NextParts]_everything

--------------------------------------------------------------------------------
(* Properties. *)

\* A run considers no alert twice, and one that ends undeferred has considered every
\* compared alert that was active all along, whatever rows come and go between its pages
\* (the afterId cursor of evaluatePriceAlerts, getActiveAlerts).
PagingVisitsAll ==
  /\ [](part = "paging" => Paging!NoSecondVisit)
  /\ Paging!CompleteRunVisitsAll

\* The clean score makes up no missing amount, and a record that gets no better gets no
\* better score (productHealth.js).
ScoreIsHonest ==
  /\ [](part = "score" => Score!TypeOK /\ Score!NothingInvented)
  /\ Score!WorseScoresNoBetter

\* No window admits more than two budgets of a visitor; who is turned away has used up a
\* budget or finds the table full of others; a request of another leaves a live counter
\* alone, but for one counter that a full table gives up (proxy-identity.ts, auth-flows.ts).
BudgetsHold ==
  /\ [](part = "budgets" => Budget!TypeOK /\ Budget!TwoBudgets /\ Budget!TurnedAwayForCause)
  /\ Budget!OthersDoNotCount
================================================================================
