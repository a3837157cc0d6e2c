-------------------------------- MODULE PnpLookup --------------------------------
(***************************************************************************)
(* One lookup of a barcode at Pick n Pay: src/scrapers/pnp.js.             *)
(*                                                                         *)
(* The work goes through its sources in order, each only while time is     *)
(* left and nobody has cancelled: a search by EAN, one by the product's    *)
(* name, a browser when the first search gave no answer, and a provider.   *)
(* A search answer may lead to the details of a few articles.  The caller  *)
(* is answered by the work or by the deadline, whichever is first; work    *)
(* that lost the race goes on until its next check.                        *)
(***************************************************************************)
EXTENDS Integers, FiniteSets

CONSTANTS
  Budget,       \* units of time a lookup may take
  NameNeeds,    \* units the name search must have left
  BrowserNeeds, \* units the browser must have left
  MaxArticles,  \* articles looked up per search answer
  None

\* What is assumed of the constants, wherever this module is instantiated.
Assumptions ==
  /\ Budget \in Nat \ {0} /\ MaxArticles \in Nat
  /\ {NameNeeds, BrowserNeeds} \subseteq 1..Budget

\* A product in an answer: does it carry the EAN asked for, a price and may it
\* be sold, and whose store's product is it?
Candidate == [exact : BOOLEAN, price : {"none", "unusable", "usable"}, store : {"ours", "other", "unsaid"}]
Source    == {"ean", "name", "browser", "provider", "configured"}

VARIABLES
  configured,  \* is PNP_PRODUCT_LOOKUP_URL set, and to what: no, official, other
  hint,        \* is there a product name to search for?
  apiKey,      \* is PARSE_API_KEY set?
  left,        \* remaining(scope)
  aborted,     \* scope.controller: cancelled, expired or answered
  stage,       \* where the work is: new, a source, or ended
  articles,    \* articles left to look up in an answer of the stage
  detailing,   \* is one being looked up?
  searched,    \* did the search by EAN give an answer?
  browser,     \* none, launching, open or closed
  task,        \* task[i]: a search response the browser saw
  found,       \* what the work found: a candidate with its source, or None
  answer,      \* what the caller got: waiting, unavailable or found
  late         \* history: a request or a browser was started after the answer

config == <<configured, hint, apiKey>>
work   == <<stage, articles, detailing, searched, browser, task, found>>
vars   == <<config, left, aborted, work, answer, late>>

Idle == [state |-> "idle", articles |-> 0]

Init ==
  /\ configured \in {"no", "official", "other"} /\ hint \in BOOLEAN /\ apiKey \in BOOLEAN
  /\ left = Budget /\ aborted = FALSE
  /\ stage = "new" /\ articles = 0 /\ detailing = FALSE /\ searched = FALSE
  /\ browser = "none" /\ task = [i \in 1..2 |-> Idle]
  /\ found = None /\ answer = "waiting" /\ late = FALSE

--------------------------------------------------------------------------------
(* Identity and price. *)

\* Mutant: the detail of an article that was searched for needs no EAN.
VerifiedByCode(payload) ==
  LET priced == {c \in payload : c.price # "none"} IN IF priced # {} THEN priced ELSE payload

\* findVerifiedCandidate: the first exact product with a price, or the first
\* exact one; any may come first.
Verified(payload) ==
  LET exact  == {c \in payload : c.exact}
      priced == {c \in exact : c.price # "none"}
  IN IF priced # {} THEN priced ELSE exact

\* The store's own source answers for its store; other sources for whichever
\* they name.
Official(s) == s \in {"ean", "name", "browser"} \/ (s = "configured" /\ configured = "official")

\* resultFromCandidate
Usable(c, s) == c.price = "usable" /\ (Official(s) => c.store # "other")

--------------------------------------------------------------------------------
(* Going through the sources. *)

\* May the work begin source s, the search by EAN being answered or not?
MayTry(s, answered) ==
  /\ ~aborted
  /\ CASE s = "ean"      -> left >= 1
       [] s = "name"     -> left >= NameNeeds /\ hint
       [] s = "browser"  -> left >= BrowserNeeds /\ ~answered
       [] s = "provider" -> left >= 1 /\ apiKey

Order == <<"ean", "name", "browser", "provider">>

\* The first source from position n on that may be tried.
From(n, answered) ==
  LET open == {k \in n..4 : MayTry(Order[k], answered)}
  IN IF open = {} THEN "ended" ELSE Order[CHOOSE k \in open : \A j \in open : k <= j]

After(s, answered) ==
  IF s = "configured" THEN "ended"
  ELSE From(1 + (CHOOSE k \in 1..4 : Order[k] = s), answered)

\* The work moves on to a source, which may start a browser, or ends.
Enter(s) ==
  /\ stage' = s
  /\ articles' = 0 /\ detailing' = FALSE
  /\ browser' = IF s = "browser" THEN "launching" ELSE browser
  /\ late' = (late \/ (answer # "waiting" /\ s # "ended"))

Start ==
  /\ stage = "new"
  /\ Enter(IF configured # "no" THEN (IF aborted THEN "ended" ELSE "configured") ELSE From(1, FALSE))
  /\ UNCHANGED <<config, left, aborted, searched, task, found, answer>>

\* inspectPayload of what a source returned: a result, articles to look up, or
\* nothing.
Found(s, payload) == {[candidate |-> c, source |-> s] : c \in {d \in Verified(payload) : Usable(d, s)}}

Conclude(s, payload, ok) ==
  \/ \E f \in Found(s, payload) : found' = f /\ Enter("ended")
  \/ /\ Verified(payload) = {} \/ \E c \in Verified(payload) : ~Usable(c, s)
     /\ UNCHANGED found
     /\ \/ Enter(After(s, ok))
        \/ /\ Official(s) /\ s # "browser" /\ payload # {}
           /\ articles' \in 1..MaxArticles
           /\ UNCHANGED <<stage, detailing, browser, late>>

\* A source answers: requestJson with a payload.
Receive(payload) ==
  /\ stage \in Source \ {"browser"} /\ articles = 0
  /\ searched' = (searched \/ stage = "ean")
  /\ Conclude(stage, payload, searched')
  /\ UNCHANGED <<config, left, aborted, task, answer>>

\* An error, a status that is not a success, unreadable JSON, or the timer of
\* the request.
NoPayload ==
  /\ stage \in Source \ {"browser"} /\ articles = 0
  /\ Enter(After(stage, searched))
  /\ UNCHANGED <<config, left, aborted, searched, task, found, answer>>

\* The next article is looked up while there is time.
AskArticle ==
  /\ articles > 0 /\ ~detailing
  /\ IF ~aborted /\ left >= 1
     THEN /\ detailing' = TRUE
          /\ late' = (late \/ answer # "waiting")
          /\ UNCHANGED <<stage, articles, browser>>
     ELSE Enter(After(stage, searched))
  /\ UNCHANGED <<config, left, aborted, searched, task, found, answer>>

\* Its detail, {} when there is none, needs an EAN of its own.
Article(payload) ==
  /\ detailing
  /\ \/ \E f \in Found(stage, payload) : found' = f /\ Enter("ended")
     \/ /\ Found(stage, payload) = {}
        /\ IF articles > 1 THEN /\ articles' = articles - 1 /\ detailing' = FALSE
                                /\ UNCHANGED <<stage, browser, late>>
                           ELSE Enter(After(stage, searched))
        /\ UNCHANGED found
  /\ UNCHANGED <<config, left, aborted, searched, task, answer>>

--------------------------------------------------------------------------------
(* The browser: interceptSearch. *)

\* Leaving it closes it.
LeaveBrowser(f) ==
  /\ found' = f
  /\ LET s == IF f # None THEN "ended" ELSE After("browser", searched) IN
     /\ stage' = s
     /\ late' = (late \/ (answer # "waiting" /\ s # "ended"))
  /\ browser' = IF browser = "launching" THEN "none" ELSE "closed"

LaunchFails ==
  /\ browser = "launching"
  /\ LeaveBrowser(None)
  /\ UNCHANGED <<config, left, aborted, articles, detailing, searched, task, answer>>

\* Mutant: an abort during the launch goes unseen.
LaunchedUnseen ==
  /\ browser = "launching"
  /\ browser' = "open"
  /\ UNCHANGED <<config, left, aborted, stage, articles, detailing, searched, task, found, answer, late>>

\* An abort during the launch is seen when it is over.
Launched ==
  /\ browser = "launching"
  /\ IF aborted
     THEN /\ browser' = "closed"
          /\ stage' = "ended"
          /\ UNCHANGED late
     ELSE browser' = "open" /\ UNCHANGED <<stage, late>>
  /\ UNCHANGED <<config, left, aborted, articles, detailing, searched, task, found, answer>>

\* A response to the page's search, for the barcode and the store.
SeeResponse(i) ==
  /\ browser = "open" /\ stage = "browser" /\ task[i] = Idle
  /\ task' = [task EXCEPT ![i].state = "reading"]
  /\ UNCHANGED <<config, left, aborted, stage, articles, detailing, searched, browser, found, answer, late>>

\* Its inspection sets what the browser found, over what another one did.
Inspected(i, f) ==
  /\ task' = [task EXCEPT ![i] = [state |-> "done", articles |-> 0]]
  /\ found' = IF stage = "browser" THEN f ELSE found
  /\ UNCHANGED late

Read(i, payload) ==
  /\ task[i].state = "reading"
  /\ \/ \E f \in Found("browser", payload) : Inspected(i, f)
     \/ /\ Found("browser", payload) = {}
        /\ \/ Inspected(i, None)
           \/ /\ payload # {} /\ ~aborted /\ left >= 1
              /\ \E n \in 1..MaxArticles : task' = [task EXCEPT ![i] = [state |-> "detail", articles |-> n]]
              /\ late' = (late \/ answer # "waiting")
              /\ UNCHANGED found
  /\ UNCHANGED <<config, left, aborted, stage, articles, detailing, searched, browser, answer>>

\* A response that is an error, or cannot be read and does not count, leaves
\* what was found as it is.
Unreadable(i) ==
  /\ task[i].state = "reading"
  /\ \E state \in {"done", "failed"} : task' = [task EXCEPT ![i].state = state]
  /\ UNCHANGED <<config, left, aborted, stage, articles, detailing, searched, browser, found, answer, late>>

TaskArticle(i, payload) ==
  /\ task[i].state = "detail"
  /\ \/ \E f \in Found("browser", payload) : Inspected(i, f)
     \/ /\ Found("browser", payload) = {}
        /\ IF task[i].articles > 1 /\ ~aborted /\ left >= 1
           THEN /\ task' = [task EXCEPT ![i].articles = @ - 1]
                /\ late' = (late \/ answer # "waiting")
                /\ UNCHANGED found
           ELSE Inspected(i, None)
  /\ UNCHANGED <<config, left, aborted, stage, articles, detailing, searched, browser, answer>>

\* The page is left when a response was inspected, when time is up, or when
\* something throws.
BrowserDone ==
  /\ browser = "open" /\ stage = "browser"
  /\ \/ /\ \E i \in 1..2 : task[i].state \in {"detail", "done"}
        /\ \A i \in 1..2 : task[i].state \notin {"reading", "detail"}
     \/ left = 0 \/ aborted
  /\ LeaveBrowser(found)
  /\ UNCHANGED <<config, left, aborted, articles, detailing, searched, task, answer>>

BrowserThrows ==
  /\ browser \in {"open", "closed"} /\ stage = "browser"
  /\ LeaveBrowser(None)
  /\ UNCHANGED <<config, left, aborted, articles, detailing, searched, task, answer>>

--------------------------------------------------------------------------------
(* The caller: scrapeByBarcode. *)

\* An abort closes a browser that is open.
Closed == IF browser = "open" THEN "closed" ELSE browser

Tick ==
  /\ left > 0 /\ answer = "waiting"
  /\ left' = left - 1
  /\ aborted' = (aborted \/ left' = 0)
  /\ browser' = IF aborted' THEN Closed ELSE browser
  /\ UNCHANGED <<config, stage, articles, detailing, searched, task, found, answer, late>>

\* The caller's own signal.
Cancel ==
  /\ answer = "waiting" /\ ~aborted
  /\ aborted' = TRUE
  /\ browser' = Closed
  /\ UNCHANGED <<config, left, stage, articles, detailing, searched, task, found, answer, late>>

\* The race of the work and the abort; what comes after the answer is aborted.
Answer ==
  /\ answer = "waiting"
  /\ \/ stage = "ended" /\ answer' = (IF found # None THEN "found" ELSE "unavailable")
     \/ aborted /\ answer' = "unavailable"
  /\ aborted' = TRUE
  /\ browser' = Closed
  /\ UNCHANGED <<config, left, stage, articles, detailing, searched, task, found, late>>

\* Of products of other barcodes one stands for all, and the store matters only
\* for those that may be sold.
Offered ==
  {c \in Candidate : (c.exact \/ c.price = "usable") /\ ((c.exact /\ c.price = "usable") \/ c.store = "ours")}
Payloads == {p \in SUBSET Offered : Cardinality(p) <= 2}

Next ==
  \/ Start \/ NoPayload \/ AskArticle \/ LaunchFails \/ Launched \/ BrowserDone \/ BrowserThrows
  \/ \E p \in Payloads : Receive(p) \/ Article(p) \/ \E i \in 1..2 : Read(i, p) \/ TaskArticle(i, p)
  \/ \E i \in 1..2 : SeeResponse(i) \/ Unreadable(i)
  \/ Tick \/ Cancel \/ Answer

\* Time passes, promises that are settled continue, and a browser that was
\* launched says so or fails; nothing is assumed of the sources.
Spec == Init /\ [][Next]_vars /\ WF_vars(Tick) /\ WF_vars(Answer) /\ WF_vars(Launched \/ LaunchFails)

--------------------------------------------------------------------------------
(* Properties. *)

\* A work that has found something is over, or its browser is; articles are
\* looked up for search answers only.
TypeOK ==
  /\ configured \in {"no", "official", "other"} /\ hint \in BOOLEAN /\ apiKey \in BOOLEAN
  /\ left \in 0..Budget /\ aborted \in BOOLEAN
  /\ stage \in Source \cup {"new", "ended"}
  /\ articles \in 0..MaxArticles /\ detailing \in BOOLEAN /\ searched \in BOOLEAN
  /\ browser \in {"none", "launching", "open", "closed"}
  /\ task \in [1..2 -> [state : {"idle", "reading", "detail", "done", "failed"}, articles : 0..MaxArticles]]
  /\ found \in [candidate : Candidate, source : Source] \cup {None}
  /\ answer \in {"waiting", "unavailable", "found"} /\ late \in BOOLEAN
  /\ found # None => stage \in {"browser", "ended"}
  /\ articles > 0 => Official(stage)
  /\ detailing => articles > 0

\* A product the caller is given carries the EAN asked for itself, has a price
\* it may be sold for, and is not another store's when our store's source was
\* asked, whichever way it was found ("nearby variants are not substituted").
OnlyExactProducts ==
  answer = "found" =>
    /\ found.candidate.exact /\ found.candidate.price = "usable"
    /\ Official(found.source) => found.candidate.store # "other"

\* A browser is launched only when the search by EAN failed ("not a reason to
\* cold-launch another browser"), and nothing at all is started for a caller
\* who has been answered.
NoWastedWork == ~late /\ (browser # "none" => ~searched)

\* The caller is answered by the deadline, whatever the sources do ("no fresh
\* timeout budget is added").
Answered == answer # "waiting"
AnsweredInTime == <>[]Answered

\* No browser is left running.
BrowserCloses == []<>(browser \in {"closed", "none"})
================================================================================
