-------------------------------- MODULE PageLookup --------------------------------
(***************************************************************************)
(* A lookup at a retailer whose pages are read, and what becomes of it:    *)
(* src/scrapers/woolworths.js, src/scrapers/checkers.js and src/scrapers/  *)
(* spar.js under boundedScrape and persistResult of src/priceService.js.   *)
(*                                                                         *)
(* The lookup races a timer; the one that loses is not cancelled.  Only a  *)
(* lookup that won may be written, a product first and then its price.     *)
(***************************************************************************)
EXTENDS Naturals, FiniteSets

CONSTANTS
  None,
  MaxPayloads  \* bound on responses a page's search is seen to get

\* A product on a page: does it carry the barcode asked for, one that contains
\* its digits, or another; and does it have a price?
Product  == [id : {"same", "contains", "other"}, priced : BOOLEAN]
Payloads == {p \in SUBSET Product : Cardinality(p) <= 2}
Place    == {"state", "json_ld", "provider", "payload", "card"}
Result   == [product : Product, place : Place]

\* What is assumed of the constants, wherever this module is instantiated.
Assumptions == MaxPayloads \in Nat /\ None \notin Result \cup {"available", "unavailable"}

VARIABLES
  adapter,   \* woolworths, checkers or spar
  setup,     \* of checkers: proxy, parse, keyless or off
  step,      \* how far the lookup is
  seen,      \* payloads the browser of checkers saw: the first exact product of each, or None
  browser,   \* none, open or closed
  result,    \* what the lookup returns
  expired,   \* has the timer of boundedScrape fired?
  race,      \* waiting, won by the lookup, or lost to the timer
  product,   \* is the product in products?
  price,     \* the result in retailer_prices, or None
  told       \* what the comparison was told: None, available or unavailable

lookup == <<step, seen, browser, result>>
outer  == <<expired, race, product, price, told>>
vars   == <<adapter, setup, lookup, outer>>

Init ==
  /\ adapter \in {"woolworths", "checkers", "spar"}
  /\ setup \in {"proxy", "parse", "keyless", "off"}
  /\ step = "new" /\ seen = {} /\ browser = "none" /\ result = None
  /\ expired = FALSE /\ race = "waiting" /\ product = FALSE /\ price = None /\ told = None

--------------------------------------------------------------------------------
(* Steps both pages share. *)

\* Return r, after closing the browser if there is one.
Return(r) ==
  /\ result' = r
  /\ step' = IF browser = "open" THEN "closing" ELSE "ended"
  /\ UNCHANGED <<adapter, setup, seen, browser, outer>>

\* A timeout or an exception of any await.
Throw ==
  /\ step \in {"document", "provider", "launch", "goto", "page"}
  /\ Return(None)

Launch ==
  /\ step = "launch"
  /\ browser' = "open" /\ step' = "goto"
  /\ UNCHANGED <<adapter, setup, seen, result, outer>>

\* finally
CloseBrowser ==
  /\ step = "closing"
  /\ browser' = "closed" /\ step' = "ended"
  /\ UNCHANGED <<adapter, setup, seen, result, outer>>

Start ==
  /\ step = "new"
  /\ step' = CASE adapter = "woolworths" -> "document"
               [] adapter = "checkers" /\ setup = "proxy" -> "launch"
               [] adapter = "checkers" /\ setup = "parse" -> "provider"
               [] OTHER -> "ended"
  /\ UNCHANGED <<adapter, setup, seen, browser, result, outer>>

--------------------------------------------------------------------------------
(* Woolworths. *)

\* findStateProduct and getJsonLdProduct: priced products of the barcode.
Scoped(products) == {p \in products : p.id = "same" /\ p.priced}

\* The page's state comes before its JSON-LD.
Extracted(state, jsonLd) ==
  IF Scoped(state) # {} THEN [product : Scoped(state), place : {"state"}]
  ELSE [product : Scoped(jsonLd), place : {"json_ld"}]

\* fetchDocumentProduct: not found, a product, or a page without one, which is
\* opened in a browser.
Document(state, jsonLd) ==
  /\ step = "document"
  /\ \/ Return(None)
     \/ \E r \in Extracted(state, jsonLd) : Return(r)
     \/ /\ Extracted(state, jsonLd) = {}
        /\ step' = "launch"
        /\ UNCHANGED <<adapter, setup, seen, browser, result, outer>>

Goto ==
  /\ step = "goto"
  /\ step' = "page"
  /\ UNCHANGED <<adapter, setup, seen, browser, result, outer>>

\* goto of a page that is not there.
GotoNotFound ==
  /\ step = "goto" /\ adapter = "woolworths"
  /\ Return(None)

ReadPage(state, jsonLd) ==
  /\ step = "page" /\ adapter = "woolworths"
  /\ IF Extracted(state, jsonLd) = {} THEN Return(None) ELSE \E r \in Extracted(state, jsonLd) : Return(r)

--------------------------------------------------------------------------------
(* Checkers. *)

\* The first product of the barcode decides, whether it is priced or not.
Exact(products) == {p \in products : p.id = "same"}

\* lookupParseProvider
Provider(products) ==
  /\ step = "provider"
  /\ \/ \E p \in Exact(products) : Return(IF p.priced THEN [product |-> p, place |-> "provider"] ELSE None)
     \/ Exact(products) = {} /\ Return(None)

\* A JSON response of the page while it is open.
SeePayload(products) ==
  /\ adapter = "checkers" /\ browser = "open" /\ step \in {"goto", "page"}
  /\ Cardinality(seen) < MaxPayloads
  /\ \E p \in Exact(products) : seen' = seen \cup {p}
  /\ UNCHANGED <<adapter, setup, step, browser, result, outer>>

\* A card is eligible when the digits of its text contain the barcode's.
Eligible(cards) == {c \in cards : c.id \in {"same", "contains"} /\ c.priced}

\* After the wait: the payloads, then the cards of the page.
ReadSearch(cards) ==
  /\ step = "page" /\ adapter = "checkers"
  /\ LET priced == {p \in seen : p.priced} IN
     IF priced # {} THEN \E p \in priced : Return([product |-> p, place |-> "payload"])
     ELSE IF Eligible(cards) # {} THEN \E c \in Eligible(cards) : Return([product |-> c, place |-> "card"])
     ELSE Return(None)

--------------------------------------------------------------------------------
(* boundedScrape and persistResult. *)

Timer ==
  /\ ~expired /\ race = "waiting"
  /\ expired' = TRUE
  /\ UNCHANGED <<adapter, setup, lookup, race, product, price, told>>

Lose ==
  /\ race = "waiting" /\ expired
  /\ race' = "lost" /\ told' = "unavailable"
  /\ UNCHANGED <<adapter, setup, lookup, expired, product, price>>

\* A result without a price is not written.
Win ==
  /\ race = "waiting" /\ step = "ended"
  /\ race' = "won"
  /\ told' = IF result = None THEN "unavailable" ELSE told
  /\ UNCHANGED <<adapter, setup, lookup, expired, product, price>>

UpsertProduct ==
  /\ race = "won" /\ told = None /\ ~product
  /\ product' = TRUE
  /\ UNCHANGED <<adapter, setup, lookup, expired, race, price, told>>

InsertPrice ==
  /\ race = "won" /\ told = None /\ product /\ price = None
  /\ price' = result
  /\ UNCHANGED <<adapter, setup, lookup, expired, race, product, told>>

Available ==
  /\ race = "won" /\ told = None /\ price # None
  /\ told' = "available"
  /\ UNCHANGED <<adapter, setup, lookup, expired, race, product, price>>

\* A write fails, or its answer is lost.
PersistFails ==
  /\ race = "won" /\ told = None /\ result # None
  /\ told' = "unavailable"
  /\ UNCHANGED <<adapter, setup, lookup, expired, race, product, price>>

Browser == Throw \/ Launch \/ CloseBrowser

Outer == Timer \/ Lose \/ Win \/ UpsertProduct \/ InsertPrice \/ Available \/ PersistFails

Next ==
  \/ Start \/ Browser \/ Goto \/ GotoNotFound \/ Outer
  \/ \E p, q \in Payloads : Document(p, q) \/ ReadPage(p, q)
  \/ \E p \in Payloads : Provider(p) \/ SeePayload(p) \/ ReadSearch(p)

\* Awaits of the browser end, at the latest by their timeouts, and the timer of
\* the race fires.
Spec == Init /\ [][Next]_vars /\ WF_vars(Browser) /\ WF_vars(Outer)

--------------------------------------------------------------------------------
(* Properties. *)

\* A browser is open exactly while a lookup uses or closes it, and a price is
\* written for a product that is known.
TypeOK ==
  /\ adapter \in {"woolworths", "checkers", "spar"} /\ setup \in {"proxy", "parse", "keyless", "off"}
  /\ step \in {"new", "document", "provider", "launch", "goto", "page", "closing", "ended"}
  /\ seen \subseteq Product
  /\ browser \in {"none", "open", "closed"}
  /\ result \in Result \cup {None} /\ price \in Result \cup {None}
  /\ expired \in BOOLEAN /\ product \in BOOLEAN
  /\ race \in {"waiting", "won", "lost"} /\ told \in {None, "available", "unavailable"}
  /\ browser = "open" <=> step \in {"goto", "page", "closing"}
  /\ price # None => product

\* What is written or shown as available has a price and, wherever identifiers
\* are compared, the barcode asked for; a retailer that is not set up, and
\* SPAR, never have one ("declines unscoped search prices").
OnlyExactProducts ==
  \A r \in {result, price} \ {None} :
    /\ r.product.priced
    /\ r.place # "card" => r.product.id = "same"
    /\ adapter = "woolworths" \/ (adapter = "checkers" /\ setup \in {"proxy", "parse"})

\* A lookup that was too late writes nothing, and what is shown as available
\* was written as it was found.
NothingLate ==
  /\ race # "won" => ~product /\ price = None
  /\ told = "available" => price = result /\ price # None

\* The comparison is told something, and no lookup leaves its browser open,
\* even one nobody waits for.
AtRest == told # None /\ browser # "open"
AnsweredAndClosed == <>[]AtRest
================================================================================
