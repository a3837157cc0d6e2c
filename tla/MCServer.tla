------------------------------- MODULE MCServer -------------------------------
(***************************************************************************)
(* What the server remembers: accounts and their links, cached prices and  *)
(* health facts.  The parts have no state in common, so each behaviour is  *)
(* one of a single part.  They share the model values that may be          *)
(* exchanged: the symmetry group stays small.                              *)
(***************************************************************************)
EXTENDS AuthFlows, TLC

CONSTANTS
  Visitor, MaxAge,                                     \* of PriceCache
  Barcode, MaxEntries, SourceTTL, MissTTL, FailureTTL, \* of HealthCache
  MaxTime                                              \* bound on the time of both

VARIABLES
  part, \* the part at work
  now, row, check, refresh, failing, visit, copy, told, latest, owing,
  healthNow, cache, pc, wants, began, saved, answer, given, last

priceVars == <<now, row, check, refresh, failing, visit, copy, told, latest, owing>>
healthVars == <<healthNow, cache, pc, wants, began, saved, answer, given, last>>

\* The parts, with variables of their own.
Prices == INSTANCE PriceCache WITH Retailer <- Request
Health == INSTANCE HealthCache WITH Lookup <- Request, now <- healthNow

\* The parts are given constants they are made for.
ASSUME PartsAssumption == Prices!Assumptions /\ Health!Assumptions

\* One part is at work; each of the others rests in one of its initial states.
InitParts ==
  /\ part \in {"accounts", "prices", "health"}
  /\ Init
  /\ Prices!Init
  /\ Health!Init

NextParts ==
  /\ UNCHANGED part
  /\ IF part = "accounts" THEN Next \/ UNCHANGED vars ELSE UNCHANGED vars
  /\ IF part = "prices" THEN Prices!Next \/ UNCHANGED priceVars ELSE UNCHANGED priceVars
  /\ IF part = "health" THEN Health!Next \/ UNCHANGED healthVars ELSE UNCHANGED healthVars

everything == <<part, vars, priceVars, healthVars>>

SpecParts == InitParts /\ [][NextParts]_everything

Symmetry == Permutations(Request) \cup Permutations(Confirmation)

--------------------------------------------------------------------------------
(* Properties. *)

\* A price is answered from the cache only when the last finding was one, and said to be
\* stale when it is; no answer mixes two refreshes (priceService.js).
PricesAreTrue == Prices!PricesAreTrue

\* Health facts that are not called outdated were given in time, a lookup that failed
\* shows until one succeeds, and failed lookups take the cache over its limit only as far
\* as others are under way (productHealth.js).
FactsAreTrue ==
  part = "health" => Health!TypeOK /\ Health!FreshIsFresh /\ Health!FailureShows /\ Health!Bounded
================================================================================
