------------------------------ MODULE RequestBudgets ------------------------------
(***************************************************************************)
(* The request budgets of the website's server: a table of counters, each  *)
(* for a visitor and a window of time.  consumePriceBudget of              *)
(* pwa/src/proxy-identity.ts makes room by giving up a counter;            *)
(* consumeAuthBudget of pwa/src/lib/auth-flows.ts turns new visitors away. *)
(* They share no state: a behaviour is one of the table that kind names.   *)
(*                                                                         *)
(* A Map keeps its keys in the order they were first set: each counter has *)
(* a place, counted from 0.                                                *)
(***************************************************************************)
EXTENDS Integers, Sequences, FiniteSets

CONSTANTS
  Visitor,
  Limit,    \* 30 or 40 requests
  Window,   \* in a minute or a quarter of an hour
  Capacity, \* 5000
  MaxTime   \* bound on the time

Counter == [count : 1..(Limit + 1), resetAt : Nat, place : Nat]

\* What is assumed of the constants, wherever this module is instantiated.
Assumptions == {Limit, Window, Capacity} \subseteq Nat \ {0} /\ MaxTime \in Nat /\ IsFiniteSet(Visitor)

VARIABLES
  kind,     \* price or auth
  now,
  buckets,  \* the table: a function from the visitors it holds to their counters
  admitted, \* history: the times at which each visitor was admitted, while its counters were kept
  given,    \* history: the visitors whose live counter was given up
  answer    \* what the last request was told: allowed, and when to come again

vars == <<kind, now, buckets, admitted, given, answer>>

NoAnswer == [of |-> {}, allowed |-> TRUE, again |-> 0]

Init ==
  /\ kind \in {"price", "auth"}
  /\ now = 0 /\ buckets = [v \in {} |-> 0] /\ admitted = [v \in Visitor |-> <<>>] /\ given = {}
  /\ answer = NoAnswer

Held == DOMAIN buckets

Expired(b) == b.resetAt <= now

Live == {v \in Held : ~Expired(buckets[v])}

Tick == now < MaxTime /\ now' = now + 1 /\ answer' = NoAnswer /\ UNCHANGED <<kind, buckets, admitted, given>>

\* Mutant: a full table is emptied.
SweptAll == IF Cardinality(Held) >= Capacity THEN {} ELSE Held

\* Who keeps a counter when what is over is removed from a full table.
Swept == IF Cardinality(Held) > (IF kind = "price" THEN Capacity ELSE Capacity - 1) THEN Live ELSE Held

\* Whose counter was set first.
First(held) == CHOOSE v \in held : \A w \in held : buckets[v].place <= buckets[w].place

\* The price table then gives up the counter that was set first.
Roomy == IF kind = "price" /\ Cardinality(Swept) > Capacity THEN Swept \ {First(Swept)} ELSE Swept

\* The counters of those who keep one, in their order.
Kept(held) == [v \in held |-> [buckets[v] EXCEPT !.place = Cardinality({w \in held : buckets[w].place < @})]]

\* The counter of the visitor after its request: one that is over begins again in its place.
Counted(v, held) ==
  CASE v \notin held                         -> [count |-> 1, resetAt |-> now + Window, place |-> Cardinality(held)]
    [] v \in held /\ Expired(buckets[v])     -> [Kept(held)[v] EXCEPT !.count = 1, !.resetAt = now + Window]
    [] v \in held /\ ~Expired(buckets[v])    -> [Kept(held)[v] EXCEPT !.count = @ + 1]

Allowed(b) == b.count <= Limit

\* A visitor asks at most once more when the budget is used up.
Consume(v, held) ==
  LET b == Counted(v, held)
  IN  /\ b.count <= Limit + 1
      /\ buckets' = [w \in held \cup {v} |-> IF w = v THEN b ELSE Kept(held)[w]]
      /\ answer' = [of |-> {v}, allowed |-> Allowed(b), again |-> b.resetAt]
      /\ admitted' = [w \in Visitor |->
           CASE w \in given'                             -> <<>>
             [] w \notin given' /\ w = v /\ Allowed(b)   -> Append(admitted[w], now)
             [] OTHER                                    -> admitted[w]]

Price(v) ==
  /\ kind = "price" /\ given' = given \cup (Live \ Roomy) /\ Consume(v, Roomy)
  /\ UNCHANGED <<kind, now>>

Full(v) == Cardinality(Swept) >= Capacity /\ v \notin Swept

\* A new visitor is turned away, for no time in particular, while the table is full.
Auth(v) ==
  /\ kind = "auth" /\ UNCHANGED <<kind, now, given>>
  /\ \/ /\ Full(v) /\ buckets' = Kept(Swept) /\ answer' = [of |-> {v}, allowed |-> FALSE, again |-> 0]
        /\ UNCHANGED admitted
     \/ ~Full(v) /\ Consume(v, Swept)

Next == Tick \/ \E v \in Visitor : Price(v) \/ Auth(v)

Spec == Init /\ [][Next]_vars

--------------------------------------------------------------------------------
(* Properties. *)

\* Visitors have counters, and the table has its size.
TypeOK ==
  /\ Held \subseteq Visitor /\ buckets \in [Held -> Counter]
  /\ Cardinality(Held) <= IF kind = "price" THEN Capacity + 1 ELSE Capacity

\* No interval as long as the window admits more than two budgets of a visitor, one
\* from each of the windows it may reach into, unless the counter was given up.
TwoBudgets ==
  \A v \in Visitor : \A i, j \in DOMAIN admitted[v] :
    j - i >= 2 * Limit => admitted[v][j] - admitted[v][i] >= Window

\* The visitor was admitted Limit times in the window that ends now.
UsedUp(v) ==
  Len(admitted[v]) >= Limit /\ admitted[v][Len(admitted[v]) - Limit + 1] > now - Window

\* Who is turned away has used up a budget of its own, unless the table is full of the
\* counters of others; and at the time it is told to come again its counter is over.
TurnedAwayForCause ==
  \A v \in answer.of : ~answer.allowed =>
    \/ kind = "auth" /\ v \notin Held /\ Cardinality(Held) = Capacity /\ Live = Held
    \/ (v \in given \/ UsedUp(v)) /\ now < answer.again /\ answer.again <= now + Window

\* The visitors besides v who have lost a live counter or had it changed by a step to table.
Lost(v, table) ==
  {w \in Live \ v : w \in DOMAIN table =>
     table[w].count # buckets[w].count \/ table[w].resetAt # buckets[w].resetAt}

\* A request of another leaves a live counter as it is, or the price table is full of
\* live counters and gives up one of them.
OthersDoNotCount ==
  [][now' = now => LET lost == Lost(answer'.of, buckets') IN
       lost = {} \/ (kind = "price" /\ Cardinality(Live) > Capacity /\ \E w \in Live : lost = {w})]_vars
================================================================================
