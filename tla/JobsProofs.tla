------------------------------- MODULE JobsProofs -------------------------------
(***************************************************************************)
(* Proofs about what the server's jobs find, write and answer, for any     *)
(* constants of the parts of MCJobs.                                       *)
(*                                                                         *)
(* WatchlistItems: the offers a comparison has found are in the stored     *)
(* prices before they are in the check (Newest), no time lies ahead of the *)
(* clock (Times), and a request that was released has a check not older    *)
(* than itself (Good).                                                     *)
(*                                                                         *)
(* Lookups: what was found is exact from the moment it is found, whoever   *)
(* was answered has aborted the work, and a browser is there only in its   *)
(* turn (PnpInv); the steps of a page belong to its retailer, and what is  *)
(* written was won and is what the lookup returned (PageInv).              *)
(*                                                                         *)
(* The seed: what a run calls completed, it left out or has gone through   *)
(* (RunOK).  Batches: ranks and the numbers of the order are one for each  *)
(* product (Numbered, Ranked), shares compare as numbers over a common     *)
(* denominator do (KeysAgree), and all within their quotas fit in a batch  *)
(* (WithinIsTaken).                                                        *)
(***************************************************************************)
EXTENDS MCJobs, Sequences, FiniteSetTheorems, WellFoundedInduction, TLAPS

Moment == 0..MaxTime

CheckOK ==
  check \in [state : {"never", "failed", "unavailable", "available"}, offers : SUBSET Offer, at : Moment, lastAvailable : Moment]

Answer200 ==
  [best : SUBSET Offer, known : SUBSET Offer, checked : Moment,
   availability : {"failed", "unavailable", "available", "not_checked"}]

OneRequest ==
  [at : {"idle", "read", "waits", "compared", "200", "404", "409", "429", "503"}, own : BOOLEAN,
   read : Moment, since : Moment, item : SUBSET Answer200]

RequestOK == request \in [User -> OneRequest]

\* No offer, check or request is from later than now.
Times ==
  /\ check.at <= now /\ check.lastAvailable <= now
  /\ check.offers # {} => check.lastAvailable = check.at
  /\ \A o \in prices \cup found : o.at <= now

\* What a comparison finds is stored at once.
Newest == \A o \in found \cup check.offers : \E p \in prices : p.retailer = o.retailer /\ p.at >= o.at

\* Request q is sound when it is t, the last check was at c and p compares.
Good(q, t, c, p) ==
  /\ q.read <= t /\ q.since <= t
  /\ q.at = "waits" => p = "web"
  /\ q.at = "compared" => q.since <= c
  /\ q.at # "200" => q.item = {}
  /\ \A item \in q.item : item.checked >= q.since

Sound == \A u \in User : Good(request[u], now, check.at, by)

IInv == TypeOK /\ CheckOK /\ RequestOK /\ Times /\ Newest /\ Sound

USE ItemsAssumption DEF Moment

--------------------------------------------------------------------------------
(* Choosing offers *)

Before == {ss \in Nat \X Nat : ss[1] < ss[2]}

LEMMA Smallest ==
  ASSUME NEW T \in SUBSET Nat, T # {}
  PROVE  \E x \in T : \A y \in T : x <= y
<1>1. OpToRel(<, Nat) = Before
  BY DEF OpToRel, Before
<1>2. IsWellFoundedOn(Before, Nat)
  BY <1>1, NatLessThanWellFounded
<1>3. PICK x \in T : \A y \in T : <<y, x>> \notin Before
  BY <1>2, WFMin
<1>4. ASSUME NEW y \in T PROVE x <= y
  <2>1. <<y, x>> \in Nat \X Nat
    OBVIOUS
  <2>2. ~(y < x)
    BY <1>3, <2>1 DEF Before
  <2>. QED
    BY <2>2
<1>. QED
  BY <1>4

LEMMA Cheapest ==
  ASSUME NEW S \in SUBSET Offer, S # {}
  PROVE  \E o \in S : \A p \in S : o.price <= p.price
<1>. DEFINE T == {o.price : o \in S}
<1>1. T \in SUBSET Nat /\ T # {}
  BY DEF Offer
<1>2. PICK x \in T : \A y \in T : x <= y
  <2>. HIDE DEF T
  <2>. QED
    BY <1>1, Smallest
<1>. QED
  BY <1>2

\* Where there are offers, one is the offered known.
LEMMA BestExists ==
  ASSUME NEW S \in SUBSET Offer
  PROVE  Best(S) \subseteq S /\ (S # {} => Best(S) # {})
<1>. DEFINE fresh == {o \in S : ~Stale(o)}
            first == IF fresh # {} THEN fresh ELSE S
<1>1. Best(S) = {o \in first : \A p \in first : o.price <= p.price} /\ first \in SUBSET Offer /\ first \subseteq S
  BY DEF Best
<1>2. S # {} => first # {}
  OBVIOUS
<1>. HIDE DEF first
<1>. QED
  BY <1>1, <1>2, Cheapest

\* One fresh offer among the offered, and none is stale or dearer than a fresh one.
LEMMA FreshFirst ==
  ASSUME NEW S, NEW q \in Best(S), ~Stale(q), NEW o \in Best(S)
  PROVE  ~Stale(o) /\ \A p \in S : ~Stale(p) => o.price <= p.price
<1>. DEFINE fresh == {p \in S : ~Stale(p)}
<1>1. fresh # {} => Best(S) = {r \in fresh : \A p \in fresh : r.price <= p.price}
  BY DEF Best
<1>2. q \in S
  BY DEF Best
<1>3. fresh # {}
  BY <1>2
<1>. QED
  BY <1>1, <1>3

LEMMA ItemOK ==
  ASSUME TypeOK, CheckOK
  PROVE  Item \in Answer200 /\ Item.checked = check.at
<1>. DEFINE offered == IF check.state \in {"failed", "unavailable"} THEN {}
                    ELSE IF Best(check.offers) # {} THEN Best(check.offers) ELSE Best(prices)
            availability == IF check.state \in {"failed", "unavailable"} THEN check.state
                            ELSE IF offered # {} THEN "available" ELSE "not_checked"
<1>1. Item = [best |-> offered, known |-> Best(prices), checked |-> check.at, availability |-> availability]
  BY DEF Item
<1>2. Best(check.offers) \in SUBSET Offer /\ Best(prices) \in SUBSET Offer
  BY BestExists DEF TypeOK, CheckOK
<1>3. offered \in SUBSET Offer /\ check.at \in Moment
  BY <1>2 DEF CheckOK
<1>4. availability \in {"failed", "unavailable", "available", "not_checked"}
  OBVIOUS
<1>. HIDE DEF offered, availability
<1>. QED
  BY <1>1, <1>2, <1>3, <1>4 DEF Answer200

--------------------------------------------------------------------------------
(* The steps *)

LEMMA InitIInv == Init => IInv
<1>. SUFFICES ASSUME Init PROVE IInv
  OBVIOUS
<1>1. TypeOK
  <2>1. prices \subseteq Offer /\ found \subseteq Offer /\ check.offers \subseteq Offer
    BY DEF Init
  <2>2. saved \subseteq User /\ now \in 1..MaxTime /\ owed \in BOOLEAN /\ runs \in 0..MaxRuns
    <3>1. now \in 1..MaxTime /\ runs \in 0..MaxRuns
      BY DEF Init
    <3>. QED
      BY <3>1 DEF Init
  <2>3. \A u \in User : request[u].at = "waits" => by = "web"
    BY DEF Init, NoRequest
  <2>4. (check.state = "available" <=> check.offers # {}) /\ (check.state = "never" <=> check.at = 0)
    BY DEF Init
  <2>. QED
    BY <2>1, <2>2, <2>3, <2>4 DEF TypeOK
<1>2. CheckOK
  BY DEF Init, CheckOK
<1>3. NoRequest \in OneRequest
  BY DEF NoRequest, OneRequest
<1>4. RequestOK
  BY <1>3 DEF Init, RequestOK
<1>5. Times /\ Newest
  BY DEF Init, Times, Newest
<1>6. Sound
  BY DEF Init, Sound, Good, NoRequest
<1>. QED
  BY <1>1, <1>2, <1>4, <1>5, <1>6 DEF IInv

\* A step that moves one request.
RequestIs(u, q) == request' = [request EXCEPT ![u] = q]

LEMMA RequestMoved ==
  ASSUME IInv, NEW u \in User, NEW q \in OneRequest, RequestIs(u, q),
         UNCHANGED <<now, check>>, by' = by \/ by' = "web", Good(q, now, check.at, by')
  PROVE  RequestOK' /\ Sound'
<1>1. RequestOK' /\ request'[u] = q /\ \A v \in User \ {u} : request'[v] = request[v]
  BY DEF IInv, RequestOK, RequestIs
<1>2. ASSUME NEW v \in User PROVE Good(request'[v], now, check.at, by')
  <2>1. CASE v = u
    BY <1>1, <2>1
  <2>2. CASE v # u
    BY <1>1, <2>2 DEF IInv, Sound, Good
  <2>. QED
    BY <2>1, <2>2
<1>. QED
  BY <1>1, <1>2 DEF Sound

\* A step that moves no request.
LEMMA RequestKept ==
  ASSUME IInv, UNCHANGED request, now' \in Moment, now <= now', check'.at \in Moment, check.at <= check'.at,
         by' = by \/ by = "nobody" \/ \A u \in User : request[u].at # "waits"
  PROVE  RequestOK' /\ Sound'
<1>1. RequestOK'
  BY DEF IInv, RequestOK
<1>2. ASSUME NEW u \in User PROVE Good(request[u], now', check'.at, by')
  <2>1. Good(request[u], now, check.at, by) /\ request[u] \in OneRequest /\ now \in Moment /\ check.at \in Moment
    BY DEF IInv, Sound, RequestOK, TypeOK, CheckOK
  <2>2. request[u].read \in Moment /\ request[u].since \in Moment
    BY <2>1 DEF OneRequest
  <2>. QED
    BY <2>1, <2>2 DEF Good
<1>. QED
  BY <1>1, <1>2 DEF Sound

\* A comparison of this process ends: those who waited go on.
LEMMA RequestReleased ==
  ASSUME IInv, NEW code \in {"compared", "503"}, Released(code), by' = "nobody", now' = now,
         check'.at \in Moment, check.at <= check'.at, code = "compared" => check'.at = now
  PROVE  RequestOK' /\ Sound'
<1>1. ASSUME NEW u \in User PROVE request'[u] \in OneRequest /\ Good(request'[u], now, check'.at, by')
  <2>1. /\ Good(request[u], now, check.at, by) /\ request[u] \in OneRequest /\ now \in Moment /\ check.at \in Moment
        /\ by \in {"web", "worker", "nobody"} \/ by \notin {"web", "worker", "nobody"}
    BY DEF IInv, Sound, RequestOK, TypeOK, CheckOK
  <2>2. request[u].read \in Moment /\ request[u].since \in Moment
    BY <2>1 DEF OneRequest
  <2>3. CASE request[u].at = "waits"
    <3>1. request'[u] = [request[u] EXCEPT !.at = code]
      BY <2>1, <2>3 DEF Released, Good
    <3>2. /\ request'[u].at = code /\ request'[u].read = request[u].read /\ request'[u].since = request[u].since
          /\ request'[u].item = request[u].item /\ request'[u] \in OneRequest
      BY <2>1, <3>1 DEF OneRequest
    <3>3. request[u].item = {}
      BY <2>1, <2>3 DEF Good
    <3>. QED
      BY <2>1, <2>2, <3>2, <3>3 DEF Good
  <2>4. CASE request[u].at # "waits"
    <3>1. request'[u] = request[u]
      BY <2>4 DEF Released
    <3>. QED
      BY <2>1, <2>2, <2>4, <3>1 DEF Good
  <2>. QED
    BY <2>3, <2>4
<1>2. request' = [u \in User |-> request'[u]]
  BY DEF Released
<1>. QED
  BY <1>1, <1>2 DEF RequestOK, Sound

\* What TypeOK says of requests follows from Sound.
LEMMA TypeFrom ==
  ASSUME Sound', CheckOK',
         prices' \subseteq Offer /\ found' \subseteq Offer,
         saved' \subseteq User /\ now' \in 1..MaxTime /\ owed' \in BOOLEAN /\ runs' \in 0..MaxRuns,
         (check'.state = "available" <=> check'.offers # {}) /\ (check'.state = "never" <=> check'.at = 0)
  PROVE  TypeOK'
<1>1. \A u \in User : request'[u].at = "waits" => by' = "web"
  BY DEF Sound, Good
<1>2. check'.offers \subseteq Offer
  BY DEF CheckOK
<1>. QED
  BY <1>1, <1>2 DEF TypeOK

LEMMA TickStep ==
  ASSUME IInv, Tick PROVE IInv'
<1>1. now' = now + 1 /\ now \in 1..MaxTime /\ now < MaxTime /\ UNCHANGED <<saved, prices, check, by, found, owed, request, runs>>
  BY DEF IInv, TypeOK, Tick
<1>2. now' \in 1..MaxTime /\ now <= now'
  BY <1>1
<1>3. CheckOK' /\ check'.at \in Moment /\ check.at <= check'.at /\ check.lastAvailable \in Moment
  BY <1>1 DEF IInv, CheckOK
<1>4. RequestOK' /\ Sound'
  BY <1>1, <1>2, <1>3, RequestKept
<1>5. Times'
  <2>1. \A o \in prices \cup found : o.at \in Moment /\ o.at <= now
    BY DEF IInv, TypeOK, Times, Offer
  <2>. QED
    BY <1>1, <1>3, <2>1 DEF IInv, Times
<1>6. Newest'
  BY <1>1 DEF IInv, Newest
<1>7. TypeOK'
  BY <1>1, <1>2, <1>3, <1>4, TypeFrom DEF IInv, TypeOK
<1>. QED
  BY <1>3, <1>4, <1>5, <1>6, <1>7 DEF IInv

LEMMA BeginStep ==
  ASSUME IInv, NEW p \in {"web", "worker"}, Begin(p) PROVE IInv'
<1>1. by = "nobody" /\ found' = {} /\ runs < MaxRuns /\ runs' = runs + 1 /\ UNCHANGED <<now, saved, prices, check, owed, request>>
  BY DEF Begin
<1>2. now \in Moment /\ check.at \in Moment /\ CheckOK' /\ runs' \in 0..MaxRuns
  BY <1>1 DEF IInv, TypeOK, CheckOK
<1>3. RequestOK' /\ Sound'
  BY <1>1, <1>2, RequestKept
<1>4. Times' /\ Newest'
  BY <1>1 DEF IInv, Times, Newest
<1>5. TypeOK'
  BY <1>1, <1>2, <1>3, TypeFrom DEF IInv, TypeOK
<1>. QED
  BY <1>2, <1>3, <1>4, <1>5 DEF IInv

LEMMA FindStep ==
  ASSUME IInv, NEW r \in Retailer, NEW amount \in Price, Find(r, amount) PROVE IInv'
<1>. DEFINE o == [retailer |-> r, price |-> amount, at |-> now]
<1>1. /\ by # "nobody" /\ found' = found \cup {o} /\ prices' = Others(prices, r) \cup {o}
      /\ UNCHANGED <<now, saved, check, by, owed, request, runs>>
  BY DEF Find
<1>2. now \in Moment /\ check.at \in Moment /\ CheckOK'
  BY <1>1 DEF IInv, TypeOK, CheckOK
<1>3. o \in Offer /\ o.retailer = r /\ o.at = now
  BY <1>2 DEF Offer
<1>. HIDE DEF o
<1>4. RequestOK' /\ Sound'
  BY <1>1, <1>2, RequestKept
<1>5. Times'
  BY <1>1, <1>2, <1>3 DEF IInv, Times, Others
<1>6. Newest'
  <2>1. ASSUME NEW q \in found' \cup check'.offers
        PROVE  \E p \in prices' : p.retailer = q.retailer /\ p.at >= q.at
    <3>1. CASE q = o
      BY <1>1, <1>2, <1>3, <3>1
    <3>2. CASE q # o
      <4>1. q \in found \cup check.offers
        BY <1>1, <3>2
      <4>2. PICK p \in prices : p.retailer = q.retailer /\ p.at >= q.at
        BY <4>1 DEF IInv, Newest
      <4>3. CASE p.retailer = r
        <5>1. p.at <= now /\ p.at \in Moment /\ q.at \in Moment
          BY <4>1 DEF IInv, Times, TypeOK, Offer
        <5>. QED
          BY <1>1, <1>2, <1>3, <4>2, <4>3, <5>1
      <4>4. CASE p.retailer # r
        BY <1>1, <4>2, <4>4 DEF Others
      <4>. QED
        BY <4>3, <4>4
    <3>. QED
      BY <3>1, <3>2
  <2>. QED
    BY <2>1 DEF Newest
<1>7. prices' \subseteq Offer /\ found' \subseteq Offer
  BY <1>1, <1>3 DEF IInv, TypeOK, Others
<1>8. TypeOK'
  BY <1>1, <1>2, <1>4, <1>7, TypeFrom DEF IInv, TypeOK
<1>. QED
  BY <1>2, <1>4, <1>5, <1>6, <1>8 DEF IInv

\* What is recorded is a check of now.
LEMMA RecordedCheck ==
  ASSUME IInv, NEW offers \in SUBSET Offer, NEW state \in {"failed", "unavailable", "available"}, Recorded(offers, state),
         state = "available" <=> offers # {}
  PROVE  /\ CheckOK' /\ check'.at = now /\ check'.offers = offers /\ check'.state = state
         /\ now \in Moment /\ check.at \in Moment /\ check.at <= now
         /\ check'.lastAvailable <= now /\ check'.lastAvailable >= check.lastAvailable
         /\ offers # {} => check'.lastAvailable = now
         /\ (check'.state = "available" <=> check'.offers # {}) /\ (check'.state = "never" <=> check'.at = 0)
<1>. DEFINE last == IF offers # {} THEN now ELSE check.lastAvailable
<1>1. now \in 1..MaxTime /\ check.at \in Moment /\ check.at <= now /\ check.lastAvailable \in Moment /\ check.lastAvailable <= now
  BY DEF IInv, TypeOK, CheckOK, Times
<1>2. last \in Moment /\ last <= now /\ last >= check.lastAvailable /\ (offers # {} => last = now)
  BY <1>1
<1>3. check' = [state |-> state, offers |-> offers, at |-> now, lastAvailable |-> last]
  BY DEF Recorded
<1>. HIDE DEF last
<1>4. CheckOK'
  BY <1>1, <1>2, <1>3 DEF CheckOK
<1>. QED
  BY <1>1, <1>2, <1>3, <1>4

LEMMA FinishStep ==
  ASSUME IInv, Finish PROVE IInv'
<1>1. /\ Recorded(found, IF found # {} THEN "available" ELSE "unavailable") /\ Released("compared")
      /\ by' = "nobody" /\ found' = {} /\ UNCHANGED <<now, saved, prices, owed, runs>> /\ found \in SUBSET Offer
  BY DEF IInv, TypeOK, Finish
<1>2. /\ CheckOK' /\ check'.at = now /\ check'.offers = found
      /\ now \in Moment /\ check.at \in Moment /\ check.at <= now
      /\ check'.lastAvailable <= now
      /\ found # {} => check'.lastAvailable = now
      /\ (check'.state = "available" <=> check'.offers # {}) /\ (check'.state = "never" <=> check'.at = 0)
  <2>1. CASE found # {}
    BY <1>1, <2>1, RecordedCheck
  <2>2. CASE found = {}
    BY <1>1, <2>2, RecordedCheck
  <2>. QED
    BY <2>1, <2>2
<1>3. RequestOK' /\ Sound'
  BY <1>1, <1>2, RequestReleased
<1>4. Times' /\ Newest'
  BY <1>1, <1>2 DEF IInv, Times, Newest
<1>5. TypeOK'
  BY <1>1, <1>2, <1>3, TypeFrom DEF IInv, TypeOK
<1>. QED
  BY <1>2, <1>3, <1>4, <1>5 DEF IInv

LEMMA FailStep ==
  ASSUME IInv, Fail PROVE IInv'
<1>1. /\ Released("503") /\ by' = "nobody" /\ found' = {} /\ owed' \in BOOLEAN
      /\ UNCHANGED <<now, saved, prices, check, runs>>
  BY DEF IInv, TypeOK, Fail
<1>2. CheckOK' /\ check'.at \in Moment /\ check.at <= check'.at
  BY <1>1 DEF IInv, CheckOK
<1>3. RequestOK' /\ Sound'
  BY <1>1, <1>2, RequestReleased
<1>4. Times' /\ Newest'
  BY <1>1 DEF IInv, Times, Newest
<1>5. TypeOK'
  BY <1>1, <1>2, <1>3, TypeFrom DEF IInv, TypeOK
<1>. QED
  BY <1>2, <1>3, <1>4, <1>5 DEF IInv

LEMMA RecordFailureStep ==
  ASSUME IInv, RecordFailure PROVE IInv'
<1>1. Recorded({}, "failed") /\ owed' = FALSE /\ UNCHANGED <<now, saved, prices, by, found, request, runs>>
  BY DEF RecordFailure
<1>2. /\ CheckOK' /\ check'.at = now /\ check'.offers = {}
      /\ now \in Moment /\ check.at \in Moment /\ check.at <= now
      /\ check'.lastAvailable <= now
      /\ (check'.state = "available" <=> check'.offers # {}) /\ (check'.state = "never" <=> check'.at = 0)
  BY <1>1, RecordedCheck
<1>3. RequestOK' /\ Sound'
  BY <1>1, <1>2, RequestKept
<1>4. Times' /\ Newest'
  BY <1>1, <1>2 DEF IInv, Times, Newest
<1>5. TypeOK'
  BY <1>1, <1>2, <1>3, TypeFrom DEF IInv, TypeOK
<1>. QED
  BY <1>2, <1>3, <1>4, <1>5 DEF IInv

\* A step of a route that leaves everything but its request, and who compares, alone.
LEMMA RouteStep ==
  ASSUME IInv, NEW u \in User, NEW q \in OneRequest, RequestIs(u, q),
         UNCHANGED <<now, saved, prices, check, found, owed>>, by' = by \/ by' = "web", runs' \in 0..MaxRuns,
         Good(q, now, check.at, by')
  PROVE  IInv'
<1>1. RequestOK' /\ Sound'
  BY RequestMoved
<1>2. CheckOK'
  BY DEF IInv, CheckOK
<1>3. Times' /\ Newest'
  BY DEF IInv, Times, Newest
<1>4. TypeOK'
  BY <1>1, <1>2, TypeFrom DEF IInv, TypeOK
<1>. QED
  BY <1>1, <1>2, <1>3, <1>4 DEF IInv

\* What is known of a request before its step.
LEMMA Request ==
  ASSUME IInv, NEW u \in User
  PROVE  /\ request[u] \in OneRequest /\ Good(request[u], now, check.at, by)
         /\ now \in Moment /\ check.at \in Moment /\ check.at <= now
         /\ request[u].read \in Moment /\ request[u].since \in Moment
         /\ runs \in 0..MaxRuns
<1>1. request[u] \in OneRequest /\ Good(request[u], now, check.at, by) /\ runs \in 0..MaxRuns
  BY DEF IInv, RequestOK, Sound, TypeOK
<1>2. now \in Moment /\ check.at \in Moment /\ check.at <= now
  BY DEF IInv, TypeOK, CheckOK, Times
<1>. QED
  BY <1>1, <1>2 DEF OneRequest

LEMMA SaveStep ==
  ASSUME IInv, NEW u \in User, Save(u) PROVE IInv'
<1>1. saved' \subseteq User /\ UNCHANGED <<now, prices, check, by, found, owed, request, runs>>
  BY DEF IInv, TypeOK, Save
<1>2. RequestOK' /\ Sound' /\ CheckOK' /\ Times' /\ Newest'
  BY <1>1 DEF IInv, RequestOK, Sound, CheckOK, Times, Newest
<1>3. TypeOK'
  BY <1>1, <1>2, TypeFrom DEF IInv, TypeOK
<1>. QED
  BY <1>2, <1>3 DEF IInv

LEMMA ReadStep ==
  ASSUME IInv, NEW u \in User, Read(u) PROVE IInv'
<1>. DEFINE q == [request[u] EXCEPT !.at = "read", !.own = u \in saved, !.read = check.at]
<1>1. RequestIs(u, q) /\ request[u].at = "idle" /\ UNCHANGED <<now, saved, prices, check, by, found, owed, runs>>
  BY DEF Read, RequestIs
<1>2. /\ q \in OneRequest /\ q.at = "read" /\ q.read = check.at /\ q.since = request[u].since /\ q.item = request[u].item
  <2>1. \A own \in BOOLEAN :
          LET p == [request[u] EXCEPT !.at = "read", !.own = own, !.read = check.at]
          IN  p \in OneRequest /\ p.at = "read" /\ p.read = check.at /\ p.since = request[u].since /\ p.item = request[u].item
    BY Request DEF OneRequest
  <2>2. (u \in saved) \in BOOLEAN
    OBVIOUS
  <2>. QED
    BY <2>1, <2>2
<1>. HIDE DEF q
<1>3. Good(q, now, check.at, by)
  BY <1>1, <1>2, Request DEF Good
<1>. QED
  BY <1>1, <1>2, <1>3, Request, RouteStep

LEMMA RefreshStep ==
  ASSUME IInv, NEW u \in User, Refresh(u) PROVE IInv'
<1>1. request[u].at = "read" /\ UNCHANGED <<now, saved, prices, check, found, owed>>
  BY DEF Refresh
<1>2. ASSUME NEW code \in {"404", "429", "409"}, Answers(u, code) PROVE IInv'
  <2>. DEFINE q == [request[u] EXCEPT !.at = code]
  <2>1. RequestIs(u, q) /\ UNCHANGED <<by, runs>>
    BY <1>2 DEF Answers, RequestIs
  <2>2. q \in OneRequest /\ q.at = code /\ q.read = request[u].read /\ q.since = request[u].since /\ q.item = request[u].item
    BY Request DEF OneRequest
  <2>. HIDE DEF q
  <2>3. Good(q, now, check.at, by)
    BY <1>1, <2>2, Request DEF Good
  <2>. QED
    BY <1>1, <2>1, <2>2, <2>3, Request, RouteStep
<1>3. ASSUME RequestIs(u, [request[u] EXCEPT !.at = "waits", !.since = now]), by' = "web",
             by = "web" \/ runs < MaxRuns, runs' = IF by = "web" THEN runs ELSE runs + 1
      PROVE  IInv'
  <2>. DEFINE q == [request[u] EXCEPT !.at = "waits", !.since = now]
  <2>1. q \in OneRequest /\ q.at = "waits" /\ q.read = request[u].read /\ q.since = now /\ q.item = request[u].item
    BY Request DEF OneRequest
  <2>2. RequestIs(u, q)
    BY <1>3
  <2>. HIDE DEF q
  <2>3. Good(q, now, check.at, by')
    BY <1>1, <1>3, <2>1, Request DEF Good
  <2>4. runs' \in 0..MaxRuns
    BY <1>3, Request
  <2>. QED
    BY <1>1, <1>3, <2>1, <2>2, <2>3, <2>4, RouteStep
<1>. QED
  BY <1>2, <1>3 DEF Refresh, RequestIs

LEMMA AnswerStep ==
  ASSUME IInv, NEW u \in User, Answer(u) PROVE IInv'
<1>. DEFINE q == IF u \in saved THEN [request[u] EXCEPT !.at = "200", !.item = {Item}] ELSE [request[u] EXCEPT !.at = "503"]
<1>1. RequestIs(u, q) /\ request[u].at = "compared" /\ UNCHANGED <<now, saved, prices, check, by, found, owed, runs>>
  BY DEF Answer, RequestIs
<1>2. Item \in Answer200 /\ Item.checked = check.at
  BY ItemOK DEF IInv
<1>3. q \in OneRequest /\ Good(q, now, check.at, by)
  <2>1. CASE u \in saved
    <3>1. /\ q \in OneRequest /\ q.at = "200" /\ q.read = request[u].read /\ q.since = request[u].since /\ q.item = {Item}
      BY <1>2, <2>1, Request DEF OneRequest
    <3>. HIDE DEF q
    <3>. QED
      BY <1>1, <1>2, <3>1, Request DEF Good
  <2>2. CASE u \notin saved
    <3>1. /\ q \in OneRequest /\ q.at = "503" /\ q.read = request[u].read /\ q.since = request[u].since /\ q.item = request[u].item
      BY <2>2, Request DEF OneRequest
    <3>. HIDE DEF q
    <3>. QED
      BY <1>1, <3>1, Request DEF Good
  <2>. QED
    BY <2>1, <2>2
<1>. HIDE DEF q
<1>. QED
  BY <1>1, <1>3, Request, RouteStep

LEMMA DoneStep ==
  ASSUME IInv, NEW u \in User, Done(u) PROVE IInv'
<1>1. RequestIs(u, NoRequest) /\ UNCHANGED <<now, saved, prices, check, by, found, owed, runs>>
  BY DEF Done, RequestIs
<1>2. NoRequest \in OneRequest
  BY DEF NoRequest, OneRequest
<1>3. Good(NoRequest, now, check.at, by)
  BY Request DEF Good, NoRequest
<1>. QED
  BY <1>1, <1>2, <1>3, Request, RouteStep

LEMMA NextIInv == IInv /\ [Next]_vars => IInv'
<1>. SUFFICES ASSUME IInv, [Next]_vars PROVE IInv'
  OBVIOUS
<1>1. CASE UNCHANGED vars
  <2>1. RequestOK' /\ Sound' /\ CheckOK' /\ Times' /\ Newest'
    BY <1>1 DEF IInv, RequestOK, Sound, CheckOK, Times, Newest, vars
  <2>2. TypeOK'
    BY <1>1 DEF IInv, TypeOK, vars
  <2>. QED
    BY <2>1, <2>2 DEF IInv
<1>2. ASSUME NEW p \in {"web", "worker"}, Begin(p) PROVE IInv'
  BY <1>2, BeginStep
<1>3. ASSUME NEW r \in Retailer, NEW amount \in Price, Find(r, amount) PROVE IInv'
  BY <1>3, FindStep
<1>4. ASSUME NEW u \in User, Save(u) \/ Read(u) \/ Refresh(u) \/ Answer(u) \/ Done(u) PROVE IInv'
  BY <1>4, SaveStep, ReadStep, RefreshStep, AnswerStep, DoneStep
<1>. QED
  BY <1>1, <1>2, <1>3, <1>4, TickStep, FinishStep, FailStep, RecordFailureStep DEF Next

LEMMA Invariant == Spec => []IInv
BY InitIInv, NextIInv, PTL DEF Spec

--------------------------------------------------------------------------------
(* Theorems *)

\* The types, and that only the web process has requests that wait.
THEOREM TypeCorrect == Spec => []TypeOK
<1>1. IInv => TypeOK
  BY DEF IInv
<1>. QED
  BY <1>1, Invariant, PTL

\* An offer that is shown belongs to the last check: watchlistItem of
\* src/watchlist.js.
THEOREM OldListingsStayOld == Spec => []NotResurrected
<1>1. ASSUME TypeOK, CheckOK PROVE NotResurrected
  <2>. DEFINE offered == IF check.state \in {"failed", "unavailable"} THEN {}
                      ELSE IF Best(check.offers) # {} THEN Best(check.offers) ELSE Best(prices)
  <2>1. Item.best = offered
    BY DEF Item
  <2>2. check.offers \in SUBSET Offer
    BY <1>1 DEF CheckOK
  <2>3. Best(check.offers) \subseteq check.offers /\ (check.offers # {} => Best(check.offers) # {})
    BY <2>2, BestExists
  <2>4. check.state = "available" => offered = Best(check.offers)
    BY <1>1, <2>3 DEF TypeOK
  <2>5. check.state \in {"never", "failed", "unavailable", "available"}
    BY <1>1 DEF CheckOK
  <2>. QED
    BY <2>1, <2>3, <2>4, <2>5 DEF NotResurrected
<1>2. IInv => NotResurrected
  BY <1>1 DEF IInv
<1>. QED
  BY <1>2, Invariant, PTL

\* An item that is not stale shows the cheapest of the check's fresh offers.
THEOREM FreshOffersFirst == Spec => []FreshIsCheapest
<1>1. ASSUME TypeOK, CheckOK PROVE FreshIsCheapest
  <2>1. SUFFICES ASSUME NEW q \in Item.best, ~Stale(q), NEW o \in Item.best
                 PROVE  now - o.at <= StaleAfter /\ \A p \in check.offers : now - p.at <= StaleAfter => o.price <= p.price
    BY DEF FreshIsCheapest, ItemStale
  <2>2. \A p \in Offer : ~Stale(p) <=> now - p.at <= StaleAfter
    BY <1>1 DEF Stale, TypeOK, Offer
  <2>3. check.offers \in SUBSET Offer /\ prices \in SUBSET Offer
    BY <1>1 DEF CheckOK, TypeOK
  <2>4. \/ Item.best = Best(check.offers)
        \/ Item.best = Best(prices) /\ Best(check.offers) = {}
    BY <2>1 DEF Item
  <2>5. CASE Item.best = Best(check.offers)
    <3>1. ~Stale(o) /\ \A p \in check.offers : ~Stale(p) => o.price <= p.price
      BY <2>1, <2>5, FreshFirst
    <3>2. o \in Offer
      BY <2>1, <2>3, <2>5, BestExists
    <3>. QED
      BY <2>2, <2>3, <3>1, <3>2
  <2>6. CASE Item.best = Best(prices) /\ Best(check.offers) = {}
    <3>1. ~Stale(o)
      BY <2>1, <2>6, FreshFirst
    <3>2. o \in Offer
      BY <2>1, <2>3, <2>6, BestExists
    <3>3. check.offers = {}
      BY <2>3, <2>6, BestExists
    <3>. QED
      BY <2>2, <3>1, <3>2, <3>3
  <2>. QED
    BY <2>4, <2>5, <2>6
<1>2. IInv => FreshIsCheapest
  BY <1>1 DEF IInv
<1>. QED
  BY <1>2, Invariant, PTL

\* The stored prices are never behind the check that was made with them:
\* insertPrice comes before recordComparisonCheck.
THEOREM PricesKeepUp == Spec => []KnownIsNewest
<1>1. IInv => KnownIsNewest
  BY DEF IInv, Newest, KnownIsNewest
<1>. QED
  BY <1>1, Invariant, PTL

\* Who waited for a comparison is answered with one that ended since.
THEOREM AnswersAreChecked == Spec => []AnswerIsChecked
<1>1. IInv => AnswerIsChecked
  BY DEF IInv, Sound, Good, AnswerIsChecked
<1>. QED
  BY <1>1, Invariant, PTL

\* The last time a product was available is kept by every check that finds it
\* unavailable or fails: the COALESCE of recordComparisonCheck.
THEOREM AvailabilityLasts == Spec => AvailabilityIsKept
<1>. DEFINE Kept == check'.lastAvailable >= check.lastAvailable /\ (check'.offers # {} => check'.lastAvailable = check'.at)
<1>1. ASSUME IInv, [Next]_vars PROVE Kept
  <2>1. CASE check' = check
    BY <1>1, <2>1 DEF IInv, CheckOK, Times
  <2>2. CASE Finish
    <3>1. Recorded(found, IF found # {} THEN "available" ELSE "unavailable") /\ found \in SUBSET Offer
      BY <1>1, <2>2 DEF IInv, TypeOK, Finish
    <3>2. CASE found # {}
      BY <1>1, <3>1, <3>2, RecordedCheck
    <3>3. CASE found = {}
      BY <1>1, <3>1, <3>3, RecordedCheck
    <3>. QED
      BY <3>2, <3>3
  <2>3. CASE RecordFailure
    <3>1. Recorded({}, "failed")
      BY <2>3 DEF RecordFailure
    <3>. QED
      BY <1>1, <3>1, RecordedCheck
  <2>. HIDE DEF Kept
  <2>. QED
    BY <1>1, <2>1, <2>2, <2>3 DEF Next, vars, Tick, Begin, Find, Fail, Save, Read, Refresh, Answer, Done
<1>2. IInv /\ [Next]_vars => [Kept]_vars
  BY <1>1
<1>. QED
  BY <1>2, Invariant, PTL DEF Spec, AvailabilityIsKept

\* A request begins no comparison within a minute of the last check, unless
\* that was recorded after the request had looked.
THEOREM RequestsCool == Spec => Cooled
<1>. DEFINE Cool(u) == by = "nobody" /\ request[u].at = "read" /\ request'[u].at = "waits"
                         => check.at < now \/ check.at > request[u].read
<1>1. ASSUME IInv, [Next]_vars, NEW u \in User PROVE Cool(u)
  <2>1. CASE request[u].read # now
    BY <1>1, <2>1, Request DEF Good
  <2>2. CASE request[u].read = now /\ request[u].at = "read"
    <3>1. RequestOK
      BY <1>1 DEF IInv
    <3>2. CASE request'[u] = request[u]
      BY <2>2, <3>2
    <3>3. ASSUME NEW v \in User, v # u, Read(v) \/ Refresh(v) \/ Answer(v) \/ Done(v) PROVE request'[u] = request[u]
      BY <3>1, <3>3 DEF Read, Refresh, Answers, Answer, Done, RequestOK
    <3>4. Refresh(u) => request'[u].at # "waits"
      <4>1. request[u] \in OneRequest
        BY <1>1, Request
      <4>2. ASSUME NEW code \in {"404", "429"}, Answers(u, code) PROVE request'[u].at = code
        BY <3>1, <4>1, <4>2 DEF Answers, RequestOK, OneRequest
      <4>. QED
        BY <2>2, <4>2 DEF Refresh
    <3>5. Finish \/ Fail => request'[u] = request[u]
      BY <2>2 DEF Finish, Fail, Released
    <3>6. ~(Read(u) \/ Answer(u) \/ Done(u))
      BY <2>2 DEF Read, Answer, Done
    <3>7. request' = request \/ Finish \/ Fail \/ \E v \in User : Read(v) \/ Refresh(v) \/ Answer(v) \/ Done(v)
      BY <1>1 DEF Next, vars, Tick, RecordFailure, Begin, Find, Save
    <3>. QED
      BY <3>2, <3>3, <3>4, <3>5, <3>6, <3>7
  <2>. QED
    BY <2>1, <2>2
<1>2. IInv /\ [Next]_vars => [\A u \in User : Cool(u)]_vars
  BY <1>1
<1>. QED
  BY <1>2, Invariant, PTL DEF Spec, Cooled

\* What the watchlist keeps, shows and answers was found by the newest check that
\* found it: watchlistItem and the refresh route of src/watchlist.js.
THEOREM OffersStayTrue == Spec => []OffersAreTrue
BY TypeCorrect, OldListingsStayOld, FreshOffersFirst, PricesKeepUp, AnswersAreChecked, PTL DEF OffersAreTrue

\* Requests keep to the cooldown and checks keep the time of availability.
THEOREM ChecksKeepSpace == Spec => ChecksAreSpaced
BY RequestsCool, AvailabilityLasts DEF ChecksAreSpaced

HIDE ItemsAssumption DEF Moment

--------------------------------------------------------------------------------
(* Lookups at Pick n Pay: every step of a lookup keeps PnpInv. *)

\* The parts of the type invariant that say what is what.
PnpTyped ==
  /\ configured \in {"no", "official", "other"} /\ hint \in BOOLEAN /\ apiKey \in BOOLEAN
  /\ left \in 0..Budget /\ aborted \in BOOLEAN
  /\ stage \in Pnp!Source \cup {"new", "ended"}
  /\ articles \in 0..MaxArticles /\ detailing \in BOOLEAN /\ searched \in BOOLEAN
  /\ browser \in {"none", "launching", "open", "closed"}
  /\ task \in [1..2 -> [state : {"idle", "reading", "detail", "done", "failed"}, articles : 0..MaxArticles]]
  /\ pnpFound \in [candidate : Pnp!Candidate, source : Pnp!Source] \cup {None}
  /\ answer \in {"waiting", "unavailable", "found"} /\ late \in BOOLEAN

\* A find that may be given to the caller.
Exactly(f) ==
  /\ f.candidate.exact /\ f.candidate.price = "usable"
  /\ Pnp!Official(f.source) => f.candidate.store # "other"

\* What was found is exact; articles belong to a search; a browser is only there once its
\* turn has come, and only when the search by EAN gave no answer; whoever was answered has
\* been aborted.
PnpWork ==
  /\ pnpFound # None => Exactly(pnpFound) /\ stage \in {"browser", "ended"}
  /\ articles > 0 => Pnp!Official(stage) /\ stage # "browser"
  /\ detailing => articles > 0
  /\ browser = "launching" => stage = "browser"
  /\ stage \in {"new", "ean", "name", "configured"} => browser = "none"
  /\ stage = "new" => ~searched
  /\ browser # "none" => ~searched
  /\ answer # "waiting" => aborted
  /\ answer = "found" => pnpFound # None /\ stage = "ended"
  /\ ~late

PnpInv == PnpTyped /\ PnpWork

\* The work goes on with a source it may try, in the order of the sources.
LEMMA FromIs ==
  ASSUME NEW n \in 1..5, NEW a
  PROVE  Pnp!From(n, a) = "ended" \/ \E k \in n..4 : Pnp!From(n, a) = Pnp!Order[k] /\ Pnp!MayTry(Pnp!Order[k], a)
<1> DEFINE open == {k \in n..4 : Pnp!MayTry(Pnp!Order[k], a)}
<1>1. ASSUME open # {} PROVE \E k \in open : \A j \in open : k <= j
  <2>1. open \subseteq 1..4
    OBVIOUS
  <2> HIDE DEF open
  <2>2. CASE 1 \in open
    BY <2>1, <2>2
  <2>3. CASE 1 \notin open /\ 2 \in open
    BY <2>1, <2>3
  <2>4. CASE 1 \notin open /\ 2 \notin open /\ 3 \in open
    BY <2>1, <2>4
  <2>5. CASE 1 \notin open /\ 2 \notin open /\ 3 \notin open
    <3>1. PICK m \in open : m \in 1..4
      BY <1>1, <2>1
    <3>2. \A j \in open : j = 4
      BY <2>1, <2>5
    <3> QED
      BY <3>1, <3>2
  <2> QED
    BY <2>2, <2>3, <2>4, <2>5
<1>2. CASE open = {}
  BY <1>2 DEF Pnp!From
<1>3. CASE open # {}
  <2>1. PICK k \in open : k = (CHOOSE m \in open : \A j \in open : m <= j)
    BY <1>1, <1>3
  <2>2. Pnp!From(n, a) = Pnp!Order[k]
    BY <2>1, <1>3 DEF Pnp!From
  <2> QED
    BY <2>2
<1> QED
  BY <1>2, <1>3

LEMMA AfterIs ==
  ASSUME PnpTyped, NEW s \in Pnp!Source, NEW a \in BOOLEAN
  PROVE  /\ Pnp!After(s, a) \in {"name", "browser", "provider", "ended"}
         /\ Pnp!After(s, a) # "ended" => ~aborted
         /\ Pnp!After(s, a) = "browser" => ~a /\ s \in {"ean", "name"}
         /\ Pnp!After(s, a) = "name" => s = "ean"
<1>1. /\ Pnp!Order[1] = "ean" /\ Pnp!Order[2] = "name" /\ Pnp!Order[3] = "browser" /\ Pnp!Order[4] = "provider"
      /\ \A k \in 1..4 : k = 1 \/ k = 2 \/ k = 3 \/ k = 4
  BY DEF Pnp!Order
<1>2. \A n \in 1..4 : Pnp!MayTry(Pnp!Order[n], a) => ~aborted /\ (n = 3 => ~a)
  BY <1>1 DEF Pnp!MayTry
<1>3. ASSUME NEW k \in 1..4, s = Pnp!Order[k]
      PROVE  Pnp!After(s, a) = Pnp!From(1 + k, a)
  <2>1. (CHOOSE m \in 1..4 : Pnp!Order[m] = s) = k
    BY <1>1, <1>3
  <2>2. s # "configured"
    BY <1>1, <1>3
  <2> QED
    BY <2>1, <2>2 DEF Pnp!After
<1>4. CASE s = "configured"
  BY <1>4 DEF Pnp!After
<1>5. ASSUME NEW k \in 1..4, s = Pnp!Order[k]
      PROVE  Pnp!After(s, a) = "ended" \/ \E m \in (1 + k)..4 : Pnp!After(s, a) = Pnp!Order[m] /\ ~aborted /\ (m = 3 => ~a)
  <2>1. 1 + k \in 1..5
    OBVIOUS
  <2>2. Pnp!After(s, a) = Pnp!From(1 + k, a)
    BY <1>3, <1>5
  <2> QED
    BY <1>2, <2>1, <2>2, FromIs
<1>6. CASE s # "configured"
  <2>1. PICK k \in 1..4 : s = Pnp!Order[k]
    BY <1>1, <1>6 DEF Pnp!Source
  <2> QED
    BY <1>1, <1>5, <2>1
<1> QED
  BY <1>4, <1>6

LEMMA FirstIs ==
  ASSUME PnpTyped
  PROVE  /\ Pnp!From(1, FALSE) \in {"ean", "name", "browser", "provider", "ended"}
         /\ Pnp!From(1, FALSE) # "ended" => ~aborted
<1>1. /\ Pnp!Order[1] = "ean" /\ Pnp!Order[2] = "name" /\ Pnp!Order[3] = "browser" /\ Pnp!Order[4] = "provider"
      /\ \A k \in 1..4 : k = 1 \/ k = 2 \/ k = 3 \/ k = 4
  BY DEF Pnp!Order
<1>2. \A n \in 1..4 : Pnp!MayTry(Pnp!Order[n], FALSE) => ~aborted
  BY <1>1 DEF Pnp!MayTry
<1>3. Pnp!From(1, FALSE) = "ended" \/ \E k \in 1..4 : Pnp!From(1, FALSE) = Pnp!Order[k] /\ Pnp!MayTry(Pnp!Order[k], FALSE)
  <2>1. 1 \in 1..5
    OBVIOUS
  <2>2. \A a : Pnp!From(1, a) = "ended" \/ \E k \in 1..4 : Pnp!From(1, a) = Pnp!Order[k] /\ Pnp!MayTry(Pnp!Order[k], a)
    BY <2>1, FromIs, Zenon
  <2> QED
    BY <2>2, Zenon
<1> QED
  BY <1>1, <1>2, <1>3

\* What entering a source, or ending, sets.
LEMMA EnterIs ==
  ASSUME Pnp!Assumptions, PnpTyped, NEW s \in Pnp!Source \cup {"ended"}, Pnp!Enter(s)
  PROVE  /\ stage' \in Pnp!Source \cup {"new", "ended"} /\ articles' \in 0..MaxArticles
         /\ detailing' \in BOOLEAN /\ late' \in BOOLEAN
         /\ browser' \in {"none", "launching", "open", "closed"}
<1>1. articles' \in 0..MaxArticles
  BY DEF Pnp!Assumptions, Pnp!Enter
<1>2. late' \in BOOLEAN /\ detailing' \in BOOLEAN
  BY DEF PnpTyped, Pnp!Enter
<1>3. browser' \in {"none", "launching", "open", "closed"}
  BY DEF PnpTyped, Pnp!Enter
<1>4. stage' \in Pnp!Source \cup {"new", "ended"}
  BY DEF Pnp!Enter
<1> QED
  BY <1>1, <1>2, <1>3, <1>4

\* What a source has found is exact, usable and, of the store's own source, not another's.
LEMMA FoundIs ==
  ASSUME NEW s \in Pnp!Source, NEW p \in SUBSET Pnp!Candidate, NEW f \in Pnp!Found(s, p)
  PROVE  /\ f \in [candidate : Pnp!Candidate, source : Pnp!Source]
         /\ f.source = s /\ Exactly(f)
BY DEF Pnp!Found, Pnp!Verified, Pnp!Usable, Exactly

LEMMA OwnSources ==
  /\ \A s : Pnp!Official(s) => s \in Pnp!Source
  /\ ~Pnp!Official("ended") /\ ~Pnp!Official("new") /\ ~Pnp!Official("provider")
BY DEF Pnp!Official, Pnp!Source

LEMMA PnpStartKeeps ==
  ASSUME Pnp!Assumptions, PnpInv, Pnp!Start
  PROVE  PnpInv'
<1> DEFINE s == IF configured # "no" THEN (IF aborted THEN "ended" ELSE "configured") ELSE Pnp!From(1, FALSE)
<1>1. /\ stage = "new" /\ Pnp!Enter(s)
      /\ Pnp!config' = Pnp!config /\ left' = left /\ aborted' = aborted /\ searched' = searched
      /\ task' = task /\ pnpFound' = pnpFound /\ answer' = answer
  BY DEF Pnp!Start
<1>2. /\ s \in {"configured", "ean", "name", "browser", "provider", "ended"}
      /\ s # "ended" => ~aborted
  BY FirstIs DEF PnpInv
<1> HIDE DEF s
<1>3. PnpTyped'
  BY <1>1, <1>2, EnterIs DEF PnpInv, PnpTyped, Pnp!Source, Pnp!config
<1>4. PnpWork'
  BY <1>1, <1>2 DEF PnpInv, PnpTyped, PnpWork, Exactly, Pnp!Official, Pnp!config, Pnp!Enter
<1> QED
  BY <1>3, <1>4 DEF PnpInv

LEMMA PnpReceiveKeeps ==
  ASSUME Pnp!Assumptions, PnpInv, NEW p \in SUBSET Pnp!Candidate, Pnp!Receive(p)
  PROVE  PnpInv'
<1> DEFINE s == Pnp!After(stage, searched')
<1>1. /\ stage \in {"ean", "name", "provider", "configured"} /\ articles = 0
      /\ searched' = (searched \/ stage = "ean")
      /\ Pnp!config' = Pnp!config /\ left' = left /\ aborted' = aborted /\ task' = task /\ answer' = answer
  BY DEF Pnp!Receive, Pnp!Source
<1>2. searched' \in BOOLEAN /\ stage \in Pnp!Source
  BY <1>1 DEF PnpInv, PnpTyped, Pnp!Source
<1>3. /\ s \in {"name", "browser", "provider", "ended"} /\ (s # "ended" => ~aborted)
      /\ s = "browser" => ~searched' /\ stage \in {"ean", "name"}
      /\ s = "name" => stage = "ean"
  BY <1>2, AfterIs DEF PnpInv
<1>4. \/ \E f \in Pnp!Found(stage, p) : pnpFound' = f /\ Pnp!Enter("ended")
      \/ pnpFound' = pnpFound /\ Pnp!Enter(s)
      \/ /\ pnpFound' = pnpFound /\ Pnp!Official(stage) /\ articles' \in 1..MaxArticles
         /\ stage' = stage /\ detailing' = detailing /\ browser' = browser /\ late' = late
  BY DEF Pnp!Receive, Pnp!Conclude
<1> HIDE DEF s
<1>5. CASE \E f \in Pnp!Found(stage, p) : pnpFound' = f /\ Pnp!Enter("ended")
  <2>1. PICK f \in Pnp!Found(stage, p) : pnpFound' = f /\ Pnp!Enter("ended")
    BY <1>5
  <2>2. f \in [candidate : Pnp!Candidate, source : Pnp!Source] /\ Exactly(f)
    BY <1>2, FoundIs
  <2>3. Exactly(f)'
    BY <1>1, <2>2 DEF Exactly, Pnp!Official, Pnp!config
  <2>4. PnpTyped'
    BY <1>1, <1>2, <2>1, <2>2, EnterIs DEF PnpInv, PnpTyped, Pnp!Source, Pnp!config
  <2>5. PnpWork'
    BY <1>1, <2>1, <2>3 DEF PnpInv, PnpTyped, PnpWork, Exactly, Pnp!Official, Pnp!config, Pnp!Enter
  <2> QED
    BY <2>4, <2>5 DEF PnpInv
<1>6. CASE pnpFound' = pnpFound /\ Pnp!Enter(s)
  <2>1. PnpTyped'
    BY <1>1, <1>2, <1>3, <1>6, EnterIs DEF PnpInv, PnpTyped, Pnp!Source, Pnp!config
  <2>2. PnpWork'
    BY <1>1, <1>3, <1>6 DEF PnpInv, PnpTyped, PnpWork, Exactly, Pnp!Official, Pnp!config, Pnp!Enter
  <2> QED
    BY <2>1, <2>2 DEF PnpInv
<1>7. CASE /\ pnpFound' = pnpFound /\ Pnp!Official(stage) /\ articles' \in 1..MaxArticles
           /\ stage' = stage /\ detailing' = detailing /\ browser' = browser /\ late' = late
  <2>1. articles' \in 0..MaxArticles
    BY <1>7 DEF Pnp!Assumptions
  <2>2. PnpTyped'
    BY <1>1, <1>2, <1>7, <2>1 DEF PnpInv, PnpTyped, Pnp!config
  <2>3. PnpWork'
    BY <1>1, <1>7 DEF PnpInv, PnpTyped, PnpWork, Exactly, Pnp!Official, Pnp!config
  <2> QED
    BY <2>2, <2>3 DEF PnpInv
<1> QED
  BY <1>4, <1>5, <1>6, <1>7

LEMMA PnpNoPayloadKeeps ==
  ASSUME Pnp!Assumptions, PnpInv, Pnp!NoPayload
  PROVE  PnpInv'
<1>1. PnpTyped'
  BY AfterIs, OwnSources DEF Pnp!Assumptions, PnpInv, PnpTyped, PnpWork, Pnp!Source, Pnp!config, Pnp!NoPayload, Pnp!Enter
<1>2. PnpWork'
  BY AfterIs, OwnSources DEF Pnp!Assumptions, PnpInv, PnpTyped, PnpWork, Pnp!Source, Exactly, Pnp!Official, Pnp!config, Pnp!NoPayload, Pnp!Enter
<1> QED
  BY <1>1, <1>2 DEF PnpInv

LEMMA PnpAskArticleKeeps ==
  ASSUME Pnp!Assumptions, PnpInv, Pnp!AskArticle
  PROVE  PnpInv'
<1> DEFINE s == Pnp!After(stage, searched)
<1>1. /\ articles > 0 /\ ~detailing /\ Pnp!config' = Pnp!config /\ left' = left /\ aborted' = aborted
      /\ searched' = searched /\ task' = task /\ pnpFound' = pnpFound /\ answer' = answer
  BY DEF Pnp!AskArticle
<1>2. \/ /\ ~aborted /\ detailing' = TRUE /\ late' = (late \/ answer # "waiting")
         /\ stage' = stage /\ articles' = articles /\ browser' = browser
      \/ Pnp!Enter(s)
  BY DEF Pnp!AskArticle
<1>3. stage \in {"ean", "name", "configured"} /\ searched \in BOOLEAN /\ stage \in Pnp!Source
  BY <1>1 DEF PnpInv, PnpTyped, PnpWork, Pnp!Official, Pnp!Source
<1>4. /\ s \in {"name", "browser", "provider", "ended"} /\ (s # "ended" => ~aborted)
      /\ s = "browser" => ~searched /\ stage \in {"ean", "name"}
      /\ s = "name" => stage = "ean"
  BY <1>3, AfterIs DEF PnpInv
<1> HIDE DEF s
<1>5. CASE Pnp!Enter(s)
  <2>1. PnpTyped'
    BY <1>1, <1>4, <1>5, EnterIs DEF PnpInv, PnpTyped, Pnp!Source, Pnp!config
  <2>2. PnpWork'
    BY <1>1, <1>3, <1>4, <1>5 DEF PnpInv, PnpTyped, PnpWork, Exactly, Pnp!Official, Pnp!config, Pnp!Enter
  <2> QED
    BY <2>1, <2>2 DEF PnpInv
<1>6. CASE /\ ~aborted /\ detailing' = TRUE /\ late' = (late \/ answer # "waiting")
           /\ stage' = stage /\ articles' = articles /\ browser' = browser
  <2>1. PnpTyped'
    BY <1>1, <1>6 DEF PnpInv, PnpTyped, Pnp!config
  <2>2. PnpWork'
    BY <1>1, <1>3, <1>6 DEF PnpInv, PnpTyped, PnpWork, Exactly, Pnp!Official, Pnp!config
  <2> QED
    BY <2>1, <2>2 DEF PnpInv
<1> QED
  BY <1>2, <1>5, <1>6

LEMMA PnpArticleKeeps ==
  ASSUME Pnp!Assumptions, PnpInv, NEW p \in SUBSET Pnp!Candidate, Pnp!Article(p)
  PROVE  PnpInv'
<1> DEFINE s == Pnp!After(stage, searched)
<1>1. /\ detailing /\ Pnp!config' = Pnp!config /\ left' = left /\ aborted' = aborted
      /\ searched' = searched /\ task' = task /\ answer' = answer
  BY DEF Pnp!Article
<1>2. \/ \E f \in Pnp!Found(stage, p) : pnpFound' = f /\ Pnp!Enter("ended")
      \/ pnpFound' = pnpFound /\ Pnp!Enter(s)
      \/ /\ pnpFound' = pnpFound /\ articles > 1 /\ articles' = articles - 1 /\ detailing' = FALSE
         /\ stage' = stage /\ browser' = browser /\ late' = late
  BY DEF Pnp!Article
<1>3. stage \in {"ean", "name", "configured"} /\ searched \in BOOLEAN /\ stage \in Pnp!Source
  BY <1>1 DEF PnpInv, PnpTyped, PnpWork, Pnp!Official, Pnp!Source
<1>4. /\ s \in {"name", "browser", "provider", "ended"} /\ (s # "ended" => ~aborted)
      /\ s = "browser" => ~searched /\ stage \in {"ean", "name"}
      /\ s = "name" => stage = "ean"
  BY <1>3, AfterIs DEF PnpInv
<1> HIDE DEF s
<1>5. CASE \E f \in Pnp!Found(stage, p) : pnpFound' = f /\ Pnp!Enter("ended")
  <2>1. PICK f \in Pnp!Found(stage, p) : pnpFound' = f /\ Pnp!Enter("ended")
    BY <1>5
  <2>2. f \in [candidate : Pnp!Candidate, source : Pnp!Source] /\ Exactly(f)
    BY <1>3, FoundIs
  <2>3. Exactly(f)'
    BY <1>1, <2>2 DEF Exactly, Pnp!Official, Pnp!config
  <2>4. PnpTyped'
    BY <1>1, <1>3, <2>1, <2>2, EnterIs DEF PnpInv, PnpTyped, Pnp!Source, Pnp!config
  <2>5. PnpWork'
    BY <1>1, <1>3, <2>1, <2>3 DEF PnpInv, PnpTyped, PnpWork, Exactly, Pnp!Official, Pnp!config, Pnp!Enter
  <2> QED
    BY <2>4, <2>5 DEF PnpInv
<1>6. CASE pnpFound' = pnpFound /\ Pnp!Enter(s)
  <2>1. PnpTyped'
    BY <1>1, <1>4, <1>6, EnterIs DEF PnpInv, PnpTyped, Pnp!Source, Pnp!config
  <2>2. PnpWork'
    BY <1>1, <1>3, <1>4, <1>6 DEF PnpInv, PnpTyped, PnpWork, Exactly, Pnp!Official, Pnp!config, Pnp!Enter
  <2> QED
    BY <2>1, <2>2 DEF PnpInv
<1>7. CASE /\ pnpFound' = pnpFound /\ articles > 1 /\ articles' = articles - 1 /\ detailing' = FALSE
           /\ stage' = stage /\ browser' = browser /\ late' = late
  <2>1. articles' \in 0..MaxArticles
    BY <1>7 DEF Pnp!Assumptions, PnpInv, PnpTyped
  <2>2. PnpTyped'
    BY <1>1, <1>3, <1>7, <2>1 DEF PnpInv, PnpTyped, Pnp!config
  <2>3. PnpWork'
    BY <1>1, <1>3, <1>7 DEF PnpInv, PnpTyped, PnpWork, Exactly, Pnp!Official, Pnp!config
  <2> QED
    BY <2>2, <2>3 DEF PnpInv
<1> QED
  BY <1>2, <1>5, <1>6, <1>7

LEMMA PnpLaunchFailsKeeps ==
  ASSUME Pnp!Assumptions, PnpInv, Pnp!LaunchFails
  PROVE  PnpInv'
<1>1. PnpTyped'
  BY AfterIs, OwnSources DEF Pnp!Assumptions, PnpInv, PnpTyped, PnpWork, Pnp!Source, Pnp!config, Pnp!LaunchFails, Pnp!LeaveBrowser
<1>2. PnpWork'
  BY AfterIs, OwnSources DEF Pnp!Assumptions, PnpInv, PnpTyped, PnpWork, Pnp!Source, Exactly, Pnp!Official, Pnp!config, Pnp!LaunchFails, Pnp!LeaveBrowser
<1> QED
  BY <1>1, <1>2 DEF PnpInv

LEMMA PnpLaunchedKeeps ==
  ASSUME Pnp!Assumptions, PnpInv, Pnp!Launched
  PROVE  PnpInv'
<1>1. PnpTyped'
  BY OwnSources DEF Pnp!Assumptions, PnpInv, PnpTyped, PnpWork, Pnp!Source, Pnp!config, Pnp!Launched
<1>2. PnpWork'
  BY OwnSources DEF Pnp!Assumptions, PnpInv, PnpTyped, PnpWork, Pnp!Source, Exactly, Pnp!Official, Pnp!config, Pnp!Launched
<1> QED
  BY <1>1, <1>2 DEF PnpInv

LEMMA PnpSeeResponseKeeps ==
  ASSUME Pnp!Assumptions, PnpInv, NEW i \in 1..2, Pnp!SeeResponse(i)
  PROVE  PnpInv'
<1>1. PnpTyped'
  BY OwnSources DEF Pnp!Assumptions, PnpInv, PnpTyped, PnpWork, Pnp!Source, Pnp!config, Pnp!SeeResponse, Pnp!Idle
<1>2. PnpWork'
  BY OwnSources DEF Pnp!Assumptions, PnpInv, PnpTyped, PnpWork, Pnp!Source, Exactly, Pnp!Official, Pnp!config, Pnp!SeeResponse, Pnp!Idle
<1> QED
  BY <1>1, <1>2 DEF PnpInv

LEMMA PnpReadKeeps ==
  ASSUME Pnp!Assumptions, PnpInv, NEW i \in 1..2, NEW p \in SUBSET Pnp!Candidate, Pnp!Read(i, p)
  PROVE  PnpInv'
<1>1. PnpTyped'
  BY OwnSources, FoundIs DEF Pnp!Assumptions, PnpInv, PnpTyped, PnpWork, Pnp!Source, Pnp!config, Pnp!Read, Pnp!Inspected
<1>2. PnpWork'
  BY OwnSources, FoundIs DEF Pnp!Assumptions, PnpInv, PnpTyped, PnpWork, Pnp!Source, Exactly, Pnp!Official, Pnp!config, Pnp!Read, Pnp!Inspected
<1> QED
  BY <1>1, <1>2 DEF PnpInv

LEMMA PnpUnreadableKeeps ==
  ASSUME Pnp!Assumptions, PnpInv, NEW i \in 1..2, Pnp!Unreadable(i)
  PROVE  PnpInv'
<1>1. PnpTyped'
  BY OwnSources DEF Pnp!Assumptions, PnpInv, PnpTyped, PnpWork, Pnp!Source, Pnp!config, Pnp!Unreadable
<1>2. PnpWork'
  BY OwnSources DEF Pnp!Assumptions, PnpInv, PnpTyped, PnpWork, Pnp!Source, Exactly, Pnp!Official, Pnp!config, Pnp!Unreadable
<1> QED
  BY <1>1, <1>2 DEF PnpInv

LEMMA PnpTaskArticleKeeps ==
  ASSUME Pnp!Assumptions, PnpInv, NEW i \in 1..2, NEW p \in SUBSET Pnp!Candidate, Pnp!TaskArticle(i, p)
  PROVE  PnpInv'
<1>1. PnpTyped'
  BY OwnSources, FoundIs DEF Pnp!Assumptions, PnpInv, PnpTyped, PnpWork, Pnp!Source, Pnp!config, Pnp!TaskArticle, Pnp!Inspected
<1>2. PnpWork'
  BY OwnSources, FoundIs DEF Pnp!Assumptions, PnpInv, PnpTyped, PnpWork, Pnp!Source, Exactly, Pnp!Official, Pnp!config, Pnp!TaskArticle, Pnp!Inspected
<1> QED
  BY <1>1, <1>2 DEF PnpInv

LEMMA PnpBrowserDoneKeeps ==
  ASSUME Pnp!Assumptions, PnpInv, Pnp!BrowserDone
  PROVE  PnpInv'
<1>1. PnpTyped'
  BY AfterIs, OwnSources DEF Pnp!Assumptions, PnpInv, PnpTyped, PnpWork, Pnp!Source, Pnp!config, Pnp!BrowserDone, Pnp!LeaveBrowser
<1>2. PnpWork'
  BY AfterIs, OwnSources DEF Pnp!Assumptions, PnpInv, PnpTyped, PnpWork, Pnp!Source, Exactly, Pnp!Official, Pnp!config, Pnp!BrowserDone, Pnp!LeaveBrowser
<1> QED
  BY <1>1, <1>2 DEF PnpInv

LEMMA PnpBrowserThrowsKeeps ==
  ASSUME Pnp!Assumptions, PnpInv, Pnp!BrowserThrows
  PROVE  PnpInv'
<1>1. PnpTyped'
  BY AfterIs, OwnSources DEF Pnp!Assumptions, PnpInv, PnpTyped, PnpWork, Pnp!Source, Pnp!config, Pnp!BrowserThrows, Pnp!LeaveBrowser
<1>2. PnpWork'
  BY AfterIs, OwnSources DEF Pnp!Assumptions, PnpInv, PnpTyped, PnpWork, Pnp!Source, Exactly, Pnp!Official, Pnp!config, Pnp!BrowserThrows, Pnp!LeaveBrowser
<1> QED
  BY <1>1, <1>2 DEF PnpInv

LEMMA PnpTickKeeps ==
  ASSUME Pnp!Assumptions, PnpInv, Pnp!Tick
  PROVE  PnpInv'
<1>1. PnpTyped'
  BY OwnSources DEF Pnp!Assumptions, PnpInv, PnpTyped, PnpWork, Pnp!Source, Pnp!config, Pnp!Tick, Pnp!Closed
<1>2. PnpWork'
  BY OwnSources DEF Pnp!Assumptions, PnpInv, PnpTyped, PnpWork, Pnp!Source, Exactly, Pnp!Official, Pnp!config, Pnp!Tick, Pnp!Closed
<1> QED
  BY <1>1, <1>2 DEF PnpInv

LEMMA PnpCancelKeeps ==
  ASSUME Pnp!Assumptions, PnpInv, Pnp!Cancel
  PROVE  PnpInv'
<1>1. PnpTyped'
  BY OwnSources DEF Pnp!Assumptions, PnpInv, PnpTyped, PnpWork, Pnp!Source, Pnp!config, Pnp!Cancel, Pnp!Closed
<1>2. PnpWork'
  BY OwnSources DEF Pnp!Assumptions, PnpInv, PnpTyped, PnpWork, Pnp!Source, Exactly, Pnp!Official, Pnp!config, Pnp!Cancel, Pnp!Closed
<1> QED
  BY <1>1, <1>2 DEF PnpInv

LEMMA PnpAnswerKeeps ==
  ASSUME Pnp!Assumptions, PnpInv, Pnp!Answer
  PROVE  PnpInv'
<1>1. PnpTyped'
  BY OwnSources DEF Pnp!Assumptions, PnpInv, PnpTyped, PnpWork, Pnp!Source, Pnp!config, Pnp!Answer, Pnp!Closed
<1>2. PnpWork'
  BY OwnSources DEF Pnp!Assumptions, PnpInv, PnpTyped, PnpWork, Pnp!Source, Exactly, Pnp!Official, Pnp!config, Pnp!Answer, Pnp!Closed
<1> QED
  BY <1>1, <1>2 DEF PnpInv

LEMMA PnpInit == ASSUME Pnp!Assumptions, Pnp!Init PROVE PnpInv
<1>1. PnpTyped
  <2>1. task \in [1..2 -> [state : {"idle", "reading", "detail", "done", "failed"}, articles : 0..MaxArticles]]
    BY DEF Pnp!Assumptions, Pnp!Init, Pnp!Idle
  <2>2. left \in 0..Budget /\ articles \in 0..MaxArticles
    BY DEF Pnp!Assumptions, Pnp!Init
  <2>3. /\ aborted \in BOOLEAN /\ detailing \in BOOLEAN /\ searched \in BOOLEAN /\ late \in BOOLEAN
        /\ stage = "new" /\ browser = "none" /\ pnpFound = None /\ answer = "waiting"
        /\ configured \in {"no", "official", "other"} /\ hint \in BOOLEAN /\ apiKey \in BOOLEAN
    BY DEF Pnp!Init
  <2> QED
    BY <2>1, <2>2, <2>3 DEF PnpTyped
<1>2. PnpWork
  BY DEF Pnp!Init, PnpWork
<1> QED
  BY <1>1, <1>2 DEF PnpInv

LEMMA PnpNext ==
  ASSUME Pnp!Assumptions, PnpInv, [Pnp!Next]_(Pnp!vars)
  PROVE  PnpInv'
<1>1. CASE UNCHANGED Pnp!vars
  BY <1>1 DEF PnpInv, PnpTyped, PnpWork, Exactly, Pnp!Official, Pnp!vars, Pnp!config, Pnp!work
<1>2. \A p \in Pnp!Payloads : p \in SUBSET Pnp!Candidate
  BY DEF Pnp!Payloads, Pnp!Offered
<1>3. CASE Pnp!Start \/ Pnp!NoPayload \/ Pnp!AskArticle \/ Pnp!LaunchFails \/ Pnp!Launched \/ Pnp!BrowserDone \/ Pnp!BrowserThrows
  BY <1>3, PnpStartKeeps, PnpNoPayloadKeeps, PnpAskArticleKeeps, PnpLaunchFailsKeeps, PnpLaunchedKeeps, PnpBrowserDoneKeeps, PnpBrowserThrowsKeeps
<1>4. CASE \E p \in Pnp!Payloads : Pnp!Receive(p) \/ Pnp!Article(p) \/ \E i \in 1..2 : Pnp!Read(i, p) \/ Pnp!TaskArticle(i, p)
  BY <1>2, <1>4, PnpReceiveKeeps, PnpArticleKeeps, PnpReadKeeps, PnpTaskArticleKeeps
<1>5. CASE \E i \in 1..2 : Pnp!SeeResponse(i) \/ Pnp!Unreadable(i)
  BY <1>5, PnpSeeResponseKeeps, PnpUnreadableKeeps
<1>6. CASE Pnp!Tick \/ Pnp!Cancel \/ Pnp!Answer
  BY <1>6, PnpTickKeeps, PnpCancelKeeps, PnpAnswerKeeps
<1> QED
  BY <1>1, <1>3, <1>4, <1>5, <1>6 DEF Pnp!Next

LEMMA PnpImplied ==
  ASSUME PnpInv
  PROVE  Pnp!TypeOK /\ Pnp!OnlyExactProducts /\ Pnp!NoWastedWork
<1>1. Pnp!TypeOK
  BY DEF PnpInv, PnpTyped, PnpWork, Pnp!TypeOK
<1>2. Pnp!OnlyExactProducts
  BY DEF PnpInv, PnpTyped, PnpWork, Exactly, Pnp!OnlyExactProducts
<1>3. Pnp!NoWastedWork
  BY DEF PnpInv, PnpTyped, PnpWork, Pnp!NoWastedWork
<1> QED
  BY <1>1, <1>2, <1>3

--------------------------------------------------------------------------------
(* Lookups at retailers whose pages are read: every step keeps PageInv. *)

\* The steps of a lookup belong to its retailer, and what it has seen or returns is exact.
PageTyped ==
  /\ adapter \in {"woolworths", "checkers", "spar"} /\ setup \in {"proxy", "parse", "keyless", "off"}
  /\ step \in {"new", "document", "provider", "launch", "goto", "page", "closing", "ended"}
  /\ seen \subseteq Page!Exact(Page!Product) /\ pageBrowser \in {"none", "open", "closed"}
  /\ pageBrowser = "open" <=> step \in {"goto", "page", "closing"}
StepsOwned ==
  /\ step = "document" => adapter = "woolworths"
  /\ step = "provider" => adapter = "checkers" /\ setup = "parse"
  /\ step \in {"launch", "goto", "page"} => adapter = "woolworths" \/ (adapter = "checkers" /\ setup = "proxy")
ExactResult(r) ==
  /\ r.product.priced
  /\ r.place # "card" => r.product.id = "same"
  /\ adapter = "woolworths" \/ (adapter = "checkers" /\ setup \in {"proxy", "parse"})
ResultOK == result = None \/ (result \in Page!Result /\ ExactResult(result) /\ step \in {"closing", "ended"})
\* What is written was won, and is what the lookup returned.
OutcomeOK ==
  /\ expired \in BOOLEAN /\ product \in BOOLEAN
  /\ race \in {"waiting", "won", "lost"} /\ told \in {None, "available", "unavailable"}
  /\ price = None \/ (price = result /\ product)
  /\ race = "won" => step = "ended"
  /\ race # "won" => ~product /\ price = None /\ told # "available"
  /\ race = "won" /\ told # "unavailable" => result # None
  /\ told = "available" => price # None

PageInv == PageTyped /\ StepsOwned /\ ResultOK /\ OutcomeOK

LEMMA PageStartKeeps ==
  ASSUME Page!Assumptions, PageInv, Page!Start
  PROVE  PageInv'
<1>1. PageTyped'
  BY DEF PageInv, PageTyped, Page!Exact, Page!Start, Page!outer
<1>2. StepsOwned'
  <2>1. /\ adapter \in {"woolworths", "checkers", "spar"} /\ setup \in {"proxy", "parse", "keyless", "off"}
        /\ adapter' = adapter /\ setup' = setup
    BY DEF PageInv, PageTyped, Page!Start
  <2>2. ASSUME adapter = "woolworths" PROVE step' = "document"
    BY <2>1, <2>2 DEF Page!Start
  <2>3. ASSUME adapter = "spar" PROVE step' = "ended"
    BY <2>1, <2>3 DEF Page!Start
  <2>4. ASSUME adapter = "checkers", setup = "proxy" PROVE step' = "launch"
    BY <2>4 DEF Page!Start
  <2>5. ASSUME adapter = "checkers", setup = "parse" PROVE step' = "provider"
    BY <2>5 DEF Page!Start
  <2>6. ASSUME adapter = "checkers", setup \in {"keyless", "off"} PROVE step' = "ended"
    BY <2>6 DEF Page!Start
  <2> QED
    BY <2>1, <2>2, <2>3, <2>4, <2>5, <2>6 DEF StepsOwned
<1>3. ResultOK'
  BY DEF Page!Assumptions, PageInv, PageTyped, StepsOwned, ResultOK, ExactResult, Page!Exact, Page!Result, Page!Product, Page!Place, Page!Start, Page!outer
<1>4. OutcomeOK'
  BY DEF Page!Assumptions, PageInv, PageTyped, ResultOK, OutcomeOK, Page!Start, Page!outer
<1> QED
  BY <1>1, <1>2, <1>3, <1>4 DEF PageInv

LEMMA PageThrowKeeps ==
  ASSUME Page!Assumptions, PageInv, Page!Throw
  PROVE  PageInv'
<1>1. PageTyped'
  BY DEF PageInv, PageTyped, Page!Exact, Page!Throw, Page!Return, Page!outer
<1>2. StepsOwned'
  BY DEF PageInv, PageTyped, StepsOwned, Page!Throw, Page!Return, Page!outer
<1>3. ResultOK'
  BY DEF Page!Assumptions, PageInv, PageTyped, StepsOwned, ResultOK, ExactResult, Page!Exact, Page!Result, Page!Product, Page!Place, Page!Throw, Page!Return, Page!outer
<1>4. OutcomeOK'
  BY DEF Page!Assumptions, PageInv, PageTyped, ResultOK, OutcomeOK, Page!Throw, Page!Return, Page!outer
<1> QED
  BY <1>1, <1>2, <1>3, <1>4 DEF PageInv

LEMMA PageLaunchKeeps ==
  ASSUME Page!Assumptions, PageInv, Page!Launch
  PROVE  PageInv'
<1>1. PageTyped'
  BY DEF PageInv, PageTyped, Page!Exact, Page!Launch, Page!outer
<1>2. StepsOwned'
  BY DEF PageInv, PageTyped, StepsOwned, Page!Launch, Page!outer
<1>3. ResultOK'
  BY DEF Page!Assumptions, PageInv, PageTyped, StepsOwned, ResultOK, ExactResult, Page!Exact, Page!Result, Page!Product, Page!Place, Page!Launch, Page!outer
<1>4. OutcomeOK'
  BY DEF Page!Assumptions, PageInv, PageTyped, ResultOK, OutcomeOK, Page!Launch, Page!outer
<1> QED
  BY <1>1, <1>2, <1>3, <1>4 DEF PageInv

LEMMA PageCloseBrowserKeeps ==
  ASSUME Page!Assumptions, PageInv, Page!CloseBrowser
  PROVE  PageInv'
<1>1. PageTyped'
  BY DEF PageInv, PageTyped, Page!Exact, Page!CloseBrowser, Page!outer
<1>2. StepsOwned'
  BY DEF PageInv, PageTyped, StepsOwned, Page!CloseBrowser, Page!outer
<1>3. ResultOK'
  BY DEF Page!Assumptions, PageInv, PageTyped, StepsOwned, ResultOK, ExactResult, Page!Exact, Page!Result, Page!Product, Page!Place, Page!CloseBrowser, Page!outer
<1>4. OutcomeOK'
  BY DEF Page!Assumptions, PageInv, PageTyped, ResultOK, OutcomeOK, Page!CloseBrowser, Page!outer
<1> QED
  BY <1>1, <1>2, <1>3, <1>4 DEF PageInv

LEMMA PageGotoKeeps ==
  ASSUME Page!Assumptions, PageInv, Page!Goto
  PROVE  PageInv'
<1>1. PageTyped'
  BY DEF PageInv, PageTyped, Page!Exact, Page!Goto, Page!outer
<1>2. StepsOwned'
  BY DEF PageInv, PageTyped, StepsOwned, Page!Goto, Page!outer
<1>3. ResultOK'
  BY DEF Page!Assumptions, PageInv, PageTyped, StepsOwned, ResultOK, ExactResult, Page!Exact, Page!Result, Page!Product, Page!Place, Page!Goto, Page!outer
<1>4. OutcomeOK'
  BY DEF Page!Assumptions, PageInv, PageTyped, ResultOK, OutcomeOK, Page!Goto, Page!outer
<1> QED
  BY <1>1, <1>2, <1>3, <1>4 DEF PageInv

LEMMA PageGotoNotFoundKeeps ==
  ASSUME Page!Assumptions, PageInv, Page!GotoNotFound
  PROVE  PageInv'
<1>1. PageTyped'
  BY DEF PageInv, PageTyped, Page!Exact, Page!GotoNotFound, Page!Return, Page!outer
<1>2. StepsOwned'
  BY DEF PageInv, PageTyped, StepsOwned, Page!GotoNotFound, Page!Return, Page!outer
<1>3. ResultOK'
  BY DEF Page!Assumptions, PageInv, PageTyped, StepsOwned, ResultOK, ExactResult, Page!Exact, Page!Result, Page!Product, Page!Place, Page!GotoNotFound, Page!Return, Page!outer
<1>4. OutcomeOK'
  BY DEF Page!Assumptions, PageInv, PageTyped, ResultOK, OutcomeOK, Page!GotoNotFound, Page!Return, Page!outer
<1> QED
  BY <1>1, <1>2, <1>3, <1>4 DEF PageInv

LEMMA PageDocumentKeeps ==
  ASSUME Page!Assumptions, PageInv, NEW p \in SUBSET Page!Product, NEW q \in SUBSET Page!Product, Page!Document(p, q)
  PROVE  PageInv'
<1>1. PageTyped'
  BY DEF PageInv, PageTyped, Page!Exact, Page!Document, Page!Return, Page!Extracted, Page!Scoped, Page!outer
<1>2. StepsOwned'
  BY DEF PageInv, PageTyped, StepsOwned, Page!Document, Page!Return, Page!Extracted, Page!Scoped, Page!outer
<1>3. ResultOK'
  BY DEF Page!Assumptions, PageInv, PageTyped, StepsOwned, ResultOK, ExactResult, Page!Exact, Page!Result, Page!Product, Page!Place, Page!Document, Page!Return, Page!Extracted, Page!Scoped, Page!outer
<1>4. OutcomeOK'
  BY DEF Page!Assumptions, PageInv, PageTyped, ResultOK, OutcomeOK, Page!Document, Page!Return, Page!Extracted, Page!Scoped, Page!outer
<1> QED
  BY <1>1, <1>2, <1>3, <1>4 DEF PageInv

LEMMA PageReadPageKeeps ==
  ASSUME Page!Assumptions, PageInv, NEW p \in SUBSET Page!Product, NEW q \in SUBSET Page!Product, Page!ReadPage(p, q)
  PROVE  PageInv'
<1>1. PageTyped'
  BY DEF PageInv, PageTyped, Page!Exact, Page!ReadPage, Page!Return, Page!Extracted, Page!Scoped, Page!outer
<1>2. StepsOwned'
  BY DEF PageInv, PageTyped, StepsOwned, Page!ReadPage, Page!Return, Page!Extracted, Page!Scoped, Page!outer
<1>3. ResultOK'
  BY DEF Page!Assumptions, PageInv, PageTyped, StepsOwned, ResultOK, ExactResult, Page!Exact, Page!Result, Page!Product, Page!Place, Page!ReadPage, Page!Return, Page!Extracted, Page!Scoped, Page!outer
<1>4. OutcomeOK'
  BY DEF Page!Assumptions, PageInv, PageTyped, ResultOK, OutcomeOK, Page!ReadPage, Page!Return, Page!Extracted, Page!Scoped, Page!outer
<1> QED
  BY <1>1, <1>2, <1>3, <1>4 DEF PageInv

LEMMA PageProviderKeeps ==
  ASSUME Page!Assumptions, PageInv, NEW p \in SUBSET Page!Product, Page!Provider(p)
  PROVE  PageInv'
<1>1. PageTyped'
  BY DEF PageInv, PageTyped, Page!Exact, Page!Provider, Page!Return, Page!Exact, Page!outer
<1>2. StepsOwned'
  BY DEF PageInv, PageTyped, StepsOwned, Page!Provider, Page!Return, Page!Exact, Page!outer
<1>3. ResultOK'
  BY DEF Page!Assumptions, PageInv, PageTyped, StepsOwned, ResultOK, ExactResult, Page!Exact, Page!Result, Page!Product, Page!Place, Page!Provider, Page!Return, Page!Exact, Page!outer
<1>4. OutcomeOK'
  BY DEF Page!Assumptions, PageInv, PageTyped, ResultOK, OutcomeOK, Page!Provider, Page!Return, Page!Exact, Page!outer
<1> QED
  BY <1>1, <1>2, <1>3, <1>4 DEF PageInv

LEMMA PageSeePayloadKeeps ==
  ASSUME Page!Assumptions, PageInv, NEW p \in SUBSET Page!Product, Page!SeePayload(p)
  PROVE  PageInv'
<1>1. PageTyped'
  BY DEF PageInv, PageTyped, Page!Exact, Page!SeePayload, Page!Exact, Page!outer
<1>2. StepsOwned'
  BY DEF PageInv, PageTyped, StepsOwned, Page!SeePayload, Page!Exact, Page!outer
<1>3. ResultOK'
  BY DEF Page!Assumptions, PageInv, PageTyped, StepsOwned, ResultOK, ExactResult, Page!Exact, Page!Result, Page!Product, Page!Place, Page!SeePayload, Page!Exact, Page!outer
<1>4. OutcomeOK'
  BY DEF Page!Assumptions, PageInv, PageTyped, ResultOK, OutcomeOK, Page!SeePayload, Page!Exact, Page!outer
<1> QED
  BY <1>1, <1>2, <1>3, <1>4 DEF PageInv

LEMMA PageReadSearchKeeps ==
  ASSUME Page!Assumptions, PageInv, NEW p \in SUBSET Page!Product, Page!ReadSearch(p)
  PROVE  PageInv'
<1>1. PageTyped'
  BY DEF PageInv, PageTyped, Page!Exact, Page!ReadSearch, Page!Return, Page!Eligible, Page!Exact, Page!outer
<1>2. StepsOwned'
  BY DEF PageInv, PageTyped, StepsOwned, Page!ReadSearch, Page!Return, Page!Eligible, Page!Exact, Page!outer
<1>3. ResultOK'
  BY DEF Page!Assumptions, PageInv, PageTyped, StepsOwned, ResultOK, ExactResult, Page!Exact, Page!Result, Page!Product, Page!Place, Page!ReadSearch, Page!Return, Page!Eligible, Page!Exact, Page!outer
<1>4. OutcomeOK'
  BY DEF Page!Assumptions, PageInv, PageTyped, ResultOK, OutcomeOK, Page!ReadSearch, Page!Return, Page!Eligible, Page!Exact, Page!outer
<1> QED
  BY <1>1, <1>2, <1>3, <1>4 DEF PageInv

LEMMA PageTimerKeeps ==
  ASSUME Page!Assumptions, PageInv, Page!Timer
  PROVE  PageInv'
<1>1. PageTyped'
  BY DEF PageInv, PageTyped, Page!Exact, Page!Timer, Page!lookup
<1>2. StepsOwned'
  BY DEF PageInv, PageTyped, StepsOwned, Page!Timer, Page!lookup
<1>3. ResultOK'
  BY DEF Page!Assumptions, PageInv, PageTyped, StepsOwned, ResultOK, ExactResult, Page!Exact, Page!Result, Page!Product, Page!Place, Page!Timer, Page!lookup
<1>4. OutcomeOK'
  BY DEF Page!Assumptions, PageInv, PageTyped, ResultOK, OutcomeOK, Page!Timer, Page!lookup
<1> QED
  BY <1>1, <1>2, <1>3, <1>4 DEF PageInv

LEMMA PageLoseKeeps ==
  ASSUME Page!Assumptions, PageInv, Page!Lose
  PROVE  PageInv'
<1>1. PageTyped'
  BY DEF PageInv, PageTyped, Page!Exact, Page!Lose, Page!lookup
<1>2. StepsOwned'
  BY DEF PageInv, PageTyped, StepsOwned, Page!Lose, Page!lookup
<1>3. ResultOK'
  BY DEF Page!Assumptions, PageInv, PageTyped, StepsOwned, ResultOK, ExactResult, Page!Exact, Page!Result, Page!Product, Page!Place, Page!Lose, Page!lookup
<1>4. OutcomeOK'
  BY DEF Page!Assumptions, PageInv, PageTyped, ResultOK, OutcomeOK, Page!Lose, Page!lookup
<1> QED
  BY <1>1, <1>2, <1>3, <1>4 DEF PageInv

LEMMA PageWinKeeps ==
  ASSUME Page!Assumptions, PageInv, Page!Win
  PROVE  PageInv'
<1>1. PageTyped'
  BY DEF PageInv, PageTyped, Page!Exact, Page!Win, Page!lookup
<1>2. StepsOwned'
  BY DEF PageInv, PageTyped, StepsOwned, Page!Win, Page!lookup
<1>3. ResultOK'
  BY DEF Page!Assumptions, PageInv, PageTyped, StepsOwned, ResultOK, ExactResult, Page!Exact, Page!Result, Page!Product, Page!Place, Page!Win, Page!lookup
<1>4. OutcomeOK'
  BY DEF Page!Assumptions, PageInv, PageTyped, ResultOK, OutcomeOK, Page!Win, Page!lookup
<1> QED
  BY <1>1, <1>2, <1>3, <1>4 DEF PageInv

LEMMA PageUpsertProductKeeps ==
  ASSUME Page!Assumptions, PageInv, Page!UpsertProduct
  PROVE  PageInv'
<1>1. PageTyped'
  BY DEF PageInv, PageTyped, Page!Exact, Page!UpsertProduct, Page!lookup
<1>2. StepsOwned'
  BY DEF PageInv, PageTyped, StepsOwned, Page!UpsertProduct, Page!lookup
<1>3. ResultOK'
  BY DEF Page!Assumptions, PageInv, PageTyped, StepsOwned, ResultOK, ExactResult, Page!Exact, Page!Result, Page!Product, Page!Place, Page!UpsertProduct, Page!lookup
<1>4. OutcomeOK'
  BY DEF Page!Assumptions, PageInv, PageTyped, ResultOK, OutcomeOK, Page!UpsertProduct, Page!lookup
<1> QED
  BY <1>1, <1>2, <1>3, <1>4 DEF PageInv

LEMMA PageInsertPriceKeeps ==
  ASSUME Page!Assumptions, PageInv, Page!InsertPrice
  PROVE  PageInv'
<1>1. PageTyped'
  BY DEF PageInv, PageTyped, Page!Exact, Page!InsertPrice, Page!lookup
<1>2. StepsOwned'
  BY DEF PageInv, PageTyped, StepsOwned, Page!InsertPrice, Page!lookup
<1>3. ResultOK'
  BY DEF Page!Assumptions, PageInv, PageTyped, StepsOwned, ResultOK, ExactResult, Page!Exact, Page!Result, Page!Product, Page!Place, Page!InsertPrice, Page!lookup
<1>4. OutcomeOK'
  BY DEF Page!Assumptions, PageInv, PageTyped, ResultOK, OutcomeOK, Page!InsertPrice, Page!lookup
<1> QED
  BY <1>1, <1>2, <1>3, <1>4 DEF PageInv

LEMMA PageAvailableKeeps ==
  ASSUME Page!Assumptions, PageInv, Page!Available
  PROVE  PageInv'
<1>1. PageTyped'
  BY DEF PageInv, PageTyped, Page!Exact, Page!Available, Page!lookup
<1>2. StepsOwned'
  BY DEF PageInv, PageTyped, StepsOwned, Page!Available, Page!lookup
<1>3. ResultOK'
  BY DEF Page!Assumptions, PageInv, PageTyped, StepsOwned, ResultOK, ExactResult, Page!Exact, Page!Result, Page!Product, Page!Place, Page!Available, Page!lookup
<1>4. OutcomeOK'
  BY DEF Page!Assumptions, PageInv, PageTyped, ResultOK, OutcomeOK, Page!Available, Page!lookup
<1> QED
  BY <1>1, <1>2, <1>3, <1>4 DEF PageInv

LEMMA PagePersistFailsKeeps ==
  ASSUME Page!Assumptions, PageInv, Page!PersistFails
  PROVE  PageInv'
<1>1. PageTyped'
  BY DEF PageInv, PageTyped, Page!Exact, Page!PersistFails, Page!lookup
<1>2. StepsOwned'
  BY DEF PageInv, PageTyped, StepsOwned, Page!PersistFails, Page!lookup
<1>3. ResultOK'
  BY DEF Page!Assumptions, PageInv, PageTyped, StepsOwned, ResultOK, ExactResult, Page!Exact, Page!Result, Page!Product, Page!Place, Page!PersistFails, Page!lookup
<1>4. OutcomeOK'
  BY DEF Page!Assumptions, PageInv, PageTyped, ResultOK, OutcomeOK, Page!PersistFails, Page!lookup
<1> QED
  BY <1>1, <1>2, <1>3, <1>4 DEF PageInv

LEMMA PageInit == ASSUME Page!Assumptions, Page!Init PROVE PageInv
<1>1. PageTyped
  BY DEF Page!Init, PageTyped
<1>2. StepsOwned
  BY DEF Page!Init, StepsOwned
<1>3. ResultOK
  BY DEF Page!Init, ResultOK
<1>4. /\ expired = FALSE /\ race = "waiting" /\ product = FALSE /\ price = None /\ told = None
      /\ step = "new" /\ result = None
  BY DEF Page!Init
<1>5. OutcomeOK
  <2>1. expired \in BOOLEAN /\ product \in BOOLEAN
    BY <1>4
  <2>2. /\ race \in {"waiting", "won", "lost"} /\ told \in {None, "available", "unavailable"}
        /\ race # "won" /\ ~product /\ price = None
    BY <1>4
  <2> QED
    BY <1>4, <2>1, <2>2 DEF OutcomeOK, Page!Assumptions
<1> QED
  BY <1>1, <1>2, <1>3, <1>5 DEF PageInv

LEMMA PageNext ==
  ASSUME Page!Assumptions, PageInv, [Page!Next]_(Page!vars)
  PROVE  PageInv'
<1>1. CASE UNCHANGED Page!vars
  BY <1>1 DEF PageInv, PageTyped, StepsOwned, ResultOK, ExactResult, OutcomeOK, Page!vars, Page!lookup, Page!outer
<1>2. CASE Page!Start \/ Page!Browser \/ Page!Goto \/ Page!GotoNotFound
  BY <1>2, PageStartKeeps, PageThrowKeeps, PageLaunchKeeps, PageCloseBrowserKeeps, PageGotoKeeps, PageGotoNotFoundKeeps DEF Page!Browser
<1>3. CASE Page!Outer
  BY <1>3, PageTimerKeeps, PageLoseKeeps, PageWinKeeps, PageUpsertProductKeeps, PageInsertPriceKeeps, PageAvailableKeeps, PagePersistFailsKeeps DEF Page!Outer
<1>4. CASE \E p, q \in Page!Payloads : Page!Document(p, q) \/ Page!ReadPage(p, q)
  BY <1>4, PageDocumentKeeps, PageReadPageKeeps DEF Page!Payloads
<1>5. CASE \E p \in Page!Payloads : Page!Provider(p) \/ Page!SeePayload(p) \/ Page!ReadSearch(p)
  BY <1>5, PageProviderKeeps, PageSeePayloadKeeps, PageReadSearchKeeps DEF Page!Payloads
<1> QED
  BY <1>1, <1>2, <1>3, <1>4, <1>5 DEF Page!Next

LEMMA PageImplied ==
  ASSUME Page!Assumptions, PageInv
  PROVE  Page!TypeOK /\ Page!OnlyExactProducts /\ Page!NothingLate
<1>1. Page!TypeOK
  BY DEF PageInv, PageTyped, ResultOK, OutcomeOK, Page!TypeOK, Page!Exact
<1>2. Page!OnlyExactProducts
  BY DEF PageInv, ResultOK, ExactResult, OutcomeOK, Page!OnlyExactProducts
<1>3. Page!NothingLate
  BY DEF PageInv, OutcomeOK, Page!NothingLate
<1> QED
  BY <1>1, <1>2, <1>3

--------------------------------------------------------------------------------
(* The seed: every step of a run keeps SeedInv. *)

\* The instance counts as this module does.
LEMMA SeedSizes == \A S : Seed!Cardinality(S) = Cardinality(S)
BY DEF Seed!Cardinality, Cardinality

\* A list of progress names products, none twice.
ListOK(list) == list \in Seq(Seed!Product) /\ \A i, j \in DOMAIN list : list[i] = list[j] => i = j

SeedTyped ==
  /\ file = Seed!Torn \/ ListOK(file)
  /\ table \subseteq Seed!Product /\ seedDone \subseteq Seed!Product
  /\ status \in {"idle", "running", "complete", "failed"}
  /\ at \in [Runner -> {"idle", "schema", "loop", "refresh", "write", "unsaved"}]
  /\ index \in [Runner -> 1..(SeedProducts + 1)]
  /\ skip \in [Runner -> SUBSET Seed!Product]
  /\ progress \in [Runner -> Seq(Seed!Product)]
  /\ "server" \in Runner => (status = "running" <=> at["server"] # "idle")

\* What a run calls completed, it left out or has gone through; all of that was done.
RunOK(r) ==
  /\ ListOK(progress[r]) /\ skip[r] \subseteq Seed!Listed(progress[r])
  /\ Seed!Listed(progress[r]) \subseteq table \cap seedDone
  /\ at[r] \in {"loop", "refresh"} => Seed!Listed(progress[r]) \subseteq skip[r] \cup 1..(index[r] - 1)
  /\ at[r] \in {"loop", "refresh", "write", "unsaved"} => 1..(index[r] - 1) \subseteq table \cap seedDone
  /\ at[r] = "refresh" => index[r] \in table \ skip[r]
  /\ at[r] = "write" => index[r] \in table \cap seedDone /\ Seed!Listed(progress[r]) \subseteq skip[r] \cup 1..index[r]

SeedInv ==
  /\ SeedTyped /\ \A r \in Runner : RunOK(r)
  /\ Seed!Listed(Seed!Progress) \subseteq table \cap seedDone
  /\ status = "complete" => Seed!Product \subseteq table \cap seedDone

\* A new product makes a list of progress longer by itself.
LEMMA AppendOK ==
  ASSUME NEW list, ListOK(list), NEW x \in Seed!Product, x \notin Seed!Listed(list)
  PROVE  /\ ListOK(Append(list, x)) /\ Seed!Listed(Append(list, x)) = Seed!Listed(list) \cup {x}
<1> DEFINE longer == Append(list, x)
<1>1. /\ list \in Seq(Seed!Product) /\ Len(list) \in Nat /\ DOMAIN list = 1..Len(list)
      /\ \A i, j \in DOMAIN list : list[i] = list[j] => i = j
      /\ \A i \in DOMAIN list : list[i] # x
  BY DEF ListOK, Seed!Listed
<1>2. /\ longer \in Seq(Seed!Product) /\ DOMAIN longer = 1..(Len(list) + 1)
      /\ longer[Len(list) + 1] = x /\ \A i \in DOMAIN list : longer[i] = list[i]
  BY <1>1
<1> HIDE DEF longer
<1>3. \A i \in DOMAIN longer : i \in DOMAIN list \/ i = Len(list) + 1
  BY <1>1, <1>2
<1>4. \A i, j \in DOMAIN longer : longer[i] = longer[j] => i = j
  BY <1>1, <1>2, <1>3
<1>5. Seed!Listed(longer) \subseteq Seed!Listed(list) \cup {x}
  BY <1>1, <1>2, <1>3 DEF Seed!Listed
<1>6. Seed!Listed(list) \cup {x} \subseteq Seed!Listed(longer)
  <2>1. ASSUME NEW i \in DOMAIN list PROVE list[i] \in Seed!Listed(longer)
    BY <1>1, <1>2 DEF Seed!Listed
  <2>2. x \in Seed!Listed(longer)
    BY <1>1, <1>2 DEF Seed!Listed
  <2> QED
    BY <2>1, <2>2 DEF Seed!Listed
<1> QED
  BY <1>2, <1>4, <1>5, <1>6 DEF ListOK, longer

\* A list that names each product once is as long as it names products.
LEMMA OnceEach ==
  ASSUME NEW list, ListOK(list)
  PROVE  Cardinality(Seed!Listed(list)) = Len(list)
<1>1. /\ list \in Seq(Seed!Product) /\ Len(list) \in Nat /\ DOMAIN list = 1..Len(list)
      /\ \A i, j \in DOMAIN list : list[i] = list[j] => i = j
  BY DEF ListOK
<1>2. IsFiniteSet(1..Len(list)) /\ Cardinality(1..Len(list)) = Len(list)
  BY <1>1, FS_Interval
<1>3. list \in Bijection(1..Len(list), Seed!Listed(list))
  BY <1>1 DEF Seed!Listed, Bijection, Injection, Surjection, IsInjective
<1> QED
  BY <1>2, <1>3, FS_Bijection DEF ExistsBijection

LEMMA ProgressOK == ASSUME SeedInv PROVE ListOK(Seed!Progress)
<1>1. ListOK(<<>>)
  BY DEF ListOK
<1> QED
  BY <1>1 DEF SeedInv, SeedTyped, Seed!Progress

LEMMA EmptyTorn == Seed!Torn # <<>> /\ ~ListOK(Seed!Torn) /\ Seed!Listed(<<>>) = {}
BY DEF Seed!Torn, ListOK, Seed!Listed, Seed!Product

LEMMA SeedBeginKeeps ==
  ASSUME Seed!Assumptions, SeedInv, NEW r \in Runner, Seed!Begin(r)
  PROVE  SeedInv'
<1>1. SeedTyped'
  BY DEF Seed!Assumptions, SeedInv, SeedTyped, RunOK, ListOK, Seed!Listed, Seed!Product, Seed!Begin, Seed!Status
<1>2. \A q \in Runner : RunOK(q)'
  <2>1. TAKE q \in Runner
  <2>2. CASE q = r
    BY <2>2 DEF Seed!Assumptions, SeedInv, SeedTyped, RunOK, Seed!Product, Seed!Begin, Seed!Status
  <2>3. CASE q # r
    BY <2>3 DEF Seed!Assumptions, SeedInv, SeedTyped, RunOK, Seed!Begin, Seed!Status
  <2> QED
    BY <2>2, <2>3
<1>3. (Seed!Listed(Seed!Progress) \subseteq table \cap seedDone)'
  BY DEF SeedInv, SeedTyped, RunOK, Seed!Progress, Seed!Begin
<1>4. (status = "complete" => Seed!Product \subseteq table \cap seedDone)'
  BY DEF Seed!Assumptions, SeedInv, SeedTyped, RunOK, Seed!Product, Seed!Begin, Seed!Status
<1> QED
  BY <1>1, <1>2, <1>3, <1>4 DEF SeedInv

LEMMA SeedReadKeeps ==
  ASSUME Seed!Assumptions, SeedInv, NEW r \in Runner, Seed!Read(r)
  PROVE  SeedInv'
<1>1. SeedTyped'
  <2>1. Seed!Progress \in Seq(Seed!Product) /\ Seed!Listed(Seed!Progress) \subseteq Seed!Product
    BY ProgressOK DEF SeedInv, SeedTyped, ListOK
  <2>2. skip' \in [Runner -> SUBSET Seed!Product] /\ progress' \in [Runner -> Seq(Seed!Product)]
    BY <2>1 DEF SeedInv, SeedTyped, Seed!Read
  <2>3. index' \in [Runner -> 1..(SeedProducts + 1)]
    BY DEF Seed!Assumptions, SeedInv, SeedTyped, Seed!Read
  <2> QED
    BY <2>2, <2>3 DEF SeedInv, SeedTyped, Seed!Read
<1>2. \A q \in Runner : RunOK(q)'
  <2>1. TAKE q \in Runner
  <2>2. CASE q = r
    BY ProgressOK, EmptyTorn, <2>2 DEF Seed!Assumptions, SeedInv, SeedTyped, RunOK, Seed!Product, Seed!Read, Seed!Status
  <2>3. CASE q # r
    BY ProgressOK, EmptyTorn, <2>3 DEF Seed!Assumptions, SeedInv, SeedTyped, RunOK, Seed!Read, Seed!Status
  <2> QED
    BY <2>2, <2>3
<1>3. (Seed!Listed(Seed!Progress) \subseteq table \cap seedDone)'
  BY ProgressOK, EmptyTorn DEF SeedInv, SeedTyped, RunOK, Seed!Progress, Seed!Read
<1>4. (status = "complete" => Seed!Product \subseteq table \cap seedDone)'
  BY ProgressOK, EmptyTorn DEF Seed!Assumptions, SeedInv, SeedTyped, RunOK, Seed!Product, Seed!Read, Seed!Status
<1> QED
  BY <1>1, <1>2, <1>3, <1>4 DEF SeedInv

LEMMA SeedSkipKeeps ==
  ASSUME Seed!Assumptions, SeedInv, NEW r \in Runner, Seed!Skip(r)
  PROVE  SeedInv'
<1>1. SeedTyped'
  BY DEF Seed!Assumptions, SeedInv, SeedTyped, RunOK, ListOK, Seed!Listed, Seed!Product, Seed!Skip, Seed!Status
<1>2. \A q \in Runner : RunOK(q)'
  <2>1. TAKE q \in Runner
  <2>2. CASE q = r
    BY <2>2 DEF Seed!Assumptions, SeedInv, SeedTyped, RunOK, Seed!Product, Seed!Skip, Seed!Status
  <2>3. CASE q # r
    BY <2>3 DEF Seed!Assumptions, SeedInv, SeedTyped, RunOK, Seed!Skip, Seed!Status
  <2> QED
    BY <2>2, <2>3
<1>3. (Seed!Listed(Seed!Progress) \subseteq table \cap seedDone)'
  BY DEF SeedInv, SeedTyped, RunOK, Seed!Progress, Seed!Skip
<1>4. (status = "complete" => Seed!Product \subseteq table \cap seedDone)'
  BY DEF Seed!Assumptions, SeedInv, SeedTyped, RunOK, Seed!Product, Seed!Skip, Seed!Status
<1> QED
  BY <1>1, <1>2, <1>3, <1>4 DEF SeedInv

LEMMA SeedEnsureKeeps ==
  ASSUME Seed!Assumptions, SeedInv, NEW r \in Runner, Seed!Ensure(r)
  PROVE  SeedInv'
<1>1. SeedTyped'
  BY DEF Seed!Assumptions, SeedInv, SeedTyped, RunOK, ListOK, Seed!Listed, Seed!Product, Seed!Ensure, Seed!Status
<1>2. \A q \in Runner : RunOK(q)'
  <2>1. TAKE q \in Runner
  <2>2. CASE q = r
    BY <2>2 DEF Seed!Assumptions, SeedInv, SeedTyped, RunOK, Seed!Product, Seed!Ensure, Seed!Status
  <2>3. CASE q # r
    BY <2>3 DEF Seed!Assumptions, SeedInv, SeedTyped, RunOK, Seed!Ensure, Seed!Status
  <2> QED
    BY <2>2, <2>3
<1>3. (Seed!Listed(Seed!Progress) \subseteq table \cap seedDone)'
  BY DEF SeedInv, SeedTyped, RunOK, Seed!Progress, Seed!Ensure
<1>4. (status = "complete" => Seed!Product \subseteq table \cap seedDone)'
  BY DEF Seed!Assumptions, SeedInv, SeedTyped, RunOK, Seed!Product, Seed!Ensure, Seed!Status
<1> QED
  BY <1>1, <1>2, <1>3, <1>4 DEF SeedInv

LEMMA SeedRefreshKeeps ==
  ASSUME Seed!Assumptions, SeedInv, NEW r \in Runner, Seed!Refresh(r)
  PROVE  SeedInv'
<1>1. SeedTyped'
  <2>1. index[r] \in Seed!Product /\ progress[r] \in Seq(Seed!Product)
    BY DEF SeedInv, SeedTyped, RunOK, Seed!Refresh
  <2>2. Append(progress[r], index[r]) \in Seq(Seed!Product)
    BY <2>1
  <2>3. progress' \in [Runner -> Seq(Seed!Product)] /\ seedDone' \subseteq Seed!Product
    BY <2>1, <2>2 DEF SeedInv, SeedTyped, Seed!Refresh
  <2>4. file' = Seed!Torn \/ ListOK(file')
    BY DEF SeedInv, SeedTyped, Seed!Refresh
  <2> QED
    BY <2>3, <2>4 DEF SeedInv, SeedTyped, Seed!Refresh
<1>2. \A q \in Runner : RunOK(q)'
  <2>1. TAKE q \in Runner
  <2>2. CASE q = r
    BY AppendOK, EmptyTorn, <2>2 DEF Seed!Assumptions, SeedInv, SeedTyped, RunOK, Seed!Product, Seed!Refresh, Seed!Status
  <2>3. CASE q # r
    BY AppendOK, EmptyTorn, <2>3 DEF Seed!Assumptions, SeedInv, SeedTyped, RunOK, Seed!Refresh, Seed!Status
  <2> QED
    BY <2>2, <2>3
<1>3. (Seed!Listed(Seed!Progress) \subseteq table \cap seedDone)'
  BY AppendOK, EmptyTorn DEF SeedInv, SeedTyped, RunOK, Seed!Progress, Seed!Refresh
<1>4. (status = "complete" => Seed!Product \subseteq table \cap seedDone)'
  BY AppendOK, EmptyTorn DEF Seed!Assumptions, SeedInv, SeedTyped, RunOK, Seed!Product, Seed!Refresh, Seed!Status
<1> QED
  BY <1>1, <1>2, <1>3, <1>4 DEF SeedInv

LEMMA SeedWriteKeeps ==
  ASSUME Seed!Assumptions, SeedInv, NEW r \in Runner, Seed!Write(r)
  PROVE  SeedInv'
<1>1. SeedTyped'
  BY EmptyTorn DEF Seed!Assumptions, SeedInv, SeedTyped, RunOK, ListOK, Seed!Listed, Seed!Product, Seed!Write, Seed!Status
<1>2. \A q \in Runner : RunOK(q)'
  <2>1. TAKE q \in Runner
  <2>2. CASE q = r
    BY EmptyTorn, <2>2 DEF Seed!Assumptions, SeedInv, SeedTyped, RunOK, Seed!Product, Seed!Write, Seed!Status
  <2>3. CASE q # r
    BY EmptyTorn, <2>3 DEF Seed!Assumptions, SeedInv, SeedTyped, RunOK, Seed!Write, Seed!Status
  <2> QED
    BY <2>2, <2>3
<1>3. (Seed!Listed(Seed!Progress) \subseteq table \cap seedDone)'
  BY EmptyTorn DEF SeedInv, SeedTyped, RunOK, Seed!Progress, Seed!Write
<1>4. (status = "complete" => Seed!Product \subseteq table \cap seedDone)'
  BY EmptyTorn DEF Seed!Assumptions, SeedInv, SeedTyped, RunOK, Seed!Product, Seed!Write, Seed!Status
<1> QED
  BY <1>1, <1>2, <1>3, <1>4 DEF SeedInv

LEMMA SeedEndKeeps ==
  ASSUME Seed!Assumptions, SeedInv, NEW r \in Runner, Seed!End(r)
  PROVE  SeedInv'
<1>1. SeedTyped'
  BY DEF Seed!Assumptions, SeedInv, SeedTyped, RunOK, ListOK, Seed!Listed, Seed!Product, Seed!End, Seed!Status
<1>2. \A q \in Runner : RunOK(q)'
  <2>1. TAKE q \in Runner
  <2>2. CASE q = r
    BY <2>2 DEF Seed!Assumptions, SeedInv, SeedTyped, RunOK, Seed!Product, Seed!End, Seed!Status
  <2>3. CASE q # r
    BY <2>3 DEF Seed!Assumptions, SeedInv, SeedTyped, RunOK, Seed!End, Seed!Status
  <2> QED
    BY <2>2, <2>3
<1>3. (Seed!Listed(Seed!Progress) \subseteq table \cap seedDone)'
  BY DEF SeedInv, SeedTyped, RunOK, Seed!Progress, Seed!End
<1>4. (status = "complete" => Seed!Product \subseteq table \cap seedDone)'
  BY DEF Seed!Assumptions, SeedInv, SeedTyped, RunOK, Seed!Product, Seed!End, Seed!Status
<1> QED
  BY <1>1, <1>2, <1>3, <1>4 DEF SeedInv

LEMMA SeedFailKeeps ==
  ASSUME Seed!Assumptions, SeedInv, NEW r \in Runner, Seed!Fail(r)
  PROVE  SeedInv'
<1>1. SeedTyped'
  BY DEF Seed!Assumptions, SeedInv, SeedTyped, RunOK, ListOK, Seed!Listed, Seed!Product, Seed!Fail, Seed!Status
<1>2. \A q \in Runner : RunOK(q)'
  <2>1. TAKE q \in Runner
  <2>2. CASE q = r
    BY <2>2 DEF Seed!Assumptions, SeedInv, SeedTyped, RunOK, Seed!Product, Seed!Fail, Seed!Status
  <2>3. CASE q # r
    BY <2>3 DEF Seed!Assumptions, SeedInv, SeedTyped, RunOK, Seed!Fail, Seed!Status
  <2> QED
    BY <2>2, <2>3
<1>3. (Seed!Listed(Seed!Progress) \subseteq table \cap seedDone)'
  BY DEF SeedInv, SeedTyped, RunOK, Seed!Progress, Seed!Fail
<1>4. (status = "complete" => Seed!Product \subseteq table \cap seedDone)'
  BY DEF Seed!Assumptions, SeedInv, SeedTyped, RunOK, Seed!Product, Seed!Fail, Seed!Status
<1> QED
  BY <1>1, <1>2, <1>3, <1>4 DEF SeedInv

LEMMA SeedCrashKeeps ==
  ASSUME Seed!Assumptions, SeedInv, NEW r \in Runner, Seed!Crash(r)
  PROVE  SeedInv'
<1>1. SeedTyped'
  BY DEF Seed!Assumptions, SeedInv, SeedTyped, RunOK, ListOK, Seed!Listed, Seed!Product, Seed!Crash, Seed!Status
<1>2. \A q \in Runner : RunOK(q)'
  <2>1. TAKE q \in Runner
  <2>2. CASE q = r
    BY <2>2 DEF Seed!Assumptions, SeedInv, SeedTyped, RunOK, Seed!Product, Seed!Crash, Seed!Status
  <2>3. CASE q # r
    BY <2>3 DEF Seed!Assumptions, SeedInv, SeedTyped, RunOK, Seed!Crash, Seed!Status
  <2> QED
    BY <2>2, <2>3
<1>3. (Seed!Listed(Seed!Progress) \subseteq table \cap seedDone)'
  BY DEF SeedInv, SeedTyped, RunOK, Seed!Progress, Seed!Crash
<1>4. (status = "complete" => Seed!Product \subseteq table \cap seedDone)'
  BY DEF Seed!Assumptions, SeedInv, SeedTyped, RunOK, Seed!Product, Seed!Crash, Seed!Status
<1> QED
  BY <1>1, <1>2, <1>3, <1>4 DEF SeedInv

LEMMA SeedInit == ASSUME Seed!Assumptions, Seed!Init PROVE SeedInv
<1>1. ListOK(<<>>)
  BY DEF ListOK
<1>2. SeedTyped
  BY <1>1 DEF Seed!Assumptions, Seed!Init, SeedTyped
<1>3. \A r \in Runner : RunOK(r)
  BY <1>1, EmptyTorn DEF Seed!Assumptions, Seed!Init, RunOK
<1>4. Seed!Listed(Seed!Progress) \subseteq table \cap seedDone
  BY EmptyTorn DEF Seed!Init, Seed!Progress
<1> QED
  BY <1>2, <1>3, <1>4 DEF SeedInv, Seed!Init

LEMMA SeedNext ==
  ASSUME Seed!Assumptions, SeedInv, [Seed!Next]_(Seed!vars)
  PROVE  SeedInv'
<1>1. CASE UNCHANGED Seed!vars
  BY <1>1 DEF SeedInv, SeedTyped, RunOK, Seed!Progress, Seed!vars
<1>2. CASE Seed!Next
  <2>1. PICK r \in Runner : Seed!Act(r)
    BY <1>2 DEF Seed!Next
  <2> QED
    BY <2>1, SeedBeginKeeps, SeedReadKeeps, SeedSkipKeeps, SeedEnsureKeeps, SeedRefreshKeeps, SeedWriteKeeps, SeedEndKeeps, SeedFailKeeps, SeedCrashKeeps DEF Seed!Act, Seed!Step
<1> QED
  BY <1>1, <1>2

LEMMA SeedImplied ==
  ASSUME SeedInv
  PROVE  Seed!TypeOK /\ Seed!ListedOnce /\ Seed!CompleteIsDone
<1>1. Seed!TypeOK
  BY DEF SeedInv, SeedTyped, RunOK, ListOK, Seed!TypeOK
<1>2. Seed!ListedOnce
  BY OnceEach, ProgressOK, SeedSizes DEF SeedInv, RunOK, Seed!ListedOnce
<1>3. Seed!CompleteIsDone
  BY DEF SeedInv, SeedTyped, Seed!CompleteIsDone
<1> QED
  BY <1>1, <1>2, <1>3

--------------------------------------------------------------------------------
(* Batches of the worker: the ORDER BY is one order, and who is within a quota comes first. *)

\* The instance counts as this module does.
LEMMA RotationSizes == \A S : Rotation!Cardinality(S) = Cardinality(S)
BY DEF Rotation!Cardinality, Cardinality

\* Every product has one place of its own, and a batch names none twice and is no longer
\* than a run may be.
RotationInv ==
  /\ place \in [Rotation!Product -> Rotation!Product] /\ \A p, q \in Rotation!Product : place[p] = place[q] => p = q
  /\ watched \subseteq Rotation!Product /\ busy \subseteq Rotation!Product
  /\ size \in 1..MaxSize /\ done \in Nat /\ visitors \in 0..MaxVisitors
  /\ rotationQueue \in Seq(Rotation!Product) /\ done + Len(rotationQueue) <= size
  /\ \A i, j \in DOMAIN rotationQueue : i # j => rotationQueue[i] # rotationQueue[j]

\* Multiples of two numbers compare as the numbers do.
LEMMA Multiples ==
  ASSUME NEW a \in Nat, NEW b \in Nat, NEW s \in Nat, s > 0
  PROVE  /\ a * s < b * s <=> a < b
         /\ a * s = b * s <=> a = b
<1>1. ASSUME NEW x \in Nat, NEW y \in Nat, x < y PROVE x * s < y * s
  <2>1. PICK d \in Nat : y = x + d /\ d >= 1
    <3>1. y - x \in Nat /\ y = x + (y - x) /\ y - x >= 1
      BY <1>1
    <3> QED
      BY <3>1
  <2>2. y * s = x * s + d * s
    BY <2>1
  <2>3. d * s >= s
    BY <2>1
  <2> QED
    BY <2>2, <2>3
<1>2. a * s \in Nat /\ b * s \in Nat
  OBVIOUS
<1> QED
  BY <1>1, <1>2

\* Numbers of 1..|S|, one for each element of S, are all taken, and k of them are up to k.
LEMMA Numbered ==
  ASSUME NEW S, IsFiniteSet(S), NEW f \in [S -> 1..Cardinality(S)],
         \A x, y \in S : f[x] = f[y] => x = y
  PROVE  /\ \A i \in 1..Cardinality(S) : \E x \in S : f[x] = i
         /\ \A k \in Nat : LET T == {x \in S : f[x] <= k} IN
              IsFiniteSet(T) /\ Cardinality(T) = Rotation!Least(k, Cardinality(S))
<1> DEFINE n == Cardinality(S)
<1>1. n \in Nat
  BY FS_CardinalityType
<1>2. IsFiniteSet(1..n) /\ Cardinality(1..n) = n
  BY <1>1, FS_Interval
<1>3. f \in Injection(S, 1..n)
  BY DEF Injection, IsInjective
<1>4. f \in Surjection(S, 1..n)
  BY <1>2, <1>3, FS_Injection
<1>5. \A i \in 1..n : \E x \in S : f[x] = i
  BY <1>4 DEF Surjection
<1>6. ASSUME NEW k \in Nat
      PROVE  LET T == {x \in S : f[x] <= k} IN IsFiniteSet(T) /\ Cardinality(T) = Rotation!Least(k, n)
  <2> DEFINE T == {x \in S : f[x] <= k}
             m == Rotation!Least(k, n)
             g == [x \in T |-> f[x]]
  <2>1. m \in Nat /\ \A i \in Nat : i <= m <=> i <= k /\ i <= n
    BY <1>1 DEF Rotation!Least
  <2>2. g \in [T -> 1..m] /\ \A x, y \in T : g[x] = g[y] => x = y
    BY <1>1, <2>1
  <2>3. \A i \in 1..m : \E x \in T : g[x] = i
    BY <1>1, <1>5, <2>1
  <2>4. g \in Bijection(T, 1..m)
    BY <2>2, <2>3 DEF Bijection, Injection, Surjection, IsInjective
  <2>5. IsFiniteSet(T)
    BY FS_Subset
  <2>6. Cardinality(1..m) = m
    BY <2>1, FS_Interval
  <2>7. Cardinality(1..m) = Cardinality(T)
    BY <2>4, <2>5, FS_Bijection DEF ExistsBijection
  <2> QED
    BY <2>5, <2>6, <2>7
<1> QED
  BY <1>5, <1>6

\* In a strict order the elements of a finite set are numbered by how many precede them.
LEMMA Ranked ==
  ASSUME NEW S, IsFiniteSet(S), NEW R \in SUBSET (S \X S),
         \A x \in S : <<x, x>> \notin R,
         \A x, y, z \in S : <<x, y>> \in R /\ <<y, z>> \in R => <<x, z>> \in R,
         \A x, y \in S : x # y => <<x, y>> \in R \/ <<y, x>> \in R,
         NEW f, f = [x \in S |-> Cardinality({y \in S : <<y, x>> \in R}) + 1]
  PROVE  /\ f \in [S -> 1..Cardinality(S)]
         /\ \A x, y \in S : <<x, y>> \in R <=> f[x] < f[y]
         /\ \A x, y \in S : f[x] = f[y] => x = y
<1> DEFINE below(x) == {y \in S : <<y, x>> \in R}
<1>1. ASSUME NEW x \in S
      PROVE  /\ IsFiniteSet(below(x)) /\ Cardinality(below(x)) \in Nat
             /\ IsFiniteSet(below(x) \cup {x}) /\ Cardinality(below(x) \cup {x}) = Cardinality(below(x)) + 1
             /\ Cardinality(below(x)) + 1 <= Cardinality(S)
  <2>1. IsFiniteSet(below(x)) /\ x \notin below(x)
    BY FS_Subset
  <2>2. IsFiniteSet(below(x) \cup {x}) /\ Cardinality(below(x) \cup {x}) = Cardinality(below(x)) + 1
    BY <2>1, FS_AddElement
  <2>3. below(x) \cup {x} \in SUBSET S
    OBVIOUS
  <2>4. Cardinality(below(x) \cup {x}) <= Cardinality(S)
    BY <2>3, FS_Subset
  <2> QED
    BY <2>1, <2>2, <2>4, FS_CardinalityType
<1>2. Cardinality(S) \in Nat
  BY FS_CardinalityType
<1>3. \A x \in S : f[x] = Cardinality(below(x)) + 1
  OBVIOUS
<1>4. \A x \in S : f[x] \in 1..Cardinality(S)
  <2>1. TAKE x \in S
  <2>2. /\ f[x] = Cardinality(below(x)) + 1 /\ Cardinality(below(x)) \in Nat
        /\ Cardinality(below(x)) + 1 <= Cardinality(S)
    BY <1>1, <1>3
  <2> HIDE DEF below
  <2> QED
    BY <1>2, <2>2
<1>5. ASSUME NEW x \in S, NEW y \in S, <<x, y>> \in R
      PROVE  f[x] < f[y]
  <2>1. below(x) \cup {x} \in SUBSET below(y)
    BY <1>5
  <2>2. Cardinality(below(x) \cup {x}) <= Cardinality(below(y))
    BY <1>1, <2>1, FS_Subset
  <2>3. /\ f[x] = Cardinality(below(x)) + 1 /\ f[y] = Cardinality(below(y)) + 1
        /\ Cardinality(below(x)) \in Nat /\ Cardinality(below(y)) \in Nat
        /\ Cardinality(below(x) \cup {x}) = Cardinality(below(x)) + 1
    BY <1>1, <1>3
  <2> HIDE DEF below
  <2> QED
    BY <2>2, <2>3
<1>6. \A x \in S : f[x] \in Int
  BY <1>2, <1>4
<1>7. ASSUME NEW x \in S, NEW y \in S
      PROVE  /\ f[x] = f[y] => x = y
             /\ f[x] < f[y] => <<x, y>> \in R
  <2>1. /\ <<x, y>> \in R => f[x] < f[y]
        /\ <<y, x>> \in R => f[y] < f[x]
        /\ x # y => <<x, y>> \in R \/ <<y, x>> \in R
    BY <1>5
  <2>2. /\ f[x] = f[y] => ~(f[x] < f[y]) /\ ~(f[y] < f[x])
        /\ f[x] < f[y] => f[x] # f[y] /\ ~(f[y] < f[x])
    BY <1>6
  <2>3. x = y => f[x] = f[y]
    OBVIOUS
  <2> QED
    BY <2>1, <2>2, <2>3, Zenon
<1> QED
  BY <1>4, <1>5, <1>7

\* Within a kind the ranks are the numbers up to its size, in the order of the places.
LEMMA KindRanks ==
  ASSUME Rotation!Assumptions, RotationInv, NEW K \in SUBSET Rotation!Product,
         NEW f, f = [p \in K |-> Cardinality({q \in K : place[q] <= place[p]})]
  PROVE  /\ IsFiniteSet(K) /\ Cardinality(K) \in Nat
         /\ f \in [K -> 1..Cardinality(K)]
         /\ \A p, q \in K : place[p] < place[q] <=> f[p] < f[q]
         /\ \A p, q \in K : f[p] = f[q] => p = q
<1> DEFINE R == {r \in K \X K : place[r[1]] < place[r[2]]}
<1>1. IsFiniteSet(K) /\ Cardinality(K) \in Nat
  <2>1. IsFiniteSet(Rotation!Product)
    BY FS_Interval DEF Rotation!Product, Rotation!Assumptions
  <2> QED
    BY <2>1, FS_Subset, FS_CardinalityType
<1>2. \A p, q \in K : (place[p] = place[q] => p = q) /\ place[p] \in Int /\ place[q] \in Int
  <2>1. \A p \in Rotation!Product : place[p] \in Int
    BY DEF RotationInv, Rotation!Product, Rotation!Assumptions
  <2>2. \A p, q \in Rotation!Product : place[p] = place[q] => p = q
    BY DEF RotationInv
  <2> QED
    BY <2>1, <2>2
<1>3. \A p, q \in K : <<p, q>> \in R <=> place[p] < place[q]
  OBVIOUS
<1>4. R \in SUBSET (K \X K)
  OBVIOUS
<1> HIDE DEF R
<1>5. /\ \A x \in K : <<x, x>> \notin R
      /\ \A x, y, z \in K : <<x, y>> \in R /\ <<y, z>> \in R => <<x, z>> \in R
      /\ \A x, y \in K : x # y => <<x, y>> \in R \/ <<y, x>> \in R
  BY <1>2, <1>3
<1>6. ASSUME NEW p \in K
      PROVE  Cardinality({q \in K : place[q] <= place[p]}) = Cardinality({q \in K : <<q, p>> \in R}) + 1
  <2> DEFINE B == {q \in K : <<q, p>> \in R}
  <2>1. {q \in K : place[q] <= place[p]} = B \cup {p}
    BY <1>2, <1>3
  <2>2. p \notin B /\ IsFiniteSet(B)
    BY <1>1, <1>5, FS_Subset
  <2> QED
    BY <2>1, <2>2, FS_AddElement
<1>7. f = [p \in K |-> Cardinality({q \in K : <<q, p>> \in R}) + 1]
  BY <1>6
<1>8. /\ f \in [K -> 1..Cardinality(K)]
      /\ \A x, y \in K : <<x, y>> \in R <=> f[x] < f[y]
      /\ \A x, y \in K : f[x] = f[y] => x = y
  BY <1>1, <1>4, <1>5, <1>7, Ranked
<1> QED
  BY <1>1, <1>3, <1>8

\* Both quotas are numbers that make up the size of a batch; watched products have one.
LEMMA Quotas ==
  ASSUME Rotation!Assumptions, RotationInv
  PROVE  /\ Rotation!WatchQuota \in Nat /\ Rotation!WatchQuota >= 1 /\ Rotation!HistoryQuota \in Nat
         /\ Rotation!WatchQuota + Rotation!HistoryQuota = size /\ size \in Nat
<1>1. size \in Nat /\ size >= 1
  BY DEF Rotation!Assumptions, RotationInv
<1>2. (size * 8) \div 10 \in Int /\ (size * 8) \div 10 <= size
  BY <1>1
<1>3. Rotation!WatchQuota \in Nat /\ Rotation!WatchQuota >= 1 /\ Rotation!WatchQuota <= size
  BY <1>1, <1>2 DEF Rotation!WatchQuota
<1> QED
  BY <1>1, <1>3 DEF Rotation!HistoryQuota

\* Is the rank of p within its quota?
Out(p) == IF Rotation!Rank(p) <= Rotation!Quota(p) THEN 0 ELSE 1

\* The share of its quota that p uses up, over a denominator all products have in common.
Key(p) == Rotation!Rank(p) * (IF p \in watched THEN IF Rotation!HistoryQuota > 1 THEN Rotation!HistoryQuota ELSE 1 ELSE Rotation!WatchQuota)

LEMMA RankIs ==
  ASSUME Rotation!Assumptions, RotationInv, NEW p \in Rotation!Product
  PROVE  /\ Rotation!Rank(p) = Cardinality({q \in Rotation!Kind(p) : place[q] <= place[p]})
         /\ Rotation!Rank(p) \in Nat /\ Rotation!Rank(p) >= 1 /\ place[p] \in Nat
         /\ Rotation!Quota(p) \in Nat /\ Key(p) \in Nat /\ Out(p) \in Nat
<1> DEFINE f == [r \in Rotation!Kind(p) |-> Cardinality({q \in Rotation!Kind(p) : place[q] <= place[r]})]
<1>1. Rotation!Kind(p) \in SUBSET Rotation!Product /\ p \in Rotation!Kind(p)
  BY DEF Rotation!Kind, RotationInv
<1>2. f \in [Rotation!Kind(p) -> 1..Cardinality(Rotation!Kind(p))] /\ Cardinality(Rotation!Kind(p)) \in Nat
  BY <1>1, KindRanks
<1>3. Rotation!Rank(p) = f[p]
  BY <1>1, RotationSizes DEF Rotation!Rank
<1>4. Rotation!Rank(p) \in Nat /\ Rotation!Rank(p) >= 1
  <2>1. f[p] \in 1..Cardinality(Rotation!Kind(p))
    BY <1>1, <1>2
  <2> HIDE DEF f
  <2> QED
    BY <1>2, <1>3, <2>1
<1>5. Key(p) \in Nat
  BY <1>4, Quotas DEF Key
<1>6. place[p] \in Nat
  <2>1. place \in [Rotation!Product -> Rotation!Product]
    BY DEF RotationInv
  <2> QED
    BY <2>1 DEF Rotation!Product, Rotation!Assumptions
<1>7. Rotation!Quota(p) \in Nat
  BY Quotas DEF Rotation!Quota
<1>8. Out(p) \in Nat
  BY DEF Out
<1> QED
  BY <1>1, <1>3, <1>4, <1>5, <1>6, <1>7, <1>8

\* Shares compare as keys do.
LEMMA KeysAgree ==
  ASSUME Rotation!Assumptions, RotationInv, NEW p \in Rotation!Product, NEW q \in Rotation!Product
  PROVE  /\ Rotation!Rank(p) * Rotation!Share(q) < Rotation!Rank(q) * Rotation!Share(p) <=> Key(p) < Key(q)
         /\ Rotation!Rank(p) * Rotation!Share(q) = Rotation!Rank(q) * Rotation!Share(p) <=> Key(p) = Key(q)
<1> DEFINE w == Rotation!WatchQuota
           h == IF Rotation!HistoryQuota > 1 THEN Rotation!HistoryQuota ELSE 1
<1>1. w \in Nat /\ h \in Nat /\ w > 0 /\ h > 0
  BY Quotas
<1>2. /\ Rotation!Share(p) = (IF p \in watched THEN w ELSE h) /\ Rotation!Share(q) = (IF q \in watched THEN w ELSE h)
      /\ Key(p) = Rotation!Rank(p) * (IF p \in watched THEN h ELSE w)
      /\ Key(q) = Rotation!Rank(q) * (IF q \in watched THEN h ELSE w)
  BY DEF Rotation!Share, Key
<1>3. Rotation!Rank(p) \in Nat /\ Rotation!Rank(q) \in Nat
  BY RankIs
<1> HIDE DEF w, h
<1>4. CASE p \in watched /\ q \in watched
  BY <1>1, <1>2, <1>3, <1>4, Multiples
<1>5. CASE p \in watched /\ q \notin watched
  BY <1>2, <1>5
<1>6. CASE p \notin watched /\ q \in watched
  BY <1>2, <1>6
<1>7. CASE p \notin watched /\ q \notin watched
  BY <1>1, <1>2, <1>3, <1>7, Multiples
<1> QED
  BY <1>4, <1>5, <1>6, <1>7

LEMMA BeforeIs ==
  ASSUME Rotation!Assumptions, RotationInv, NEW p \in Rotation!Product, NEW q \in Rotation!Product
  PROVE  Rotation!Before(p, q) <=>
           \/ Out(p) < Out(q)
           \/ Out(p) = Out(q) /\ Key(p) < Key(q)
           \/ Out(p) = Out(q) /\ Key(p) = Key(q) /\ place[p] < place[q]
BY KeysAgree DEF Rotation!Before, Out

\* The ORDER BY puts any two products in one order.
LEMMA BeforeOrders ==
  ASSUME Rotation!Assumptions, RotationInv
  PROVE  /\ \A p \in Rotation!Product : ~Rotation!Before(p, p)
         /\ \A p, q, r \in Rotation!Product : Rotation!Before(p, q) /\ Rotation!Before(q, r) => Rotation!Before(p, r)
         /\ \A p, q \in Rotation!Product : p # q => Rotation!Before(p, q) \/ Rotation!Before(q, p)
<1>1. \A p \in Rotation!Product : Out(p) \in Nat /\ Key(p) \in Nat /\ place[p] \in Nat
  BY RankIs
<1>2. \A p, q \in Rotation!Product : place[p] = place[q] => p = q
  BY DEF RotationInv
<1>3. \A p, q \in Rotation!Product : Rotation!Before(p, q) <=>
           \/ Out(p) < Out(q)
           \/ Out(p) = Out(q) /\ Key(p) < Key(q)
           \/ Out(p) = Out(q) /\ Key(p) = Key(q) /\ place[p] < place[q]
  BY BeforeIs
<1>4. \A p \in Rotation!Product : ~Rotation!Before(p, p)
  BY <1>1, <1>3
<1>5. ASSUME NEW p \in Rotation!Product, NEW q \in Rotation!Product, NEW r \in Rotation!Product, Rotation!Before(p, q), Rotation!Before(q, r)
      PROVE  Rotation!Before(p, r)
  <2>1. /\ Out(p) < Out(q) \/ (Out(p) = Out(q) /\ (Key(p) < Key(q) \/ (Key(p) = Key(q) /\ place[p] < place[q])))
        /\ Out(q) < Out(r) \/ (Out(q) = Out(r) /\ (Key(q) < Key(r) \/ (Key(q) = Key(r) /\ place[q] < place[r])))
    BY <1>3, <1>5
  <2>2. Out(p) < Out(r) \/ (Out(p) = Out(r) /\ (Key(p) < Key(r) \/ (Key(p) = Key(r) /\ place[p] < place[r])))
    BY <1>1, <2>1
  <2> QED
    BY <1>3, <2>2
<1>6. ASSUME NEW p \in Rotation!Product, NEW q \in Rotation!Product, p # q
      PROVE  Rotation!Before(p, q) \/ Rotation!Before(q, p)
  <2>1. place[p] # place[q]
    BY <1>2, <1>6
  <2>2. \/ Out(p) < Out(q) \/ (Out(p) = Out(q) /\ (Key(p) < Key(q) \/ (Key(p) = Key(q) /\ place[p] < place[q])))
        \/ Out(q) < Out(p) \/ (Out(q) = Out(p) /\ (Key(q) < Key(p) \/ (Key(q) = Key(p) /\ place[q] < place[p])))
    BY <1>1, <2>1
  <2> QED
    BY <1>3, <2>2
<1> QED
  BY <1>4, <1>5, <1>6

\* The number of each product in the order, and the product of each number.
LEMMA OrderedIs ==
  ASSUME Rotation!Assumptions, RotationInv,
         NEW f, f = [p \in Rotation!Product |-> Cardinality(Rotation!Preceding(p)) + 1]
  PROVE  /\ f \in [Rotation!Product -> Rotation!Product]
         /\ \A p, q \in Rotation!Product : Rotation!Before(p, q) <=> f[p] < f[q]
         /\ \A p, q \in Rotation!Product : f[p] = f[q] => p = q
         /\ Rotation!Ordered \in [Rotation!Product -> Rotation!Product]
         /\ \A i \in Rotation!Product : f[Rotation!Ordered[i]] = i
         /\ \A p \in Rotation!Product : Rotation!Ordered[f[p]] = p
<1> DEFINE R == {r \in Rotation!Product \X Rotation!Product : Rotation!Before(r[1], r[2])}
<1>1. IsFiniteSet(Rotation!Product) /\ Cardinality(Rotation!Product) = Products /\ Products \in Nat
  BY FS_Interval DEF Rotation!Product, Rotation!Assumptions
<1>2. \A p, q \in Rotation!Product : <<p, q>> \in R <=> Rotation!Before(p, q)
  OBVIOUS
<1>3. R \in SUBSET (Rotation!Product \X Rotation!Product)
  OBVIOUS
<1> HIDE DEF R
<1>4. /\ \A x \in Rotation!Product : <<x, x>> \notin R
      /\ \A x, y, z \in Rotation!Product : <<x, y>> \in R /\ <<y, z>> \in R => <<x, z>> \in R
      /\ \A x, y \in Rotation!Product : x # y => <<x, y>> \in R \/ <<y, x>> \in R
  BY <1>2, BeforeOrders
<1>5. \A p \in Rotation!Product : Rotation!Preceding(p) = {q \in Rotation!Product : <<q, p>> \in R}
  BY <1>2 DEF Rotation!Preceding
<1>6. f = [p \in Rotation!Product |-> Cardinality({q \in Rotation!Product : <<q, p>> \in R}) + 1]
  BY <1>5
<1>7. /\ f \in [Rotation!Product -> 1..Cardinality(Rotation!Product)]
      /\ \A x, y \in Rotation!Product : <<x, y>> \in R <=> f[x] < f[y]
      /\ \A x, y \in Rotation!Product : f[x] = f[y] => x = y
  BY <1>1, <1>3, <1>4, <1>6, Ranked
<1>8. 1..Cardinality(Rotation!Product) = Rotation!Product
  BY <1>1 DEF Rotation!Product
<1>9. \A i \in Rotation!Product : \E p \in Rotation!Product : f[p] = i
  BY <1>1, <1>7, <1>8, Numbered
<1>10. ASSUME NEW i \in Rotation!Product, NEW p \in Rotation!Product
       PROVE  f[p] = i <=> Cardinality(Rotation!Preceding(p)) = i - 1
  <2>1. f[p] = Cardinality(Rotation!Preceding(p)) + 1 /\ i \in Int
    BY DEF Rotation!Product
  <2>2. Cardinality(Rotation!Preceding(p)) \in Int
    <3>1. IsFiniteSet(Rotation!Preceding(p))
      BY <1>1, FS_Subset DEF Rotation!Preceding
    <3> QED
      BY <3>1, FS_CardinalityType
  <2> QED
    BY <2>1, <2>2
<1>11. \A i \in Rotation!Product : Rotation!Ordered[i] = CHOOSE p \in Rotation!Product : Cardinality(Rotation!Preceding(p)) = i - 1
  BY RotationSizes DEF Rotation!Ordered
<1>12. \A i \in Rotation!Product : Rotation!Ordered[i] \in Rotation!Product /\ f[Rotation!Ordered[i]] = i
  BY <1>9, <1>10, <1>11
<1>13. Rotation!Ordered \in [Rotation!Product -> Rotation!Product]
  BY <1>12 DEF Rotation!Ordered
<1>14. \A p \in Rotation!Product : Rotation!Ordered[f[p]] = p
  BY <1>7, <1>8, <1>12
<1> QED
  BY <1>2, <1>7, <1>8, <1>12, <1>13, <1>14

\* A batch takes the products that come first, each once.
LEMMA BatchIs ==
  ASSUME Rotation!Assumptions, RotationInv,
         NEW f, f = [p \in Rotation!Product |-> Cardinality(Rotation!Preceding(p)) + 1],
         NEW m, m = Rotation!Least(size, Products)
  PROVE  /\ m \in Nat /\ m <= size /\ m <= Products /\ (\A n \in Nat : n <= size /\ n <= Products => n <= m)
         /\ Rotation!Batch \in Seq(Rotation!Product) /\ Len(Rotation!Batch) = m /\ DOMAIN Rotation!Batch = 1..m
         /\ \A i, j \in DOMAIN Rotation!Batch : i # j => Rotation!Batch[i] # Rotation!Batch[j]
         /\ {Rotation!Batch[i] : i \in DOMAIN Rotation!Batch} = {p \in Rotation!Product : f[p] <= m}
         /\ IsFiniteSet({p \in Rotation!Product : f[p] <= m})
         /\ Cardinality({p \in Rotation!Product : f[p] <= m}) = m
<1>1. /\ m \in Nat /\ m <= size /\ m <= Products /\ Products \in Nat
      /\ (\A n \in Nat : n <= size /\ n <= Products => n <= m)
  <2>1. size \in Nat
    BY DEF RotationInv
  <2> QED
    BY <2>1 DEF Rotation!Least, Rotation!Assumptions
<1>2. /\ f \in [Rotation!Product -> Rotation!Product] /\ (\A p, q \in Rotation!Product : f[p] = f[q] => p = q)
      /\ Rotation!Ordered \in [Rotation!Product -> Rotation!Product]
      /\ \A i \in Rotation!Product : f[Rotation!Ordered[i]] = i
      /\ \A p \in Rotation!Product : Rotation!Ordered[f[p]] = p
  BY OrderedIs
<1>3. 1..m \subseteq Rotation!Product /\ \A i \in Rotation!Product : i \in 1..m <=> i <= m
  BY <1>1 DEF Rotation!Product
<1>4. Rotation!Batch = [i \in 1..m |-> Rotation!Ordered[i]]
  BY DEF Rotation!Batch
<1>5. Rotation!Batch \in [1..m -> Rotation!Product]
  BY <1>2, <1>3, <1>4
<1>6. Rotation!Batch \in Seq(Rotation!Product) /\ Len(Rotation!Batch) = m /\ DOMAIN Rotation!Batch = 1..m
  BY <1>1, <1>5
<1>7. \A i, j \in 1..m : i # j => Rotation!Batch[i] # Rotation!Batch[j]
  <2>1. \A i \in 1..m : f[Rotation!Batch[i]] = i
    BY <1>2, <1>3, <1>4
  <2> QED
    BY <2>1
<1>8. {Rotation!Batch[i] : i \in 1..m} \subseteq {p \in Rotation!Product : f[p] <= m}
  BY <1>2, <1>3, <1>4
<1>9. {p \in Rotation!Product : f[p] <= m} \subseteq {Rotation!Batch[i] : i \in 1..m}
  <2>1. ASSUME NEW p \in Rotation!Product, f[p] <= m PROVE p \in {Rotation!Batch[i] : i \in 1..m}
    <3>1. f[p] \in 1..m
      BY <1>2, <1>3, <2>1
    <3>2. Rotation!Batch[f[p]] = p
      BY <1>2, <1>4, <3>1
    <3> QED
      BY <3>1, <3>2
  <2> QED
    BY <2>1
<1>10. IsFiniteSet(Rotation!Product) /\ Cardinality(Rotation!Product) = Products
  BY <1>1, FS_Interval DEF Rotation!Product
<1>11. f \in [Rotation!Product -> 1..Cardinality(Rotation!Product)]
  BY <1>2, <1>10 DEF Rotation!Product
<1>12. /\ IsFiniteSet({p \in Rotation!Product : f[p] <= m})
       /\ Cardinality({p \in Rotation!Product : f[p] <= m}) = Rotation!Least(m, Cardinality(Rotation!Product))
  <2>1. IsFiniteSet(Rotation!Product) /\ f \in [Rotation!Product -> 1..Cardinality(Rotation!Product)]
    BY <1>10, <1>11
  <2>2. \A x, y \in Rotation!Product : f[x] = f[y] => x = y
    BY <1>2
  <2>3. m \in Nat
    BY <1>1
  <2> QED
    BY <2>1, <2>2, <2>3, Numbered
<1>13. Rotation!Least(m, Products) = m
  BY <1>1 DEF Rotation!Least
<1> QED
  BY <1>1, <1>6, <1>7, <1>8, <1>9, <1>10, <1>12, <1>13

\* What is within its quota; of a kind, as many as the quota and the kind allow.
Within == {p \in Rotation!Product : Rotation!Rank(p) <= Rotation!Quota(p)}

LEMMA WithinKind ==
  ASSUME Rotation!Assumptions, RotationInv, NEW kind \in {watched, Rotation!Product \ watched},
         NEW quota, quota = IF kind = watched THEN Rotation!WatchQuota ELSE Rotation!HistoryQuota
  PROVE  /\ IsFiniteSet(kind) /\ Cardinality(kind) \in Nat
         /\ IsFiniteSet(Within \cap kind)
         /\ Cardinality(Within \cap kind) = Rotation!Least(quota, Cardinality(kind))
         /\ \A p \in kind : p \in Rotation!Product /\ Rotation!Kind(p) = kind /\ Rotation!Quota(p) = quota
<1> DEFINE f == [p \in kind |-> Cardinality({q \in kind : place[q] <= place[p]})]
<1>1. kind \in SUBSET Rotation!Product /\ watched \in SUBSET Rotation!Product
  BY DEF RotationInv
<1>2. \A p \in kind : p \in Rotation!Product /\ Rotation!Kind(p) = kind
  BY <1>1 DEF Rotation!Kind
<1>3. \A p \in kind : Rotation!Quota(p) = quota
  <2>1. TAKE p \in kind
  <2>2. CASE kind = watched
    BY <2>2 DEF Rotation!Quota
  <2>3. CASE kind # watched
    BY <2>3 DEF Rotation!Quota
  <2> QED
    BY <2>2, <2>3
<1>4. /\ IsFiniteSet(kind) /\ Cardinality(kind) \in Nat
      /\ f \in [kind -> 1..Cardinality(kind)]
      /\ \A p, q \in kind : f[p] = f[q] => p = q
  BY <1>1, KindRanks
<1>5. quota \in Nat
  BY Quotas
<1>6. \A p \in kind : Rotation!Rank(p) = f[p]
  BY <1>2, RankIs
<1>7. Within \cap kind = {p \in kind : f[p] <= quota}
  BY <1>2, <1>3, <1>6 DEF Within
<1> HIDE DEF f
<1>8. /\ IsFiniteSet({p \in kind : f[p] <= quota})
      /\ Cardinality({p \in kind : f[p] <= quota}) = Rotation!Least(quota, Cardinality(kind))
  BY <1>4, <1>5, Numbered
<1> QED
  BY <1>2, <1>3, <1>4, <1>7, <1>8

\* There is room in a batch for all that is within its quota, and it comes first.
LEMMA WithinIsTaken ==
  ASSUME Rotation!Assumptions, RotationInv,
         NEW f, f = [p \in Rotation!Product |-> Cardinality(Rotation!Preceding(p)) + 1],
         NEW m, m = Rotation!Least(size, Products)
  PROVE  \A p \in Within : f[p] <= m
<1> DEFINE A == Within \cap watched
           B == Within \cap (Rotation!Product \ watched)
<1>1. /\ IsFiniteSet(A) /\ Cardinality(A) = Rotation!Least(Rotation!WatchQuota, Cardinality(watched))
      /\ Cardinality(watched) \in Nat
  BY WithinKind
<1>2. Rotation!Product \ watched # watched
  BY DEF RotationInv, Rotation!Product, Rotation!Assumptions
<1>3. /\ IsFiniteSet(B) /\ Cardinality(B) = Rotation!Least(Rotation!HistoryQuota, Cardinality(Rotation!Product \ watched))
      /\ Cardinality(Rotation!Product \ watched) \in Nat
  BY <1>2, WithinKind
<1>4. Within = A \cup B /\ A \cap B = {} /\ Within \in SUBSET Rotation!Product
  BY DEF Within
<1>5. IsFiniteSet(Rotation!Product) /\ Cardinality(Rotation!Product) = Products /\ Products \in Nat
  BY FS_Interval DEF Rotation!Product, Rotation!Assumptions
<1>6. Cardinality(A) \in Nat /\ Cardinality(A) <= Rotation!WatchQuota
  BY <1>1, Quotas DEF Rotation!Least
<1>7. Cardinality(B) \in Nat /\ Cardinality(B) <= Rotation!HistoryQuota
  BY <1>3, Quotas DEF Rotation!Least
<1>8. IsFiniteSet(Within) /\ Cardinality(Within) \in Nat /\ Cardinality(Within) <= Products
  BY <1>4, <1>5, FS_Subset, FS_CardinalityType
<1>9. Cardinality(Within) = Cardinality(A) + Cardinality(B)
  <2>1. Cardinality(A \cup B) = Cardinality(A) + Cardinality(B) - Cardinality(A \cap B)
    BY <1>1, <1>3, FS_Union
  <2>2. Cardinality(A \cap B) = 0
    BY <1>4, FS_EmptySet
  <2>3. Cardinality(Within) = Cardinality(A \cup B)
    BY <1>4
  <2> HIDE DEF A, B
  <2> QED
    BY <1>6, <1>7, <2>1, <2>2, <2>3
<1>10. Cardinality(Within) <= size
  <2> HIDE DEF A, B
  <2> QED
    BY <1>6, <1>7, <1>9, Quotas
<1>11. Cardinality(Within) <= m
  BY <1>8, <1>10, BatchIs
<1>12. ASSUME NEW p \in Within
       PROVE  f[p] <= m
  <2>1. p \in Rotation!Product
    BY DEF Within
  <2>2. \A q \in Rotation!Product : Rotation!Before(q, p) => q \in Within
    BY <2>1, <1>12, BeforeIs, RankIs DEF Within, Out
  <2>3. Rotation!Preceding(p) \cup {p} \in SUBSET Within
    BY <2>1, <2>2 DEF Rotation!Preceding
  <2>4. p \notin Rotation!Preceding(p) /\ IsFiniteSet(Rotation!Preceding(p))
    BY <1>5, <2>1, FS_Subset, BeforeOrders DEF Rotation!Preceding
  <2>5. Cardinality(Rotation!Preceding(p) \cup {p}) = Cardinality(Rotation!Preceding(p)) + 1
    BY <2>4, FS_AddElement
  <2>6. Cardinality(Rotation!Preceding(p) \cup {p}) <= Cardinality(Within)
    BY <1>8, <2>3, FS_Subset
  <2>7. f[p] = Cardinality(Rotation!Preceding(p)) + 1 /\ Cardinality(Rotation!Preceding(p)) \in Nat
    BY <2>1, <2>4, FS_CardinalityType
  <2>8. m \in Nat
    BY BatchIs
  <2> QED
    BY <1>8, <1>11, <2>5, <2>6, <2>7, <2>8
<1> QED
  BY <1>12

LEMMA InvIsFair ==
  ASSUME Rotation!Assumptions, RotationInv
  PROVE  Rotation!BatchIsFair
<1> DEFINE f == [p \in Rotation!Product |-> Cardinality(Rotation!Preceding(p)) + 1]
           m == Rotation!Least(size, Products)
           batch == {Rotation!Batch[i] : i \in DOMAIN Rotation!Batch}
<1>1. /\ batch = {p \in Rotation!Product : f[p] <= m} /\ IsFiniteSet(batch) /\ Cardinality(batch) = m
      /\ m \in Nat
  BY BatchIs
<1>2. Within \subseteq batch
  BY <1>1, WithinIsTaken DEF Within
<1>3. /\ f \in [Rotation!Product -> Rotation!Product]
      /\ \A p, q \in Rotation!Product : Rotation!Before(p, q) <=> f[p] < f[q]
  BY OrderedIs
<1>4. \A p \in Rotation!Product : f[p] \in Nat
  BY <1>3 DEF Rotation!Product
<1> HIDE DEF f, batch
<1>5. ASSUME NEW kind \in {watched, Rotation!Product \ watched},
             NEW quota, quota = IF kind = watched THEN Rotation!WatchQuota ELSE Rotation!HistoryQuota
      PROVE  /\ Cardinality(batch \cap kind) >= Rotation!Least(quota, Cardinality(kind))
             /\ \A p \in batch \cap kind, q \in kind \ batch : place[p] < place[q]
  <2>1. /\ IsFiniteSet(kind) /\ Cardinality(kind) \in Nat
        /\ IsFiniteSet(Within \cap kind)
        /\ Cardinality(Within \cap kind) = Rotation!Least(quota, Cardinality(kind))
        /\ \A p \in kind : p \in Rotation!Product /\ Rotation!Kind(p) = kind /\ Rotation!Quota(p) = quota
    BY <1>5, WithinKind
  <2>2. Cardinality(batch \cap kind) >= Rotation!Least(quota, Cardinality(kind))
    <3>1. Within \cap kind \in SUBSET (batch \cap kind)
      BY <1>2
    <3>2. IsFiniteSet(batch \cap kind)
      BY <1>1, FS_Intersection
    <3>3. Cardinality(Within \cap kind) <= Cardinality(batch \cap kind)
      BY <3>1, <3>2, FS_Subset
    <3>4. Cardinality(Within \cap kind) \in Nat /\ Cardinality(batch \cap kind) \in Nat
      BY <2>1, <3>2, FS_CardinalityType
    <3> QED
      BY <2>1, <3>3, <3>4
  <2>3. ASSUME NEW p \in batch \cap kind, NEW q \in kind \ batch
        PROVE  place[p] < place[q]
    <3>1. p \in Rotation!Product /\ q \in Rotation!Product /\ Rotation!Kind(p) = kind /\ Rotation!Kind(q) = kind
      BY <2>1
    <3>2. f[p] <= m /\ ~(f[q] <= m)
      BY <1>1, <2>3, <3>1
    <3>3. ~Rotation!Before(q, p)
      BY <1>1, <1>3, <1>4, <3>1, <3>2
    <3>4. place[p] \in Nat /\ place[q] \in Nat /\ place[p] # place[q]
      <4>1. p # q
        BY <2>3
      <4> QED
        BY <3>1, <4>1, RankIs DEF RotationInv
    <3>5. ASSUME place[q] < place[p] PROVE FALSE
      <4>1. Rotation!Rank(q) < Rotation!Rank(p)
        <5> DEFINE g == [r \in kind |-> Cardinality({s \in kind : place[s] <= place[r]})]
        <5>1. kind \in SUBSET Rotation!Product
          BY <2>1
        <5>2. g[q] < g[p]
          BY <2>3, <3>5, <5>1, KindRanks
        <5> QED
          BY <2>3, <3>1, <5>2, RankIs
      <4>2. Rotation!Quota(p) = Rotation!Quota(q) /\ (p \in watched <=> q \in watched)
        BY <2>1, <2>3
      <4>3. Out(q) <= Out(p)
        <5>1. Rotation!Rank(p) \in Nat /\ Rotation!Rank(q) \in Nat /\ Rotation!Quota(p) \in Nat
          BY <3>1, RankIs
        <5> QED
          BY <4>1, <4>2, <5>1 DEF Out
      <4>4. Key(q) < Key(p)
        <5> DEFINE s == IF p \in watched THEN IF Rotation!HistoryQuota > 1 THEN Rotation!HistoryQuota ELSE 1 ELSE Rotation!WatchQuota
        <5>1. s \in Nat /\ s > 0
          BY Quotas
        <5>2. Key(q) = Rotation!Rank(q) * s /\ Key(p) = Rotation!Rank(p) * s
          BY <4>2 DEF Key
        <5>3. Rotation!Rank(q) \in Nat /\ Rotation!Rank(p) \in Nat
          BY <3>1, RankIs
        <5> HIDE DEF s
        <5> QED
          BY <4>1, <5>1, <5>2, <5>3, Multiples
      <4>5. Rotation!Before(q, p)
        <5>1. Out(p) \in Nat /\ Out(q) \in Nat
          BY <3>1, RankIs
        <5>2. Out(q) < Out(p) \/ (Out(q) = Out(p) /\ Key(q) < Key(p))
          BY <4>3, <4>4, <5>1
        <5> QED
          BY <3>1, <5>2, BeforeIs
      <4> QED
        BY <3>3, <4>5
    <3> QED
      BY <3>4, <3>5
  <2> QED
    BY <2>2, <2>3
<1> QED
  BY <1>1, <1>5, RotationSizes DEF Rotation!BatchIsFair, batch

\* The steps.

PlacesOK == place \in [Rotation!Product -> Rotation!Product] /\ \A p, q \in Rotation!Product : place[p] = place[q] => p = q

\* A check moves one product to the end and those behind it one place up.
LEMMA CheckedKeepsPlaces ==
  ASSUME Rotation!Assumptions, PlacesOK, NEW p \in Rotation!Product, Rotation!Checked(p)
  PROVE  PlacesOK'
<1>1. Products \in Int /\ \A x : x \in Rotation!Product <=> x \in Int /\ 1 <= x /\ x <= Products
  BY DEF Rotation!Product, Rotation!Assumptions
<1>2. place \in [Rotation!Product -> Rotation!Product] /\ \A q, r \in Rotation!Product : place[q] = place[r] => q = r
  BY DEF PlacesOK
<1>3. place' = [q \in Rotation!Product |-> IF q = p THEN Products ELSE IF place[q] > place[p] THEN place[q] - 1 ELSE place[q]]
  BY DEF Rotation!Checked
<1>4. \A q \in Rotation!Product : q # p => place[q] # place[p]
  BY <1>2
<1>5. ASSUME NEW q \in Rotation!Product
      PROVE  place'[q] \in Rotation!Product /\ (q # p => place'[q] < Products)
  <2>1. /\ place[q] \in Int /\ 1 <= place[q] /\ place[q] <= Products
        /\ place[p] \in Int /\ 1 <= place[p] /\ place[p] <= Products
    BY <1>1, <1>2
  <2>2. place'[q] = IF q = p THEN Products ELSE IF place[q] > place[p] THEN place[q] - 1 ELSE place[q]
    BY <1>3
  <2>3. q # p => place[q] # place[p]
    BY <1>4
  <2> QED
    BY <1>1, <2>1, <2>2, <2>3
<1>6. ASSUME NEW q \in Rotation!Product, NEW r \in Rotation!Product, place'[q] = place'[r]
      PROVE  q = r
  <2>1. \A x \in Rotation!Product : place[x] \in Int
    BY <1>1, <1>2
  <2>2. CASE q = p \/ r = p
    BY <1>1, <1>3, <1>5, <1>6, <2>2
  <2>3. CASE q # p /\ r # p
    <3>1. /\ place'[q] = IF place[q] > place[p] THEN place[q] - 1 ELSE place[q]
          /\ place'[r] = IF place[r] > place[p] THEN place[r] - 1 ELSE place[r]
      BY <1>3, <2>3
    <3>2. place[q] # place[p] /\ place[r] # place[p]
      BY <1>4, <2>3
    <3>3. place[p] \in Int /\ place[q] \in Int /\ place[r] \in Int
      BY <2>1
    <3>4. place[q] = place[r]
      <4>1. (IF place[q] > place[p] THEN place[q] - 1 ELSE place[q])
              = (IF place[r] > place[p] THEN place[r] - 1 ELSE place[r])
        BY <1>6, <3>1
      <4> QED
        BY <3>2, <3>3, <4>1
    <3> QED
      BY <1>2, <3>4
  <2> QED
    BY <2>2, <2>3
<1>7. place' \in [Rotation!Product -> Rotation!Product]
  BY <1>3, <1>5
<1> QED
  BY <1>6, <1>7 DEF PlacesOK

\* What is left of a batch.
QueueOK ==
  /\ done \in Nat /\ rotationQueue \in Seq(Rotation!Product) /\ done + Len(rotationQueue) <= size
  /\ \A i, j \in DOMAIN rotationQueue : i # j => rotationQueue[i] # rotationQueue[j]

LEMMA TailKeepsQueue ==
  ASSUME QueueOK, rotationQueue # <<>>, rotationQueue' = Tail(rotationQueue), done' = done + 1, size' = size
  PROVE  QueueOK'
<1>1. /\ rotationQueue \in Seq(Rotation!Product) /\ Len(rotationQueue) \in Nat /\ Len(rotationQueue) >= 1 /\ DOMAIN rotationQueue = 1..Len(rotationQueue)
      /\ done \in Nat /\ done + Len(rotationQueue) <= size
      /\ \A i, j \in DOMAIN rotationQueue : i # j => rotationQueue[i] # rotationQueue[j]
  BY DEF QueueOK
<1>2. /\ Tail(rotationQueue) \in Seq(Rotation!Product) /\ Len(Tail(rotationQueue)) = Len(rotationQueue) - 1
      /\ DOMAIN Tail(rotationQueue) = 1..(Len(rotationQueue) - 1)
      /\ \A i \in 1..(Len(rotationQueue) - 1) : Tail(rotationQueue)[i] = rotationQueue[i + 1]
  BY <1>1
<1>3. \A i \in 1..(Len(rotationQueue) - 1) : i + 1 \in DOMAIN rotationQueue
  BY <1>1
<1>4. \A i, j \in DOMAIN Tail(rotationQueue) : i # j => Tail(rotationQueue)[i] # Tail(rotationQueue)[j]
  BY <1>1, <1>2, <1>3
<1>5. done' + Len(rotationQueue') <= size /\ done' \in Nat
  BY <1>1, <1>2
<1> QED
  BY <1>2, <1>4, <1>5 DEF QueueOK

LEMMA RotationInvIs ==
  RotationInv <=> size \in 1..MaxSize /\ PlacesOK /\ QueueOK /\ watched \subseteq Rotation!Product /\ busy \subseteq Rotation!Product /\ visitors \in 0..MaxVisitors
BY DEF RotationInv, PlacesOK, QueueOK

LEMMA RotationInit ==
  ASSUME Rotation!Assumptions, Rotation!Init
  PROVE  RotationInv
BY DEF Rotation!Assumptions, Rotation!Init, RotationInv, Rotation!Product

LEMMA RotationNext ==
  ASSUME Rotation!Assumptions, RotationInv, [Rotation!Next]_(Rotation!vars)
  PROVE  RotationInv'
<1>1. size \in 1..MaxSize /\ PlacesOK /\ QueueOK /\ watched \subseteq Rotation!Product /\ busy \subseteq Rotation!Product /\ visitors \in 0..MaxVisitors
  BY RotationInvIs
<1>2. CASE UNCHANGED Rotation!vars
  BY <1>2 DEF RotationInv, Rotation!vars, Rotation!config
<1>3. CASE Rotation!Begin
  <2> DEFINE f == [p \in Rotation!Product |-> Cardinality(Rotation!Preceding(p)) + 1]
             m == Rotation!Least(size, Products)
  <2>1. /\ m \in Nat /\ m <= size /\ Rotation!Batch \in Seq(Rotation!Product) /\ Len(Rotation!Batch) = m
        /\ \A i, j \in DOMAIN Rotation!Batch : i # j => Rotation!Batch[i] # Rotation!Batch[j]
    BY BatchIs
  <2> HIDE DEF f, m
  <2>2. rotationQueue' = Rotation!Batch /\ done' = 0 /\ UNCHANGED <<size, place, watched, busy, visitors>>
    BY <1>3 DEF Rotation!Begin, Rotation!config
  <2>3. done' + Len(rotationQueue') <= size
    BY <2>1, <2>2
  <2> QED
    BY <2>1, <2>2, <2>3 DEF RotationInv
<1>4. CASE Rotation!Turn
  <2>1. rotationQueue # <<>> /\ rotationQueue' = Tail(rotationQueue) /\ done' = done + 1 /\ UNCHANGED <<size, watched, busy, visitors>>
    BY <1>4 DEF Rotation!Turn, Rotation!Check, Rotation!Busy, Rotation!config
  <2>2. QueueOK'
    BY <1>1, <2>1, TailKeepsQueue
  <2>3. Head(rotationQueue) \in Rotation!Product
    BY <1>1, <2>1 DEF QueueOK
  <2>4. PlacesOK'
    <3>1. CASE Rotation!Check
      BY <1>1, <2>3, <3>1, CheckedKeepsPlaces DEF Rotation!Check
    <3>2. CASE Rotation!Busy
      BY <1>1, <3>2 DEF Rotation!Busy, PlacesOK
    <3> QED
      BY <1>4, <3>1, <3>2 DEF Rotation!Turn
  <2> QED
    BY <1>1, <2>1, <2>2, <2>4, RotationInvIs DEF RotationInv, PlacesOK, QueueOK
<1>5. CASE Rotation!Cut
  <2>1. rotationQueue' = <<>> /\ UNCHANGED <<size, place, watched, done, busy, visitors>>
    BY <1>5 DEF Rotation!Cut, Rotation!config
  <2>2. done' + Len(rotationQueue') <= size
    BY <1>1, <2>1 DEF QueueOK, Rotation!Assumptions
  <2> QED
    BY <2>1, <2>2 DEF RotationInv
<1>6. ASSUME NEW p \in Rotation!Product, Rotation!Watch(p) \/ Rotation!Visit(p)
      PROVE  RotationInv'
  <2>1. UNCHANGED <<size, place, rotationQueue, done>>
    BY <1>6 DEF Rotation!Watch, Rotation!Visit, Rotation!config
  <2>2. watched' \subseteq Rotation!Product /\ busy' \subseteq Rotation!Product /\ visitors' \in 0..MaxVisitors
    BY <1>1, <1>6 DEF Rotation!Watch, Rotation!Visit, Rotation!Assumptions, Rotation!config
  <2> QED
    BY <2>1, <2>2 DEF RotationInv
<1>7. ASSUME NEW p \in Rotation!Product, Rotation!Leave(p)
      PROVE  RotationInv'
  <2>1. busy' \subseteq Rotation!Product /\ UNCHANGED <<size, watched, rotationQueue, done, visitors>>
    BY <1>1, <1>7 DEF Rotation!Leave, Rotation!config
  <2>2. PlacesOK'
    <3>1. CASE Rotation!Checked(p)
      BY <1>1, <3>1, CheckedKeepsPlaces
    <3>2. CASE UNCHANGED place
      BY <1>1, <3>2 DEF PlacesOK
    <3> QED
      BY <1>7, <3>1, <3>2 DEF Rotation!Leave, Rotation!config
  <2> QED
    BY <1>1, <2>1, <2>2 DEF RotationInv, PlacesOK, QueueOK
<1> QED
  BY <1>2, <1>3, <1>4, <1>5, <1>6, <1>7 DEF Rotation!Next

LEMMA RotationImplied ==
  ASSUME Rotation!Assumptions, RotationInv
  PROVE  Rotation!TypeOK /\ Rotation!BatchIsFair
<1>1. done \in 0..size
  BY DEF RotationInv, Rotation!Assumptions
<1>2. Rotation!TypeOK
  BY <1>1 DEF RotationInv, Rotation!TypeOK
<1> QED
  BY <1>2, InvIsFair

--------------------------------------------------------------------------------
(* The parts together. *)

\* A step of the jobs is one of each part, or leaves it alone.
LEMMA PartsStep ==
  ASSUME [NextParts]_everything
  PROVE  /\ [Pnp!Next]_(Pnp!vars) /\ [Page!Next]_(Page!vars)
         /\ [Rotation!Next]_(Rotation!vars) /\ [Seed!Next]_(Seed!vars)
<1>1. [Pnp!Next]_(Pnp!vars)
  BY DEF NextParts, everything, pnpVars, Pnp!vars, Pnp!config, Pnp!work
<1>2. [Page!Next]_(Page!vars)
  BY DEF NextParts, everything, pageVars, Page!vars, Page!lookup, Page!outer
<1>3. [Rotation!Next]_(Rotation!vars)
  BY DEF NextParts, everything, rotationVars, Rotation!vars, Rotation!config
<1>4. [Seed!Next]_(Seed!vars)
  <2>1. UNCHANGED seedVars => UNCHANGED Seed!vars
    BY DEF seedVars, Seed!vars
  <2>2. Seed!Act("server") => Seed!Next \/ UNCHANGED Seed!vars
    BY PartsAssumption DEF Seed!Next
  <2> QED
    BY <2>1, <2>2 DEF NextParts, everything
<1> QED
  BY <1>1, <1>2, <1>3, <1>4

\* What a lookup gives or writes is the product asked for at a usable price, nothing is
\* started or written for a caller who has been answered, and a browser only after the
\* search by EAN failed: scrapers/pnp.js, woolworths.js, checkers.js and boundedScrape, for
\* any budget, any number of articles and any answers.
THEOREM LookupsStayExact == SpecParts => []LookupsAreExact
<1>1. Pnp!Assumptions /\ Page!Assumptions
  BY PartsAssumption
<1>2. InitParts => PnpInv /\ PageInv
  BY <1>1, PnpInit, PageInit DEF InitParts
<1>3. PnpInv /\ PageInv /\ [NextParts]_everything => PnpInv' /\ PageInv'
  BY <1>1, PnpNext, PageNext, PartsStep
<1>4. PnpInv /\ PageInv => LookupsAreExact
  BY <1>1, PnpImplied, PageImplied DEF LookupsAreExact
<1> QED
  BY <1>2, <1>3, <1>4, PTL DEF SpecParts

\* A batch is full, keeps its quotas and takes of each kind those that have waited longest
\* (getWatchlistCandidates); no list of the seed names a product twice, and what it calls
\* completed was done, whatever else wrote the file (scripts/seed-catalogue.js): for any number
\* of products, any batch size and any number of runs and crashes.
THEOREM BatchesStayFair == SpecParts => []BatchesAreFair
<1>1. Rotation!Assumptions /\ Seed!Assumptions
  BY PartsAssumption
<1>2. InitParts => RotationInv /\ SeedInv
  BY <1>1, RotationInit, SeedInit DEF InitParts
<1>3. RotationInv /\ SeedInv /\ [NextParts]_everything => RotationInv' /\ SeedInv'
  BY <1>1, RotationNext, SeedNext, PartsStep
<1>4. RotationInv /\ SeedInv => BatchesAreFair
  BY <1>1, RotationImplied, SeedImplied DEF BatchesAreFair
<1> QED
  BY <1>2, <1>3, <1>4, PTL DEF SpecParts

\* Whichever part is at work, the watchlist items start and step as they do by themselves,
\* which is all that the theorems about them use of Spec.
THEOREM PartsAreSpec == SpecParts => Init /\ [][Next]_vars
<1>1. InitParts => Init
  BY DEF InitParts
<1>2. [NextParts]_everything => [Next]_vars
  BY DEF NextParts, everything
<1> QED
  BY <1>1, <1>2, PTL DEF SpecParts
================================================================================
