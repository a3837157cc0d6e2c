-------------------------- MODULE AlertDeliveryProofs --------------------------
(***************************************************************************)
(* AlertDelivery, proved for any set of alerts, workers, tokens, prices    *)
(* and any cooldown that outlasts a run, that it implements AlertNotice,   *)
(* and the paging of AlertPaging for any page size.                        *)
(***************************************************************************)
EXTENDS AlertPaging, FiniteSetTheorems, WellFoundedInduction, TLAPS

USE KeyAssumption, TokenAssumption, PriceAssumption, CooldownAssumption, PageAssumption
    DEF KeyAssumption, TokenAssumption, PriceAssumption, CooldownAssumption, PageAssumption

\* Only compared alerts are loaded, and only by a worker that is running.
PageCompared ==
  \A w \in Worker :
    /\ pc[w] = "idle" => page[w] = {}
    /\ \A row \in page[w] : row.id \in DOMAIN best[w]

\* Attempts in progress carry different tokens.
TokensDistinct ==
  \A v, w \in Worker :
    v # w /\ pc[v] \in Busy /\ pc[w] \in Busy => job[v].token # job[w].token

\* What the worker knows of its e-mail is true of the current claim.
MailKnown ==
  \A w \in Worker :
    /\ pc[w] \in {"claimed", "sending"} => ~mailed[job[w].id] /\ ~job[w].ok
    /\ pc[w] = "accepted" => mailed[job[w].id] /\ ~job[w].ok
    /\ pc[w] = "completing" /\ job[w].ok => mailed[job[w].id]

IInv ==
  /\ TypeOK
  /\ PageCompared
  /\ TokensDistinct
  /\ DeliveryOwnsClaim
  /\ MailKnown
  /\ SentMeansMailed

--------------------------------------------------------------------------------

\* A found price that leads to a notification is a real price.
LEMMA NotifiedPrice ==
  ASSUME TypeOK, PageCompared, NEW w \in Worker, NEW row \in page[w],
         ShouldNotify(row, best[w][row.id])
  PROVE  /\ row.id \in Key
         /\ best[w][row.id] \in Price
  <1>1. row \in PageRow /\ row.id \in Key
    BY DEF TypeOK, PageRow
  <1>2. PICK S \in SUBSET Key : best[w] \in [S -> Price \cup {NoPrice}]
    BY DEF TypeOK, Found
  <1>3. row.id \in S
    BY <1>2 DEF PageCompared
  <1> QED
    BY <1>1, <1>2, <1>3 DEF ShouldNotify

LEMMA NothingFound == Nothing \in Found
  <1>1. Nothing \in [{} -> Price \cup {NoPrice}]
    BY DEF Nothing
  <1> QED
    BY <1>1 DEF Found

LEMMA InitIInv == Init => IInv
  <1> SUFFICES ASSUME Init PROVE IInv
    OBVIOUS
  <1>1. TypeOK
    <2>2. \A t \in Target : NeverSent(FALSE, t) \in AlertRow
      BY DEF NeverSent, AlertRow, Age, Expired
    <2>4. alert \in [Key -> AlertRow]
      <3>1. alert \in [Key -> {NeverSent(FALSE, t) : t \in Target}]
        BY DEF Init
      <3>2. {NeverSent(FALSE, t) : t \in Target} \subseteq AlertRow
        BY <2>2
      <3> QED
        BY <3>1, <3>2
    <2>3. claim \in [Key -> ClaimRow]
      BY DEF Init, ClaimRow, Age, Expired
    <2> QED
      BY NothingFound, <2>4, <2>3 DEF Init, TypeOK, Busy
  <1>2. PageCompared /\ TokensDistinct /\ DeliveryOwnsClaim /\ MailKnown /\ SentMeansMailed
    BY DEF Init, PageCompared, TokensDistinct, DeliveryOwnsClaim, Owning, Harmless, MailKnown, SentMeansMailed, Busy
  <1> QED
    BY <1>1, <1>2 DEF IInv

--------------------------------------------------------------------------------
(* Steps that leave the tables, the history and the attempts alone. *)

\* A worker leaving takes nothing with it.
LEMMA LeaveKeeps ==
  ASSUME IInv, NEW w \in Worker, Leave(w)
  PROVE  IInv'
  <1>1. TypeOK'
    BY NothingFound DEF IInv, TypeOK, Leave, tables, Busy
  <1>2. PageCompared'
    BY DEF IInv, TypeOK, PageCompared, Leave
  <1>3. TokensDistinct'
    BY DEF IInv, TypeOK, TokensDistinct, Leave, Busy
  <1>4. DeliveryOwnsClaim'
    BY DEF IInv, TypeOK, DeliveryOwnsClaim, Owning, Harmless, Leave, tables, Busy
  <1>5. MailKnown'
    BY DEF IInv, TypeOK, MailKnown, Leave, Busy
  <1>6. SentMeansMailed'
    BY DEF IInv, SentMeansMailed, Leave, tables
  <1> QED
    BY <1>1, <1>2, <1>3, <1>4, <1>5, <1>6 DEF IInv

\* Users only touch the active flag and the target.
LEMMA UserKeeps == IInv /\ UserActs => IInv'
  <1> SUFFICES ASSUME IInv, UserActs PROVE IInv'
    OBVIOUS
  <1>1. PICK k \in Key : Deactivate(k) \/ \E t \in Target : SetAlert(k, t)
    BY DEF UserActs
  <1>2. UNCHANGED <<claim, pc, runVars, pageVars, job, mailed>>
    BY <1>1 DEF Deactivate, SetAlert
  <1>3. /\ alert' \in [Key -> AlertRow]
        /\ \A j \in Key : alert'[j].lastPrice = alert[j].lastPrice /\ alert'[j].lastAge = alert[j].lastAge
    <2>1. alert \in [Key -> AlertRow]
      BY DEF IInv, TypeOK
    <2>2. CASE Deactivate(k)
      BY <2>1, <2>2 DEF Deactivate, AlertRow
    <2>3. CASE \E t \in Target : SetAlert(k, t)
      BY <2>1, <2>3 DEF SetAlert, AlertRow
    <2> QED
      BY <1>1, <2>2, <2>3
  <1>4. TypeOK'
    BY <1>2, <1>3 DEF IInv, TypeOK, runVars, pageVars
  <1>5. PageCompared' /\ TokensDistinct' /\ DeliveryOwnsClaim' /\ MailKnown'
    BY <1>2 DEF IInv, PageCompared, TokensDistinct, DeliveryOwnsClaim, Owning, Harmless, MailKnown, runVars, pageVars
  <1>6. SentMeansMailed'
    BY <1>2, <1>3 DEF IInv, SentMeansMailed
  <1> QED
    BY <1>4, <1>5, <1>6 DEF IInv

LEMMA BeginKeeps ==
  ASSUME IInv, NEW w \in Worker, Begin(w)
  PROVE  IInv'
  <1>1. TypeOK'
    BY DEF IInv, TypeOK, Begin, tables, pageVars, Busy
  <1>2. PageCompared'
    BY DEF IInv, TypeOK, PageCompared, Begin, pageVars
  <1>3. TokensDistinct' /\ DeliveryOwnsClaim' /\ MailKnown' /\ SentMeansMailed'
    BY DEF IInv, TypeOK, TokensDistinct, DeliveryOwnsClaim, Owning, Harmless, MailKnown, SentMeansMailed,
           Begin, tables, Busy
  <1> QED
    BY <1>1, <1>2, <1>3 DEF IInv

\* Loading a page.
LEMMA LoadPageKeeps ==
  ASSUME IInv, NEW w \in Worker, LoadPage(w)
  PROVE  IInv'
  <1>0. pc[w] \notin Busy
    BY DEF LoadPage, NextPage, PageDone, Busy
  <1>1. PageIds(w) \subseteq Key /\ PageIds(w) \subseteq DOMAIN best[w]
    <2>1. PageIds(w) \subseteq DOMAIN best[w]
      BY DEF PageIds, Wanted
    <2>2. PICK S \in SUBSET Key : best[w] \in [S -> Price \cup {NoPrice}]
      BY DEF IInv, TypeOK, Found
    <2> QED
      BY <2>1, <2>2
  <1>2. page'[w] \subseteq PageRow /\ \A row \in page'[w] : row.id \in DOMAIN best[w]
    <2> DEFINE Row(k) == [id |-> k, target |-> alert[k].target,
                          lastPrice |-> alert[k].lastPrice, lastAge |-> alert[k].lastAge]
    <2>1. page'[w] = {Row(k) : k \in PageIds(w)}
      BY DEF LoadPage, IInv, TypeOK
    <2>2. \A k \in PageIds(w) : Row(k) \in PageRow /\ Row(k).id = k
      BY <1>1 DEF IInv, TypeOK, AlertRow, PageRow
    <2> HIDE DEF Row
    <2> QED
      BY <1>1, <2>1, <2>2
  <1>3. TypeOK'
    BY <1>2 DEF IInv, TypeOK, LoadPage, tables, runVars, Busy
  <1>4. PageCompared'
    BY <1>2 DEF IInv, TypeOK, PageCompared, LoadPage, runVars
  <1>5. TokensDistinct' /\ DeliveryOwnsClaim' /\ MailKnown' /\ SentMeansMailed'
    BY <1>0 DEF IInv, TypeOK, TokensDistinct, DeliveryOwnsClaim, Owning, Harmless, MailKnown, SentMeansMailed,
           LoadPage, tables, runVars, Busy
  <1> QED
    BY <1>3, <1>4, <1>5 DEF IInv

\* Going on without touching an alert: an alert that needs no
\* notice, a refused claim, or the loss of the lock.
LEMMA WalkKeeps ==
  ASSUME IInv, NEW w \in Worker,
         Skip(w) \/ Suppressed(w) \/ LoseStanding(w)
  PROVE  IInv'
  <1>1. /\ UNCHANGED <<tables, runAge, best, job, mailed>>
        /\ held' \in [Worker -> BOOLEAN]
        /\ full' = full
        /\ pc' = pc
        /\ page' = page \/ \E row \in page[w] : page' = [page EXCEPT ![w] = @ \ {row}]
        /\ afterId' = afterId \/ \E row \in page[w] :
             afterId' = [afterId EXCEPT ![w] = IF row.id > @ THEN row.id ELSE @]
    BY DEF Skip, Suppressed, LoseStanding, Pass, IsNext, runVars, pageVars,
           IInv, TypeOK
  <1>2. page' \in [Worker -> SUBSET PageRow] /\ \A v \in Worker : page'[v] \subseteq page[v]
    BY <1>1 DEF IInv, TypeOK
  <1>3. afterId' \in [Worker -> Nat]
    <2>1. CASE afterId' = afterId
      BY <2>1 DEF IInv, TypeOK
    <2>2. ASSUME NEW row \in page[w],
                 afterId' = [afterId EXCEPT ![w] = IF row.id > @ THEN row.id ELSE @]
          PROVE  afterId' \in [Worker -> Nat]
      <3>1. row \in PageRow
        BY DEF IInv, TypeOK
      <3>2. row.id \in Nat
        BY <3>1 DEF PageRow
      <3> QED
        BY <2>2, <3>2 DEF IInv, TypeOK
    <2> QED
      BY <1>1, <2>1, <2>2
  <1>5. TypeOK'
    BY <1>1, <1>2, <1>3 DEF IInv, TypeOK, tables, Busy
  <1>6. PageCompared'
    BY <1>1, <1>2 DEF IInv, PageCompared
  <1>7. TokensDistinct' /\ DeliveryOwnsClaim' /\ MailKnown' /\ SentMeansMailed'
    BY <1>1 DEF IInv, TypeOK, TokensDistinct, DeliveryOwnsClaim, Owning, Harmless, MailKnown,
       SentMeansMailed, tables, Busy
  <1> QED
    BY <1>5, <1>6, <1>7 DEF IInv

--------------------------------------------------------------------------------
(* The delivery of one alert. *)

\* A claim can only be replaced when nobody still relies on it: whoever is
\* delivering the alert has at most a failed completion left to do.
LEMMA ReplaceIsSafe ==
  ASSUME IInv, NEW v \in Worker, NEW k \in Key, NEW p \in Price,
         Delivering(v, k), MayReplace(claim[k], p)
  PROVE  pc[v] = "completing" /\ ~job[v].ok
  <1>1. CASE Owning(v)
    <2>1. claim[k].age \in Nat /\ runAge[v] \in Nat /\ runAge[v] <= Cooldown
      BY DEF IInv, TypeOK, ClaimRow, Age, Expired
    <2> QED
      BY <1>1, <2>1 DEF MayReplace, Owning, Delivering
  <1>2. CASE Harmless(v)
    BY <1>2 DEF Harmless
  <1> QED
    BY <1>1, <1>2 DEF IInv, DeliveryOwnsClaim, Delivering

LEMMA ClaimKeeps ==
  ASSUME IInv, NEW w \in Worker, Claim(w) \/ ClaimFails(w)
  PROVE  IInv'
  <1>1. PICK row \in page[w], t \in Token \ InUse :
          /\ IsNext(w, row)
          /\ ShouldNotify(row, best[w][row.id])
          /\ Pass(w, row)
          /\ job' = [job EXCEPT ![w] =
               [id |-> row.id, price |-> best[w][row.id], token |-> t, ok |-> FALSE]]
          /\ \/ /\ pc' = [pc EXCEPT ![w] = "claimed"]
                /\ MayClaim(row.id, best[w][row.id])
                /\ TakeClaim(row.id, best[w][row.id], t)
             \/ /\ pc' = [pc EXCEPT ![w] = "completing"]
                /\ \/ /\ MayClaim(row.id, best[w][row.id])
                      /\ TakeClaim(row.id, best[w][row.id], t)
                   \/ UNCHANGED <<claim, mailed>>
    BY DEF Claim, ClaimFails
  <1> DEFINE k == row.id
             p == best[w][k]
  <1>2. UNCHANGED <<alert, runVars, full>>
    BY DEF Claim, ClaimFails
  <1>3. k \in Key /\ p \in Price
    BY <1>1, NotifiedPrice DEF IInv
  <1> HIDE DEF k, p
  <1>4. /\ t \in Token
        /\ \A j \in Key : claim[j].token # t
        /\ \A v \in Worker : pc[v] \in Busy => job[v].token # t
    BY <1>1 DEF InUse
  <1>5. pc[w] = "evaluating" /\ pc'[w] \in {"claimed", "completing"}
    BY <1>1 DEF IsNext, IInv, TypeOK
  <1>6. job'[w] = [id |-> k, price |-> p, token |-> t, ok |-> FALSE] /\ job'[w] \in Job
    BY <1>1, <1>3, <1>4 DEF IInv, TypeOK, Job, k, p
  <1>7. \A v \in Worker : v # w => pc'[v] = pc[v] /\ job'[v] = job[v]
    BY <1>1 DEF IInv, TypeOK
  <1>17. \A v \in Worker : v # w /\ pc[v] \in Busy => job[v].id \in Key
    BY DEF IInv, TypeOK, Job
  <1>8. \/ /\ claim' = [claim EXCEPT ![k] = [state |-> "claimed", price |-> p, token |-> t, age |-> 0]]
           /\ mailed' = [mailed EXCEPT ![k] = FALSE]
           /\ MayReplace(claim[k], p)
        \/ pc'[w] = "completing" /\ UNCHANGED <<claim, mailed>>
    BY <1>1, <1>5 DEF MayClaim, TakeClaim, IInv, TypeOK, k, p
  <1>18. /\ \A j \in Key : j # k => claim'[j] = claim[j] /\ mailed'[j] = mailed[j]
         /\ claim' # claim => claim'[k].token = t
         /\ claim' = claim => mailed' = mailed
    <2>1. CASE claim' = [claim EXCEPT ![k] = [state |-> "claimed", price |-> p, token |-> t, age |-> 0]]
               /\ mailed' = [mailed EXCEPT ![k] = FALSE]
      <3>1. claim'[k].token = t /\ claim[k].token # t
        BY <1>3, <1>4, <2>1 DEF IInv, TypeOK
      <3> QED
        BY <1>3, <2>1, <3>1 DEF IInv, TypeOK
    <2>2. CASE UNCHANGED <<claim, mailed>>
      BY <2>2
    <2> QED
      BY <1>8, <2>1, <2>2
  <1>9. /\ page' \in [Worker -> SUBSET PageRow]
        /\ \A v \in Worker : page'[v] \subseteq page[v]
        /\ afterId' \in [Worker -> Nat]
    BY <1>1, <1>3 DEF Pass, IInv, TypeOK, k
  <1>10. TypeOK'
    <2>1. claim' \in [Key -> ClaimRow] /\ mailed' \in [Key -> BOOLEAN]
      <3>1. [state |-> "claimed", price |-> p, token |-> t, age |-> 0] \in ClaimRow
        BY <1>3, <1>4 DEF ClaimRow, Age, Expired
      <3> QED
        BY <1>3, <1>8, <3>1, Zenon DEF IInv, TypeOK
    <2>2. pc' \in [Worker -> {"idle", "paging", "evaluating"} \cup Busy]
      BY <1>1 DEF IInv, TypeOK, Busy
    <2>3. job' \in [Worker -> Job \cup {NoJob}] /\ \A v \in Worker : pc'[v] \in Busy => job'[v] \in Job
      BY <1>1, <1>6, <1>7 DEF IInv, TypeOK
    <2> QED
      BY <1>2, <1>9, <2>1, <2>2, <2>3 DEF IInv, TypeOK, runVars
  <1>11. PageCompared'
    BY <1>2, <1>5, <1>7, <1>9 DEF IInv, PageCompared, runVars
  <1>12. TokensDistinct'
    BY <1>4, <1>6, <1>7 DEF IInv, TokensDistinct
  <1>13. \A v \in Worker : v # w /\ Delivering(v, k) /\ claim' # claim =>
             pc[v] = "completing" /\ ~job[v].ok
    BY <1>3, <1>8, ReplaceIsSafe
  <1>14. DeliveryOwnsClaim'
    <2> SUFFICES ASSUME NEW v \in Worker, pc'[v] \in Busy
                 PROVE Owning(v)' \/ Harmless(v)'
      BY DEF DeliveryOwnsClaim
    <2>1. CASE v = w
      <3>1. CASE UNCHANGED claim
        <4>1. ~(claim' = [claim EXCEPT ![k] = [state |-> "claimed", price |-> p, token |-> t, age |-> 0]])
          BY <1>3, <1>4, <3>1 DEF IInv, TypeOK
        <4>2. pc'[w] = "completing"
          BY <1>8, <4>1
        <4>3. job'[w].id = k /\ job'[w].token = t /\ job'[w].ok = FALSE
          BY <1>6
        <4>4. claim'[k].token # t
          BY <1>3, <1>4, <3>1
        <4>5. Harmless(w)'
          BY <4>2, <4>3, <4>4 DEF Harmless
        <4> QED
          BY <2>1, <4>5
      <3>2. CASE claim' # claim
        <4>1. claim'[k] = [state |-> "claimed", price |-> p, token |-> t, age |-> 0]
          BY <1>3, <1>8, <3>2 DEF IInv, TypeOK
        <4>2. runAge'[w] \in Nat
          BY <1>2 DEF IInv, TypeOK, runVars
        <4> QED
          BY <1>6, <2>1, <4>1, <4>2 DEF Owning
      <3> QED
        BY <3>1, <3>2
    <2>2. CASE v # w
      <3>1. pc'[v] = pc[v] /\ job'[v] = job[v] /\ runAge' = runAge /\ (Owning(v) \/ Harmless(v))
        BY <1>2, <1>7, <2>2 DEF IInv, DeliveryOwnsClaim, runVars
      <3>2. CASE claim'[job[v].id] = claim[job[v].id]
        BY <3>1, <3>2 DEF Owning, Harmless
      <3>3. CASE claim'[job[v].id] # claim[job[v].id]
        <4>1. job[v].id \in Key
          BY <1>17, <2>2, <3>1
        <4>2. job[v].id = k /\ claim'[k].token = t
          BY <1>18, <3>3, <4>1
        <4>3. pc[v] = "completing" /\ ~job[v].ok
          BY <1>13, <2>2, <3>1, <3>3, <4>2 DEF Delivering
        <4> QED
          BY <1>4, <3>1, <4>2, <4>3 DEF Harmless
      <3> QED
        BY <3>2, <3>3
    <2> QED
      BY <2>1, <2>2
  <1>15. MailKnown'
    <2> SUFFICES ASSUME NEW v \in Worker
                 PROVE /\ pc'[v] \in {"claimed", "sending"} => ~mailed'[job'[v].id] /\ ~job'[v].ok
                       /\ pc'[v] = "accepted" => mailed'[job'[v].id] /\ ~job'[v].ok
                       /\ pc'[v] = "completing" /\ job'[v].ok => mailed'[job'[v].id]
      BY DEF MailKnown
    <2>1. CASE v = w
      BY <1>3, <1>5, <1>6, <1>8, <2>1 DEF IInv, TypeOK
    <2>2. CASE v # w
      <3>1. CASE pc[v] \in Busy /\ job[v].id = k /\ claim' # claim
        BY <1>7, <1>13, <2>2, <3>1 DEF Delivering
      <3>2. CASE pc[v] \notin Busy
        BY <1>7, <2>2, <3>2 DEF Busy
      <3>3. CASE job[v].id # k \/ claim' = claim
        <4>1. mailed'[job[v].id] = mailed[job[v].id] \/ ~(pc[v] \in Busy)
          BY <1>17, <1>18, <2>2, <3>3
        <4> QED
          BY <1>7, <2>2, <4>1 DEF IInv, MailKnown, Busy
      <3> QED
        BY <3>1, <3>2, <3>3
    <2> QED
      BY <2>1, <2>2
  <1>16. SentMeansMailed'
    BY <1>2, <1>3, <1>8 DEF IInv, TypeOK, SentMeansMailed
  <1> QED
    BY <1>10, <1>11, <1>12, <1>14, <1>15, <1>16 DEF IInv

\* The steps between the claim and its completion.
LEMMA SendKeeps ==
  ASSUME IInv, NEW w \in Worker, Send(w) \/ ProviderAccepts(w) \/ SendOk(w) \/ SendFails(w)
  PROVE  IInv'
  <1>1. /\ pc[w] \in {"claimed", "sending", "accepted"}
        /\ UNCHANGED <<tables, runVars, pageVars>>
        /\ \/ pc' = [pc EXCEPT ![w] = "sending"] /\ job' = job /\ mailed' = mailed /\ pc[w] = "claimed"
           \/ pc' = [pc EXCEPT ![w] = "accepted"] /\ job' = job /\ pc[w] = "sending"
              /\ mailed' = [mailed EXCEPT ![job[w].id] = TRUE]
           \/ pc' = [pc EXCEPT ![w] = "completing"] /\ pc[w] = "accepted"
              /\ job' = [job EXCEPT ![w].ok = TRUE] /\ mailed' = mailed
           \/ pc' = [pc EXCEPT ![w] = "completing"] /\ job' = job /\ mailed' = mailed
    BY DEF Send, ProviderAccepts, SendOk, SendFails
  <1>2. job[w] \in Job /\ ~job[w].ok /\ pc[w] \in Busy
    BY <1>1 DEF IInv, TypeOK, MailKnown, Busy
  <1>3. /\ job'[w] \in Job
        /\ job'[w].id = job[w].id /\ job'[w].token = job[w].token /\ job'[w].price = job[w].price
        /\ job'[w].ok => pc'[w] = "completing" /\ pc[w] = "accepted"
        /\ \A v \in Worker : v # w => job'[v] = job[v]
        /\ job' \in [Worker -> Job \cup {NoJob}]
    <2>1. CASE job' = job
      BY <1>2, <2>1 DEF IInv, TypeOK
    <2>2. CASE job' = [job EXCEPT ![w].ok = TRUE] /\ pc[w] = "accepted"
               /\ pc' = [pc EXCEPT ![w] = "completing"]
      <3>1. [job[w] EXCEPT !.ok = TRUE] \in Job
        BY <1>2 DEF Job
      <3> QED
        BY <1>2, <2>2, <3>1 DEF IInv, TypeOK, Job
    <2> QED
      BY <1>1, <2>1, <2>2
  <1>4. /\ pc'[w] \in Busy /\ pc' \in [Worker -> {"idle", "paging", "evaluating"} \cup Busy]
        /\ \A v \in Worker : v # w => pc'[v] = pc[v]
        /\ pc'[w] # "claimed"
    BY <1>1, <1>2 DEF IInv, TypeOK, Busy
  <1>5. claim[job[w].id].token = job[w].token /\ Owning(w) /\ claim[job[w].id].state = "claimed"
    BY <1>1, <1>2 DEF IInv, DeliveryOwnsClaim, Owning, Harmless
  <1>6. TypeOK'
    <2>1. mailed' \in [Key -> BOOLEAN]
      BY <1>1, <1>2 DEF IInv, TypeOK, Job
    <2> QED
      BY <1>1, <1>3, <1>4, <2>1 DEF IInv, TypeOK, tables, runVars, pageVars
  <1>7. PageCompared'
    BY <1>1, <1>4 DEF IInv, PageCompared, runVars, pageVars, Busy
  <1>8. TokensDistinct'
    BY <1>2, <1>3, <1>4 DEF IInv, TokensDistinct
  <1>9. DeliveryOwnsClaim'
    <2> SUFFICES ASSUME NEW v \in Worker, pc'[v] \in Busy
                 PROVE Owning(v)' \/ Harmless(v)'
      BY DEF DeliveryOwnsClaim
    <2>1. CASE v = w
      BY <1>1, <1>3, <1>5, <2>1 DEF Owning, tables, runVars
    <2>2. CASE v # w
      BY <1>1, <1>3, <1>4, <2>2 DEF IInv, DeliveryOwnsClaim, Owning, Harmless, tables, runVars
    <2> QED
      BY <2>1, <2>2
  <1>10. MailKnown'
    <2> SUFFICES ASSUME NEW v \in Worker
                 PROVE /\ pc'[v] \in {"claimed", "sending"} => ~mailed'[job'[v].id] /\ ~job'[v].ok
                       /\ pc'[v] = "accepted" => mailed'[job'[v].id] /\ ~job'[v].ok
                       /\ pc'[v] = "completing" /\ job'[v].ok => mailed'[job'[v].id]
      BY DEF MailKnown
    <2>1. CASE v = w
      BY <1>1, <1>2, <1>3, <1>4, <2>1 DEF IInv, TypeOK, MailKnown, Job
    <2>2. CASE v # w /\ mailed'[job[v].id] = mailed[job[v].id]
      BY <1>3, <1>4, <2>2 DEF IInv, MailKnown
    <2>3. CASE v # w /\ mailed'[job[v].id] # mailed[job[v].id] /\ pc[v] \in Busy
      <3>1. job[v].id = job[w].id /\ mailed'[job[v].id] = TRUE
        BY <1>1, <1>2, <2>3 DEF IInv, TypeOK, Job
      <3>2. ~(pc[v] \in {"claimed", "sending"})
        <4>1. SUFFICES ASSUME pc[v] \in {"claimed", "sending"} PROVE FALSE
          OBVIOUS
        <4>2. claim[job[v].id].token = job[v].token
          BY <2>3, <4>1 DEF IInv, DeliveryOwnsClaim, Owning, Harmless
        <4> QED
          BY <1>2, <1>5, <2>3, <3>1, <4>2 DEF IInv, TokensDistinct
      <3> QED
        BY <1>3, <1>4, <2>3, <3>1, <3>2 DEF IInv, MailKnown
    <2>4. CASE v # w /\ pc[v] \notin Busy
      BY <1>4, <2>4 DEF Busy
    <2> QED
      BY <2>1, <2>2, <2>3, <2>4
  <1>11. SentMeansMailed'
    BY <1>1, <1>2 DEF IInv, TypeOK, SentMeansMailed, Job, tables
  <1> QED
    BY <1>6, <1>7, <1>8, <1>9, <1>10, <1>11 DEF IInv

\* The completion, whether it works, fails or is given up.
LEMMA CompleteKeeps ==
  ASSUME IInv, NEW w \in Worker, Complete(w) \/ CompleteFails(w) \/ CompleteGivesUp(w)
  PROVE  IInv'
  <1> DEFINE k == job[w].id
  <1>1. /\ pc[w] = "completing" /\ job[w] \in Job /\ k \in Key
        /\ UNCHANGED <<runVars, pageVars, mailed>>
    BY DEF Complete, CompleteFails, CompleteGivesUp, NextAlert, IInv, TypeOK, Busy, Job
  <1> HIDE DEF k
  <1>2. \/ job' = [job EXCEPT ![w] = NoJob] /\ pc' = [pc EXCEPT ![w] = "evaluating"]
        \/ job' = [job EXCEPT ![w].ok = FALSE] /\ pc' = pc /\ job[w].ok
    BY DEF Complete, CompleteFails, CompleteGivesUp, NextAlert
  <1>3. /\ job' \in [Worker -> Job \cup {NoJob}]
        /\ \A v \in Worker : v # w => job'[v] = job[v] /\ pc'[v] = pc[v]
        /\ \/ pc'[w] = "evaluating"
           \/ /\ pc'[w] = "completing" /\ job'[w] \in Job /\ ~job'[w].ok /\ job[w].ok
              /\ job'[w].id = k /\ job'[w].token = job[w].token /\ job'[w].price = job[w].price
        /\ pc' \in [Worker -> {"idle", "paging", "evaluating"} \cup Busy]
    <2>1. CASE job' = [job EXCEPT ![w] = NoJob] /\ pc' = [pc EXCEPT ![w] = "evaluating"]
      BY <1>1, <2>1 DEF IInv, TypeOK
    <2>2. CASE job' = [job EXCEPT ![w].ok = FALSE] /\ pc' = pc /\ job[w].ok
      <3>1. [job[w] EXCEPT !.ok = FALSE] \in Job
        BY <1>1 DEF Job
      <3> QED
        BY <1>1, <2>2, <3>1 DEF IInv, TypeOK, Job, k
    <2> QED
      BY <1>2, <2>1, <2>2
  \* What happens to the tables: nothing, or the owner's row is settled.
  <1>4. \/ UNCHANGED tables
        \/ /\ claim[k].token = job[w].token
           /\ claim' = [claim EXCEPT ![k].state = IF job[w].ok THEN "sent" ELSE "uncertain"]
           /\ alert' = IF job[w].ok
                       THEN [alert EXCEPT ![k] = [active |-> @.active, target |-> @.target,
                                                  lastPrice |-> job[w].price, lastAge |-> 0]]
                       ELSE alert
           /\ pc'[w] = "completing" => job[w].ok
    <2>1. CASE UNCHANGED tables
      BY <2>1
    <2>2. CASE Settle(w)
      <3>1. CASE OwnsClaim(w)
        BY <1>1, <1>3, <2>2, <3>1 DEF Settle, OwnsClaim, k
      <3>2. CASE ~OwnsClaim(w)
        BY <2>2, <3>2 DEF Settle
      <3> QED
        BY <3>1, <3>2
    <2> QED
      BY <2>1, <2>2 DEF Complete, CompleteFails, CompleteGivesUp
  <1>5. claim[k].token = job[w].token => Owning(w)
    BY <1>1 DEF IInv, DeliveryOwnsClaim, Harmless, Busy, k
  <1>6. \A v \in Worker : v # w /\ pc[v] \in Busy =>
          (claim[k].token = job[w].token /\ job[v].id = k => Harmless(v))
    BY <1>1, <1>5 DEF IInv, TokensDistinct, DeliveryOwnsClaim, Owning, Busy, k
  <1>7. /\ claim' \in [Key -> ClaimRow]
        /\ \A j \in Key : /\ claim'[j].token = claim[j].token /\ claim'[j].price = claim[j].price
                          /\ claim'[j].age = claim[j].age
                          /\ j # k => claim'[j] = claim[j] /\ alert'[j] = alert[j]
        /\ alert' \in [Key -> AlertRow]
        /\ \/ UNCHANGED tables
           \/ /\ claim[k].token = job[w].token
              /\ ~job[w].ok /\ claim'[k].state = "uncertain"
              /\ alert' = alert /\ pc'[w] = "evaluating"
           \/ /\ claim[k].token = job[w].token
              /\ job[w].ok /\ claim'[k].state = "sent"
              /\ alert'[k].lastPrice = job[w].price /\ alert'[k].lastAge = 0
    <2>1. CASE UNCHANGED tables
      BY <2>1 DEF IInv, TypeOK, tables
    <2>2. CASE /\ claim[k].token = job[w].token
               /\ claim' = [claim EXCEPT ![k].state = IF job[w].ok THEN "sent" ELSE "uncertain"]
               /\ alert' = IF job[w].ok
                       THEN [alert EXCEPT ![k] = [active |-> @.active, target |-> @.target,
                                                  lastPrice |-> job[w].price, lastAge |-> 0]]
                       ELSE alert
               /\ pc'[w] = "completing" => job[w].ok
      <3>1. claim' \in [Key -> ClaimRow]
        BY <1>1, <2>2 DEF IInv, TypeOK, ClaimRow
      <3>2. [active |-> alert[k].active, target |-> alert[k].target,
             lastPrice |-> job[w].price, lastAge |-> 0] \in AlertRow
        BY <1>1 DEF IInv, TypeOK, AlertRow, Job, Age, Expired
      <3>3. alert' \in [Key -> AlertRow]
        BY <1>1, <2>2, <3>2 DEF IInv, TypeOK
      <3>4. job[w].ok \in BOOLEAN
        BY <1>1 DEF Job
      <3> QED
        BY <1>1, <1>3, <2>2, <3>1, <3>3, <3>4 DEF IInv, TypeOK, ClaimRow
    <2> QED
      BY <1>4, <2>1, <2>2
  <1>8. TypeOK'
    BY <1>1, <1>3, <1>7 DEF IInv, TypeOK, runVars, pageVars, Busy
  <1>9. PageCompared'
    BY <1>1, <1>3 DEF IInv, PageCompared, runVars, pageVars
  <1>10. TokensDistinct'
    BY <1>1, <1>3 DEF IInv, TokensDistinct, Busy
  <1>11. DeliveryOwnsClaim'
    <2> SUFFICES ASSUME NEW v \in Worker, pc'[v] \in Busy
                 PROVE Owning(v)' \/ Harmless(v)'
      BY DEF DeliveryOwnsClaim
    <2>1. CASE v = w
      <3>1. /\ pc'[w] = "completing" /\ ~job'[w].ok /\ job[w].ok
            /\ job'[w].id = k /\ job'[w].token = job[w].token /\ job'[w].price = job[w].price
        BY <1>3, <2>1 DEF Busy
      <3>2. Owning(w) /\ claim[k].state = "claimed"
        BY <1>1, <3>1 DEF IInv, DeliveryOwnsClaim, Owning, Harmless, Busy, k
      <3>3. claim'[k].state \in {"claimed", "sent"}
        BY <1>7, <3>1, <3>2 DEF tables
      <3> QED
        <4>1. runAge' = runAge
          BY <1>1 DEF runVars
        <4>2. /\ claim'[k].token = job'[w].token /\ claim'[k].price = job'[w].price
              /\ claim'[k].age <= runAge'[w]
          BY <1>1, <1>7, <3>1, <3>2, <4>1 DEF Owning, k
        <4>3. Owning(w)'
          BY <3>1, <3>3, <4>2 DEF Owning
        <4> QED
          BY <2>1, <4>3
    <2>2. CASE v # w
      <3>1. job[v].id \in Key /\ pc[v] \in Busy
        BY <1>3, <2>2 DEF IInv, TypeOK, Job
      <3>2. CASE claim'[job[v].id] = claim[job[v].id]
        <4>1. /\ pc'[v] = pc[v] /\ job'[v] = job[v] /\ runAge' = runAge
              /\ Owning(v) \/ Harmless(v)
          BY <1>1, <1>3, <2>2, <3>1 DEF IInv, DeliveryOwnsClaim, runVars
        <4> QED
          BY <3>2, <4>1 DEF Owning, Harmless
      <3>3. CASE claim'[job[v].id] # claim[job[v].id]
        BY <1>3, <1>6, <1>7, <2>2, <3>1, <3>3 DEF Harmless, tables
      <3> QED
        BY <3>2, <3>3
    <2> QED
      BY <2>1, <2>2
  <1>12. MailKnown'
    BY <1>1, <1>3 DEF IInv, MailKnown
  <1>13. SentMeansMailed'
    <2> SUFFICES ASSUME NEW j \in Key, claim'[j].state = "sent"
                 PROVE  /\ mailed'[j]
                        /\ alert'[j].lastPrice = claim'[j].price
                        /\ alert'[j].lastAge <= claim'[j].age
      BY DEF SentMeansMailed
    <2>1. CASE claim'[j] = claim[j] /\ alert'[j] = alert[j]
      BY <1>1, <2>1 DEF IInv, SentMeansMailed
    <2>2. CASE j = k /\ claim[k].token = job[w].token /\ job[w].ok
               /\ alert'[k].lastPrice = job[w].price /\ alert'[k].lastAge = 0
      <3>1. mailed[k] /\ claim[k].price = job[w].price
        BY <1>1, <1>5, <2>2 DEF IInv, MailKnown, Owning, k
      <3>2. claim'[k].age \in Nat
        <4>1. claim'[k] \in ClaimRow
          BY <1>1, <1>7
        <4>2. Age \subseteq Nat
          BY CooldownAssumption DEF Age, Expired
        <4> QED
          BY <4>1, <4>2 DEF ClaimRow
      <3> QED
        BY <1>1, <1>7, <2>2, <3>1, <3>2
    <2> QED
      BY <1>7, <2>1, <2>2 DEF tables
  <1> QED
    BY <1>8, <1>9, <1>10, <1>11, <1>12, <1>13 DEF IInv

\* Time.
LEMMA TickKeeps == IInv /\ Tick => IInv'
  <1> SUFFICES ASSUME IInv, Tick PROVE IInv'
    OBVIOUS
  <1>1. UNCHANGED <<pc, held, best, afterId, full, job, mailed>>
    BY DEF Tick
  <1>2. \A a \in Age : Older(a) \in Age /\ Older(a) <= a + 1
    BY DEF Age, Older, Expired
  <1>3. \A a, b \in Age : a <= b => Older(a) <= Older(b)
    BY DEF Age, Older, Expired
  <1>4. \A w \in Worker : /\ runAge'[w] \in 0 .. RunTicks
                         /\ pc[w] # "idle" => runAge'[w] = runAge[w] + 1
    BY DEF Tick, IInv, TypeOK
  <1>5. /\ alert' \in [Key -> AlertRow]
        /\ \A k \in Key : /\ alert'[k].lastPrice = alert[k].lastPrice
                          /\ alert'[k].lastAge = Older(alert[k].lastAge)
                          /\ alert'[k].lastAge \in Age
    BY <1>2 DEF Tick, IInv, TypeOK, AlertRow
  <1>6. /\ claim' \in [Key -> ClaimRow]
        /\ \A k \in Key : /\ claim'[k].state = claim[k].state
                          /\ claim'[k].price = claim[k].price
                          /\ claim'[k].token = claim[k].token
                          /\ claim'[k].age = Older(claim[k].age)
    BY <1>2 DEF Tick, IInv, TypeOK, ClaimRow
  <1>7. /\ page' \in [Worker -> SUBSET PageRow]
        /\ \A w \in Worker : \A row \in page'[w] : \E old \in page[w] : row.id = old.id
    <2> DEFINE Aged(row) == [row EXCEPT !.lastAge = Older(@)]
               Rows(w) == {Aged(row) : row \in page[w]}
    <2>1. page' = [w \in Worker |-> Rows(w)]
      BY DEF Tick
    <2>2. \A w \in Worker : \A row \in page[w] : Aged(row) \in PageRow /\ Aged(row).id = row.id
      BY <1>2 DEF IInv, TypeOK, PageRow
    <2> HIDE DEF Aged
    <2>3. \A w \in Worker : /\ Rows(w) \subseteq PageRow
                           /\ \A row \in Rows(w) : \E old \in page[w] : row.id = old.id
      BY <2>2
    <2> HIDE DEF Rows
    <2> QED
      BY <2>1, <2>3
  <1>8. TypeOK'
    <2> DEFINE Now(w) == IF pc[w] = "idle" THEN runAge[w] ELSE runAge[w] + 1
    <2>1. \A w \in Worker : Now(w) \in 0 .. RunTicks
      BY DEF Tick, IInv, TypeOK
    <2>2. runAge' = [w \in Worker |-> Now(w)]
      BY DEF Tick
    <2> HIDE DEF Now
    <2>3. runAge' \in [Worker -> 0 .. RunTicks]
      BY <2>1, <2>2
    <2> QED
      BY <1>1, <1>5, <1>6, <1>7, <2>3 DEF IInv, TypeOK
  <1>9. PageCompared'
    <2> SUFFICES ASSUME NEW w \in Worker
                 PROVE  /\ pc'[w] = "idle" => page'[w] = {}
                        /\ \A row \in page'[w] : row.id \in DOMAIN best'[w]
      BY DEF PageCompared
    <2>1. \A row \in page'[w] : \E old \in page[w] : row.id = old.id
      BY <1>7
    <2> QED
      BY <1>1, <2>1 DEF IInv, PageCompared
  <1>10. TokensDistinct' /\ MailKnown'
    BY <1>1 DEF IInv, TokensDistinct, MailKnown
  <1>11. DeliveryOwnsClaim'
    <2> SUFFICES ASSUME NEW w \in Worker, pc[w] \in Busy
                 PROVE Owning(w)' \/ Harmless(w)'
      BY <1>1 DEF DeliveryOwnsClaim
    <2>1. job[w].id \in Key /\ pc[w] # "idle" /\ claim[job[w].id].age \in Age /\ runAge[w] \in Nat
      <3>1. job[w] \in Job /\ pc[w] # "idle" /\ runAge[w] \in 0 .. RunTicks
        BY DEF IInv, TypeOK, Busy
      <3>2. job[w].id \in Key
        BY <3>1 DEF Job
      <3>3. claim[job[w].id] \in ClaimRow
        BY <3>2 DEF IInv, TypeOK
      <3> QED
        BY <3>1, <3>2, <3>3 DEF ClaimRow
    <2>2. CASE Owning(w)
      <3>1. Older(claim[job[w].id].age) <= runAge[w] + 1
        BY <1>2, <2>1, <2>2 DEF Owning, Age, Older, Expired
      <3> QED
        <4>1. pc'[w] = pc[w] /\ job'[w] = job[w] /\ runAge'[w] = runAge[w] + 1
          <5>1. runAge'[w] = runAge[w] + 1
            BY <2>1 DEF Tick
          <5> QED
            BY <1>1, <5>1
        <4>2. /\ claim'[job[w].id].state = claim[job[w].id].state
              /\ claim'[job[w].id].price = claim[job[w].id].price
              /\ claim'[job[w].id].token = claim[job[w].id].token
              /\ claim'[job[w].id].age = Older(claim[job[w].id].age)
          BY <1>6, <2>1
        <4>3. Owning(w)'
          BY <2>2, <3>1, <4>1, <4>2 DEF Owning
        <4> QED
          BY <4>3
    <2>3. CASE Harmless(w)
      BY <1>1, <1>6, <2>1, <2>3 DEF Harmless
    <2> QED
      BY <2>2, <2>3 DEF IInv, DeliveryOwnsClaim
  <1>12. SentMeansMailed'
    <2> SUFFICES ASSUME NEW k \in Key, claim'[k].state = "sent"
                 PROVE  /\ mailed'[k]
                        /\ alert'[k].lastPrice = claim'[k].price
                        /\ alert'[k].lastAge <= claim'[k].age
      BY DEF SentMeansMailed
    <2>1. mailed[k] /\ alert[k].lastPrice = claim[k].price /\ alert[k].lastAge <= claim[k].age
      BY <1>6 DEF IInv, SentMeansMailed
    <2>2. alert[k].lastAge \in Age /\ claim[k].age \in Age
      BY DEF IInv, TypeOK, AlertRow, ClaimRow
    <2> QED
      BY <1>1, <1>3, <1>5, <1>6, <2>1, <2>2
  <1> QED
    BY <1>8, <1>9, <1>10, <1>11, <1>12 DEF IInv

--------------------------------------------------------------------------------
(* The theorems. *)

\* Every step keeps the inductive invariant.
LEMMA NextKeeps == IInv /\ [Next]_vars => IInv'
  <1> SUFFICES ASSUME IInv, [Next]_vars PROVE IInv'
    OBVIOUS
  <1>1. CASE UserActs
    BY <1>1, UserKeeps
  <1>2. CASE Tick
    BY <1>2, TickKeeps
  <1>3. ASSUME NEW w \in Worker, Begin(w) \/ Step(w) \/ ProviderAccepts(w) \/ Fault(w)
        PROVE  IInv'
    <2>1. CASE Begin(w)
      BY <2>1, BeginKeeps
    <2>2. CASE LoadPage(w)
      BY <2>2, LoadPageKeeps
    <2>3. CASE Skip(w) \/ Suppressed(w) \/ LoseStanding(w)
      BY <2>3, WalkKeeps
    <2>4. CASE FinishRun(w) \/ Defer(w) \/ Abandon(w) \/ Crash(w) \/ DeadlinePasses(w)
      <3>1. Leave(w)
        BY <2>4 DEF FinishRun, Defer, Abandon, Crash, DeadlinePasses
      <3> QED
        BY <3>1, LeaveKeeps
    <2>5. CASE Claim(w) \/ ClaimFails(w)
      BY <2>5, ClaimKeeps
    <2>6. CASE Send(w) \/ ProviderAccepts(w) \/ SendOk(w) \/ SendFails(w)
      BY <2>6, SendKeeps
    <2>7. CASE Complete(w) \/ CompleteFails(w) \/ CompleteGivesUp(w)
      BY <2>7, CompleteKeeps
    <2> QED
      BY <1>3, <2>1, <2>2, <2>3, <2>4, <2>5, <2>6, <2>7 DEF Step, Fault
  <1>4. CASE UNCHANGED vars
    BY <1>4 DEF IInv, TypeOK, PageCompared, TokensDistinct, DeliveryOwnsClaim, Owning, Harmless,
       MailKnown, SentMeansMailed, vars, tables, runVars, pageVars
  <1> QED
    BY <1>1, <1>2, <1>3, <1>4 DEF Next

\* The inductive invariant holds in every reachable state.
THEOREM InvariantHolds == Spec => []IInv
  <1> QED
    BY InitIInv, NextKeeps, PTL DEF Spec

\* Types, for any number of alerts, workers and tokens.
THEOREM TypesHold == Spec => []TypeOK
  <1>1. IInv => TypeOK
    BY DEF IInv
  <1> QED
    BY <1>1, InvariantHolds, PTL

\* A worker that is delivering owns the claim row, or can do no harm.
THEOREM ClaimIsOwned == Spec => []DeliveryOwnsClaim
  <1>1. IInv => DeliveryOwnsClaim
    BY DEF IInv
  <1> QED
    BY <1>1, InvariantHolds, PTL

\* A claim is recorded as sent only for an e-mail the provider accepted.
THEOREM SentIsMailed == Spec => []SentMeansMailed
  <1>1. IInv => SentMeansMailed
    BY DEF IInv
  <1> QED
    BY <1>1, InvariantHolds, PTL

\* Two workers never both hold an e-mail for one alert: both would own the
\* claim row, which carries one token.
THEOREM DeliveryIsExclusive == Spec => []NoDoubleDelivery
  <1>1. IInv => NoDoubleDelivery
    <2> SUFFICES ASSUME IInv, NEW v \in Worker, NEW w \in Worker, NEW k \in Key,
                        v # w, Delivering(v, k), Delivering(w, k)
                 PROVE  \E u \in {v, w} : pc[u] = "completing" /\ ~job[u].ok
      BY DEF NoDoubleDelivery
    <2>1. ~(Owning(v) /\ Owning(w))
      BY DEF IInv, TokensDistinct, Delivering, Owning
    <2> QED
      BY <2>1 DEF IInv, DeliveryOwnsClaim, Delivering, Harmless
  <1> QED
    BY <1>1, InvariantHolds, PTL

--------------------------------------------------------------------------------
(* What a step may do to the claims, and the properties of steps. *)

\* The ways a claim row and the history of its e-mail change: a claim is taken with an
\* unused token, time passes, the provider takes a message, a completion settles the row
\* that carries its token.
LEMMA RowChanges ==
  ASSUME IInv, Next
  PROVE  \/ UNCHANGED <<claim, mailed>>
         \/ \E k \in Key, p \in Price, t \in Token :
              MayClaim(k, p) /\ TakeClaim(k, p, t) /\ t # NoToken
         \/ Tick
         \/ \E w \in Worker : ProviderAccepts(w)
         \/ \E w \in Worker :
              /\ pc[w] = "completing" /\ OwnsClaim(w)
              /\ claim' = [claim EXCEPT ![job[w].id].state = IF job[w].ok THEN "sent" ELSE "uncertain"]
              /\ UNCHANGED mailed
  <1>1. CASE UserActs \/ Tick
    BY <1>1 DEF UserActs, Deactivate, SetAlert
  <1>2. ASSUME NEW w \in Worker, Begin(w) \/ Step(w) \/ ProviderAccepts(w) \/ Fault(w),
               ~ProviderAccepts(w)
        PROVE  \/ UNCHANGED <<claim, mailed>>
               \/ \E k \in Key, p \in Price, t \in Token :
                    MayClaim(k, p) /\ TakeClaim(k, p, t) /\ t # NoToken
               \/ /\ pc[w] = "completing" /\ OwnsClaim(w)
                  /\ claim' = [claim EXCEPT ![job[w].id].state = IF job[w].ok THEN "sent" ELSE "uncertain"]
                  /\ UNCHANGED mailed
    <2>1. CASE Claim(w) \/ ClaimFails(w)
      <3>1. PICK row \in page[w], t \in Token \ InUse :
              /\ ShouldNotify(row, best[w][row.id])
              /\ \/ MayClaim(row.id, best[w][row.id]) /\ TakeClaim(row.id, best[w][row.id], t)
                 \/ UNCHANGED <<claim, mailed>>
        BY <2>1 DEF Claim, ClaimFails
      <3>2. row.id \in Key /\ best[w][row.id] \in Price
        BY <3>1, NotifiedPrice DEF IInv
      <3> QED
        BY <3>1, <3>2
    <2>2. CASE Complete(w) \/ CompleteFails(w)
      BY <2>2 DEF Complete, CompleteFails, Settle, tables
    <2>3. CASE FinishRun(w) \/ Defer(w) \/ Abandon(w) \/ Crash(w) \/ DeadlinePasses(w)
      BY <2>3 DEF FinishRun, Defer, Abandon, Crash, DeadlinePasses, Leave, tables
    <2>4. CASE Begin(w) \/ LoadPage(w) \/ Skip(w) \/ Suppressed(w)
               \/ Send(w) \/ SendOk(w) \/ SendFails(w) \/ CompleteGivesUp(w) \/ LoseStanding(w)
      BY <2>4 DEF Begin, LoadPage, Skip, Suppressed, Send, SendOk, SendFails,
                  CompleteGivesUp, LoseStanding, tables
    <2> QED
      BY <1>2, <2>1, <2>2, <2>3, <2>4 DEF Step, Fault
  <1> QED
    BY <1>1, <1>2 DEF Next

\* A row that never carried a claim has no price.
Unclaimed == \A k \in Key : claim[k].state = "none" => claim[k].price = NoPrice

LEMMA UnclaimedKeeps ==
  ASSUME IInv, Unclaimed, [Next]_vars
  PROVE  Unclaimed'
  <1>5. claim \in [Key -> ClaimRow]
    BY DEF IInv, TypeOK
  <1>1. CASE UNCHANGED claim
    BY <1>1 DEF Unclaimed
  <1>2. CASE \E k \in Key, p \in Price, t \in Token : TakeClaim(k, p, t)
    <2>1. PICK k \in Key, p \in Price, t \in Token : TakeClaim(k, p, t)
      BY <1>2
    <2>2. \A j \in Key : IF j = k THEN claim'[j].state = "claimed" ELSE claim'[j] = claim[j]
      BY <2>1, <1>5 DEF TakeClaim
    <2> QED
      BY <2>2 DEF Unclaimed
  <1>3. CASE Tick
    BY <1>3, <1>5 DEF Unclaimed, Tick, ClaimRow
  <1>4. CASE \E w \in Worker : claim' = [claim EXCEPT ![job[w].id].state = IF job[w].ok THEN "sent" ELSE "uncertain"]
    BY <1>4, <1>5 DEF Unclaimed, ClaimRow
  <1> QED
    BY <1>1, <1>2, <1>3, <1>4, RowChanges DEF ProviderAccepts, tables, vars

LEMMA UnclaimedHolds == Spec => []Unclaimed
  <1>1. Init => Unclaimed
    BY DEF Init, Unclaimed
  <1>2. IInv /\ Unclaimed /\ [Next]_vars => Unclaimed'
    BY UnclaimedKeeps
  <1> QED
    BY <1>1, <1>2, InvariantHolds, PTL DEF Spec

\* No e-mail is handed to the provider twice under one claim: who is sending owns the
\* claim, and has not sent under it yet.
THEOREM OneMail == Spec => OneMailPerClaim
  <1>1. IInv => \A w \in Worker : ProviderAccepts(w) => ~mailed[job[w].id]
    BY DEF IInv, MailKnown, ProviderAccepts
  <1>2. IInv => [\A w \in Worker : ProviderAccepts(w) => ~mailed[job[w].id]]_vars
    BY <1>1
  <1> QED
    BY <1>2, InvariantHolds, PTL DEF OneMailPerClaim

\* A claim is taken for an alert that is active and above the price at that moment, and
\* not within the cooldown of an attempt at the same price.
THEOREM ClaimsStayCurrent == Spec => ClaimsAreCurrent
  <1> DEFINE Current(k) ==
        claim'[k].token # claim[k].token =>
          /\ alert[k].active /\ alert[k].target > claim'[k].price
          /\ claim[k].price = claim'[k].price => claim[k].age > Cooldown
  <1>1. ASSUME IInv, Unclaimed, Next, NEW k \in Key PROVE Current(k)
    <2>5. claim \in [Key -> ClaimRow]
      BY <1>1 DEF IInv, TypeOK
    <2>1. CASE UNCHANGED claim
      BY <2>1
    <2>2. ASSUME NEW j \in Key, NEW p \in Price, NEW t \in Token,
                 MayClaim(j, p), TakeClaim(j, p, t)
          PROVE  Current(k)
      <3>1. CASE k # j
        BY <2>2, <2>5, <3>1 DEF TakeClaim
      <3>2. CASE k = j
        <4>1. claim'[k].price = p
          BY <2>2, <2>5, <3>2 DEF TakeClaim
        <4>2. alert[k].active /\ alert[k].target > p /\ MayReplace(claim[k], p)
          BY <2>2, <3>2 DEF MayClaim, StillWanted
        <4>3. claim[k].state = "none" => claim[k].price # p
          BY <1>1, <2>2 DEF Unclaimed, NoPrice
        <4> QED
          BY <4>1, <4>2, <4>3 DEF MayReplace
      <3> QED
        BY <3>1, <3>2
    <2>3. CASE Tick
      BY <2>3, <2>5 DEF Tick, ClaimRow
    <2>4. CASE \E w \in Worker : claim' = [claim EXCEPT ![job[w].id].state = IF job[w].ok THEN "sent" ELSE "uncertain"]
      BY <2>4, <2>5 DEF ClaimRow
    <2> QED
      BY <1>1, <2>1, <2>2, <2>3, <2>4, RowChanges DEF ProviderAccepts, tables
  <1>2. IInv /\ Unclaimed /\ [Next]_vars => [\A k \in Key : Current(k)]_vars
    BY <1>1
  <1> QED
    BY <1>2, InvariantHolds, UnclaimedHolds, PTL DEF Spec, ClaimsAreCurrent

--------------------------------------------------------------------------------
(* Delivery implements AlertNotice. *)

\* The notice an observer of the claims sees.
NoticeOf == [k \in Key |->
  [state |-> IF claim[k].state = "claimed" THEN "open" ELSE claim[k].state,
   price |-> claim[k].price, age |-> claim[k].age]]

LEMMA NoticeInit == Init => Notice!Init
  BY DEF Init, Notice!Init, Expired, Notice!Expired, NoPrice

\* Taking a claim opens a notice.
LEMMA ClaimOpens ==
  ASSUME IInv, NEW k \in Key, NEW p \in Price, NEW t \in Token,
         MayClaim(k, p), TakeClaim(k, p, t)
  PROVE  Notice!Open(k, p)
  <1>1. claim \in [Key -> ClaimRow]
    BY DEF IInv, TypeOK
  <1>2. \/ claim[k].state = "none" \/ claim[k].age > Cooldown
        \/ claim[k].price # p /\ claim[k].state # "claimed"
    BY Zenon DEF MayClaim, MayReplace
  <1>3. Notice!MayOpen(k, p)
    BY <1>1, <1>2 DEF Notice!MayOpen, ClaimRow
  <1>4. claim' = [claim EXCEPT ![k] = [state |-> "claimed", price |-> p, token |-> t, age |-> 0]]
    BY DEF TakeClaim
  <1>5. NoticeOf' = [NoticeOf EXCEPT ![k] = [state |-> "open", price |-> p, age |-> 0]]
    <2>1. \A j \in Key : NoticeOf'[j] = IF j = k THEN [state |-> "open", price |-> p, age |-> 0] ELSE NoticeOf[j]
      BY <1>1, <1>4 DEF NoticeOf
    <2> QED
      BY <2>1 DEF NoticeOf
  <1> QED
    BY <1>3, <1>5 DEF Notice!Open, NoticeOf, TakeClaim

\* The provider takes a message: the notice is open, young and not mailed yet.
LEMMA AcceptMails ==
  ASSUME IInv, NEW w \in Worker, ProviderAccepts(w)
  PROVE  Notice!Mail(job[w].id)
  <1>1. pc[w] = "sending" /\ job[w] \in Job /\ job[w].id \in Key
    BY DEF ProviderAccepts, IInv, TypeOK, Busy, Job
  <1>2. Owning(w) /\ claim[job[w].id].state = "claimed" /\ ~mailed[job[w].id]
    BY <1>1 DEF IInv, DeliveryOwnsClaim, Owning, Harmless, MailKnown, Busy
  <1>3. claim[job[w].id].age <= Cooldown
    <2>1. claim[job[w].id].age \in Nat /\ runAge[w] \in Nat /\ runAge[w] <= RunTicks
      <3>1. runAge[w] \in 0 .. RunTicks /\ claim[job[w].id] \in ClaimRow
        BY <1>1 DEF IInv, TypeOK
      <3> QED
        BY <3>1 DEF ClaimRow, Age, Expired
    <2> QED
      BY <1>2, <2>1 DEF Owning
  <1> QED
    BY <1>1, <1>2, <1>3 DEF Notice!Mail, ProviderAccepts, tables

\* A completion that finds its token closes the notice, as sent only when it was mailed.
LEMMA CompletionCloses ==
  ASSUME IInv, NEW w \in Worker, pc[w] = "completing", OwnsClaim(w),
         claim' = [claim EXCEPT ![job[w].id].state = IF job[w].ok THEN "sent" ELSE "uncertain"],
         UNCHANGED mailed
  PROVE  \E s \in {"sent", "uncertain"} : Notice!Close(job[w].id, s)
  <1> DEFINE k == job[w].id
             outcome == IF job[w].ok THEN "sent" ELSE "uncertain"
  <1>1. k \in Key /\ claim \in [Key -> ClaimRow]
    BY DEF IInv, TypeOK, Busy, Job
  <1>2. claim[k].state \in {"claimed", "sent"}
    BY DEF IInv, DeliveryOwnsClaim, Owning, Harmless, OwnsClaim, Busy
  <1>3. outcome = "sent" => mailed[k]
    BY DEF IInv, MailKnown
  <1>4. NoticeOf' = [NoticeOf EXCEPT ![k].state = outcome]
    <2>1. claim' = [claim EXCEPT ![k].state = outcome]
      OBVIOUS
    <2>2. outcome \in {"sent", "uncertain"}
      OBVIOUS
    <2> HIDE DEF k, outcome
    <2>3. \A j \in Key : NoticeOf'[j] = IF j = k THEN [NoticeOf[j] EXCEPT !.state = outcome] ELSE NoticeOf[j]
      BY <1>1, <2>1, <2>2 DEF NoticeOf, ClaimRow
    <2> QED
      BY <2>3 DEF NoticeOf
  <1>5. Notice!Close(k, outcome)
    <2>1. outcome \in {"sent", "uncertain"}
      OBVIOUS
    <2> HIDE DEF outcome, k
    <2> QED
      BY <1>1, <1>2, <1>3, <1>4, <2>1 DEF Notice!Close, NoticeOf
  <1>6. outcome \in {"sent", "uncertain"}
    OBVIOUS
  <1> HIDE DEF outcome
  <1> QED
    BY <1>5, <1>6 DEF Notice!Close

\* Time passes for the notices as for the claims.
LEMMA TickAges ==
  ASSUME IInv, Tick
  PROVE  Notice!Age
  <1>1. claim \in [Key -> ClaimRow]
    BY DEF IInv, TypeOK
  <1>2. \A a : Older(a) = Notice!Older(a)
    BY DEF Older, Notice!Older, Expired, Notice!Expired
  <1>3. NoticeOf' = [k \in Key |-> [NoticeOf[k] EXCEPT !.age = Notice!Older(@)]]
    <2>1. \A k \in Key : NoticeOf'[k] = [NoticeOf[k] EXCEPT !.age = Older(@)]
      BY <1>1 DEF Tick, NoticeOf, ClaimRow
    <2> QED
      BY <1>2, <2>1 DEF NoticeOf
  <1> QED
    BY <1>3 DEF Notice!Age, NoticeOf, Tick

\* Delivery implements AlertNotice: every step opens, mails, closes or ages a notice, or
\* leaves the notices alone, whatever workers, users and failures do.
THEOREM DeliveryIsNotice == Spec => NoticeSpec
  <1>1. ASSUME IInv, Next PROVE [Notice!Next]_(Notice!vars)
    <2>1. CASE UNCHANGED <<claim, mailed>>
      BY <2>1 DEF Notice!vars
    <2>2. ASSUME NEW k \in Key, NEW p \in Price, NEW t \in Token,
                 MayClaim(k, p), TakeClaim(k, p, t)
          PROVE  Notice!Next
      BY <1>1, <2>2, ClaimOpens DEF Notice!Next
    <2>3. CASE Tick
      BY <1>1, <2>3, TickAges DEF Notice!Next
    <2>4. ASSUME NEW w \in Worker, ProviderAccepts(w)
          PROVE  Notice!Next
      <3>1. job[w].id \in Key
        BY <1>1, <2>4 DEF ProviderAccepts, IInv, TypeOK, Busy, Job
      <3> QED
        BY <1>1, <2>4, <3>1, AcceptMails DEF Notice!Next
    <2>5. ASSUME NEW w \in Worker, pc[w] = "completing", OwnsClaim(w), UNCHANGED mailed,
                 claim' = [claim EXCEPT ![job[w].id].state = IF job[w].ok THEN "sent" ELSE "uncertain"]
          PROVE  Notice!Next
      <3>1. job[w].id \in Key
        BY <1>1, <2>5 DEF IInv, TypeOK, Busy, Job
      <3>2. \E s \in {"sent", "uncertain"} : Notice!Close(job[w].id, s)
        BY <1>1, <2>5, CompletionCloses
      <3> QED
        BY <3>1, <3>2 DEF Notice!Next
    <2> QED
      BY <1>1, <2>1, <2>2, <2>3, <2>4, <2>5, RowChanges
  <1>2. IInv /\ [Next]_vars => [Notice!Next]_(Notice!vars)
    <2>1. UNCHANGED vars => UNCHANGED Notice!vars
      BY DEF vars, tables, Notice!vars
    <2> QED
      BY <1>1, <2>1
  <1> QED
    BY <1>2, NoticeInit, InvariantHolds, PTL DEF Spec, NoticeSpec, Notice!Spec

--------------------------------------------------------------------------------
(* The pages of a run. *)

Before == {pair \in Nat \X Nat : pair[1] < pair[2]}

\* A nonempty set of numbers has a smallest one.
LEMMA Smallest ==
  ASSUME NEW S \in SUBSET Nat, S # {}
  PROVE  \E x \in S : \A y \in S : x <= y
  <1>1. IsWellFoundedOn(Before, Nat)
    BY NatLessThanWellFounded DEF OpToRel, Before
  <1>2. PICK x \in S : \A y \in S : <<y, x>> \notin Before
    BY <1>1, WFMin
  <1>3. ASSUME NEW y \in S PROVE x <= y
    <2>1. <<y, x>> \in Nat \X Nat
      OBVIOUS
    <2>2. ~(y < x)
      BY <1>2, <2>1 DEF Before
    <2> QED
      BY <2>2
  <1> QED
    BY <1>3

\* A nonempty finite set of numbers has a largest one.
LEMMA Largest ==
  ASSUME NEW S \in SUBSET Nat, S # {}, NEW bound \in Nat, \A x \in S : x <= bound
  PROVE  \E x \in S : \A y \in S : y <= x
  <1> DEFINE U == {u \in Nat : \A y \in S : y < u}
  <1>1. bound + 1 \in U
    OBVIOUS
  <1>2. PICK u \in U : \A v \in U : u <= v
    BY <1>1, Smallest
  <1>3. u # 0 /\ u - 1 \in Nat /\ u - 1 \notin U
    <2>1. PICK y \in S : y \in Nat /\ y < u
      BY <1>2
    <2>2. u \in Nat /\ u # 0
      BY <2>1, <1>2
    <2> QED
      BY <1>2, <2>2
  <1>4. PICK x \in S : ~(x < u - 1)
    BY <1>3
  <1>5. \A y \in S : y <= x
    BY <1>2, <1>3, <1>4
  <1> QED
    BY <1>5

\* A page leaves nothing out below its largest id, and is full when it leaves anything out.
LEMMA PageTakesFirst ==
  ASSUME TypeOK, NEW w \in Worker, NEW k \in Wanted(w), k \notin PageIds(w)
  PROVE  /\ Cardinality(PageIds(w)) = PageSize
         /\ \A j \in PageIds(w) : j < k
  <1> DEFINE W == Wanted(w)
             Below(j) == {i \in W : i < j}
  <1>1. W \subseteq Nat
    <2>1. PICK S \in SUBSET Key : best[w] \in [S -> Price \cup {NoPrice}]
      BY DEF TypeOK, Found
    <2> QED
      BY <2>1 DEF Wanted
  <1>2. PageIds(w) = {j \in W : Cardinality(Below(j)) < PageSize}
    BY DEF PageIds
  <1>3. \A j \in Nat : IsFiniteSet(Below(j)) /\ Cardinality(Below(j)) \in Nat
    <2> TAKE j \in Nat
    <2>1. Below(j) \in SUBSET Nat /\ \A i \in Below(j) : i <= j
      BY <1>1
    <2> QED
      BY <2>1, FS_BoundedSetOfNaturals, FS_CardinalityType
  <1>4. \A i, j \in Nat : i <= j => Cardinality(Below(i)) <= Cardinality(Below(j))
    <2> SUFFICES ASSUME NEW i \in Nat, NEW j \in Nat, i <= j
                 PROVE  Cardinality(Below(i)) <= Cardinality(Below(j))
      OBVIOUS
    <2>1. Below(i) \in SUBSET Below(j)
      BY <1>1
    <2> QED
      BY <1>3, <2>1, FS_Subset
  <1>5. PICK first \in W \ PageIds(w) : \A j \in W \ PageIds(w) : first <= j
    <2>1. W \ PageIds(w) \in SUBSET Nat /\ W \ PageIds(w) # {}
      BY <1>1
    <2> HIDE DEF W
    <2> QED
      BY <2>1, Smallest
  <1>6. first \in Nat /\ ~(Cardinality(Below(first)) < PageSize)
    BY <1>1, <1>2, <1>5
  <1> HIDE DEF W, Below
  <1>7. \A j \in PageIds(w) : j \in Nat /\ j < first
    <2> SUFFICES ASSUME NEW j \in PageIds(w) PROVE j \in Nat /\ j < first
      OBVIOUS
    <2>1. j \in Nat /\ Cardinality(Below(j)) < PageSize
      BY <1>1, <1>2
    <2>2. ~(first <= j)
      BY <1>3, <1>4, <1>6, <2>1
    <2> QED
      BY <1>6, <2>1, <2>2
  <1>8. PageIds(w) = Below(first)
    <2>1. PageIds(w) \subseteq Below(first)
      BY <1>2, <1>7 DEF Below
    <2>2. ASSUME NEW j \in Below(first) PROVE j \in PageIds(w)
      <3>1. j \in W /\ j \in Nat /\ j < first
        BY <1>1 DEF Below
      <3> QED
        BY <1>5, <1>6, <3>1
    <2> QED
      BY <2>1, <2>2
  <1>9. Cardinality(PageIds(w)) <= PageSize
    <2>1. PageIds(w) \in SUBSET Nat /\ PageIds(w) # {}
      <3>1. Cardinality(PageIds(w)) # 0
        BY <1>3, <1>6, <1>8
      <3> QED
        BY <1>7, <3>1, FS_EmptySet
    <2>2. PICK last \in PageIds(w) : \A j \in PageIds(w) : j <= last
      <3>1. \A j \in PageIds(w) : j <= first
        BY <1>6, <1>7
      <3> QED
        BY <1>6, <2>1, <3>1, Largest
    <2>3. Below(last) \cup {last} = PageIds(w)
      <3>1. ASSUME NEW j \in PageIds(w), j # last PROVE j \in Below(last)
        <4>1. j \in W /\ j \in Nat /\ last \in Nat /\ j <= last
          BY <1>2, <1>7, <2>2
        <4>2. j < last
          BY <3>1, <4>1
        <4> QED
          BY <4>1, <4>2 DEF Below
      <3>2. ASSUME NEW j \in Below(last) PROVE j \in PageIds(w)
        <4>1. j \in W /\ j \in Nat /\ j < last /\ last < first
          BY <1>1, <1>7 DEF Below
        <4>2. j < first
          BY <1>6, <1>7, <4>1
        <4> QED
          BY <1>8, <4>1, <4>2 DEF Below
      <3> QED
        BY <3>1, <3>2
    <2>4. last \notin Below(last) /\ last \in Nat
      BY <1>7 DEF Below
    <2>5. Cardinality(PageIds(w)) = Cardinality(Below(last)) + 1
      BY <1>3, <2>3, <2>4, FS_AddElement
    <2>6. Cardinality(Below(last)) < PageSize
      BY <1>2
    <2> QED
      BY <1>3, <2>4, <2>5, <2>6
  <1>10. Cardinality(PageIds(w)) = PageSize
    BY <1>3, <1>6, <1>8, <1>9
  <1>11. k \in Nat /\ first <= k
    BY <1>1, <1>5 DEF W
  <1> QED
    BY <1>6, <1>7, <1>10, <1>11

\* The pages and the cursor of w are left alone.
Rests(w) ==
  /\ pc'[w] = pc[w] \/ (pc[w] \in Busy \cup {"evaluating"} /\ pc'[w] \in Busy \cup {"evaluating"})
  /\ afterId'[w] = afterId[w] /\ best'[w] = best[w] /\ full'[w] = full[w]
  /\ page'[w] = page[w]

Leaves(w) == pc'[w] = "idle" /\ page'[w] = {} /\ afterId'[w] = 0

Begins(w) ==
  /\ pc[w] = "idle" /\ pc'[w] = "paging" /\ alert' = alert
  /\ afterId'[w] = afterId[w] /\ page'[w] = page[w]

PassesRow(w) ==
  \E row \in page[w] :
    /\ \A other \in page[w] : row.id <= other.id
    /\ page'[w] = page[w] \ {row}
    /\ afterId'[w] = IF row.id > afterId[w] THEN row.id ELSE afterId[w]
    /\ best'[w] = best[w] /\ full'[w] = full[w]
    /\ pc[w] = "evaluating" /\ pc'[w] \in Busy \cup {"evaluating"}

\* What a step of one worker does to the pages of any.
LEMMA RunMoves ==
  ASSUME IInv, NEW v \in Worker, Begin(v) \/ Step(v) \/ ProviderAccepts(v) \/ Fault(v),
         NEW w \in Worker
  PROVE  Rests(w) \/ Leaves(w) \/ Begins(w) \/ LoadPage(w) \/ PassesRow(w)
  <1>0. /\ pc \in [Worker -> {"idle", "paging", "evaluating"} \cup Busy] /\ afterId \in [Worker -> Nat]
        /\ best \in [Worker -> Found] /\ page \in [Worker -> SUBSET PageRow] /\ full \in [Worker -> BOOLEAN]
    BY DEF IInv, TypeOK
  <1>1. CASE Begin(v)
    BY <1>0, <1>1 DEF Begin, tables, pageVars, Rests, Begins
  <1>2. CASE LoadPage(v)
    BY <1>0, <1>2 DEF LoadPage, tables, runVars, Rests
  <1>4. CASE FinishRun(v) \/ Defer(v) \/ Abandon(v) \/ Crash(v) \/ DeadlinePasses(v)
    <2>1. Leave(v)
      BY <1>4 DEF FinishRun, Defer, Abandon, Crash, DeadlinePasses
    <2> QED
      BY <1>0, <2>1 DEF Leave, Rests, Leaves
  <1>5. ASSUME NEW row \in page[v], IsNext(v, row), Pass(v, row), UNCHANGED <<runVars, full>>,
               pc'[v] \in Busy \cup {"evaluating"},
               \A u \in Worker : u # v => pc'[u] = pc[u]
        PROVE  Rests(w) \/ PassesRow(w)
    BY <1>0, <1>5 DEF IsNext, Pass, runVars, Rests, PassesRow
  <1>6. CASE Skip(v) \/ Suppressed(v)
    <2>1. PICK row \in page[v] : IsNext(v, row) /\ Pass(v, row)
      BY <1>6 DEF Skip, Suppressed
    <2>2. UNCHANGED <<pc, runVars, full>> /\ pc[v] = "evaluating"
      BY <1>6, <2>1 DEF Skip, Suppressed, IsNext
    <2> QED
      BY <1>5, <2>1, <2>2
  <1>7. CASE Claim(v) \/ ClaimFails(v)
    <2>1. PICK row \in page[v] : IsNext(v, row) /\ Pass(v, row)
      BY <1>7 DEF Claim, ClaimFails
    <2>2. UNCHANGED <<runVars, full>>
      BY <1>7 DEF Claim, ClaimFails
    <2>3. pc' = [pc EXCEPT ![v] = "claimed"] \/ pc' = [pc EXCEPT ![v] = "completing"]
      BY <1>7 DEF Claim, ClaimFails
    <2>4. pc'[v] \in Busy \cup {"evaluating"} /\ \A u \in Worker : u # v => pc'[u] = pc[u]
      BY <1>0, <2>3 DEF Busy
    <2> QED
      BY <1>5, <2>1, <2>2, <2>4
  <1>8. CASE Send(v) \/ SendOk(v) \/ SendFails(v) \/ ProviderAccepts(v)
             \/ Complete(v) \/ CompleteFails(v) \/ CompleteGivesUp(v)
    <2>1. UNCHANGED <<runVars, pageVars>> /\ pc[v] \in Busy
      BY <1>8 DEF Send, SendOk, SendFails, ProviderAccepts, Complete, CompleteFails, CompleteGivesUp, Busy
    <2>2. \/ pc' = pc
          \/ \E next \in Busy \cup {"evaluating"} : pc' = [pc EXCEPT ![v] = next]
      BY <1>8 DEF Send, SendOk, SendFails, ProviderAccepts, Complete, CompleteFails, CompleteGivesUp,
                  NextAlert, Busy
    <2> QED
      BY <1>0, <2>1, <2>2 DEF Rests, runVars, pageVars
  <1>9. CASE LoseStanding(v)
    BY <1>9 DEF LoseStanding, pageVars, Rests
  <1> QED
    BY <1>1, <1>2, <1>4, <1>6, <1>7, <1>8, <1>9 DEF Step, Fault

\* The cursor splits what a run has visited from what it will see: rows above it are on
\* the page, in order, or will be on the next one.
WalkInv(w) ==
  /\ pc[w] = "idle" => visited[w] = {} /\ steady[w] = {} /\ afterId[w] = 0
  /\ pc[w] = "paging" => page[w] = {}
  /\ visited[w] \subseteq {k \in Key : k <= afterId[w]}
  /\ \A row \in page[w] : row.id > afterId[w]
  /\ \A row, other \in page[w] : row.id = other.id => row = other
  /\ steady[w] \subseteq {k \in DOMAIN best[w] : alert[k].active}
  /\ \A k \in steady[w] \ (visited[w] \cup Ids(page[w])) :
       /\ k > afterId[w]
       /\ pc[w] # "paging" => full[w] /\ \A row \in page[w] : row.id < k

PagingInv == \A w \in Worker : WalkInv(w)

LEMMA WalkHolds ==
  ASSUME IInv, NextPaging, NEW w \in Worker, WalkInv(w)
  PROVE  WalkInv(w)'
  <1>0. /\ page[w] \in SUBSET PageRow /\ afterId[w] \in Nat
        /\ \A row \in page[w] : row.id \in Key /\ row.id \in Nat
        /\ DOMAIN best[w] \subseteq Key
        /\ pc[w] = "idle" => page[w] = {}
    <2>1. page[w] \in SUBSET PageRow /\ afterId[w] \in Nat /\ (pc[w] = "idle" => page[w] = {})
      BY DEF IInv, TypeOK, PageCompared
    <2>2. PICK S \in SUBSET Key : best[w] \in [S -> Price \cup {NoPrice}]
      BY DEF IInv, TypeOK, Found
    <2> QED
      BY <2>1, <2>2 DEF PageRow
  <1>1. /\ visited'[w] = IF pc'[w] = "idle" THEN {} ELSE visited[w] \cup (Ids(page[w]) \ Ids(page'[w]))
        /\ pc'[w] = "idle" => steady'[w] = {}
        /\ pc[w] = "idle" /\ pc'[w] # "idle" => steady'[w] = {k \in DOMAIN best'[w] : alert[k].active}
        /\ pc[w] # "idle" /\ pc'[w] # "idle" => steady'[w] = {k \in steady[w] : alert'[k].active}
    BY DEF NextPaging
  <1>2. ASSUME pc'[w] = "idle", page'[w] = {}, afterId'[w] = 0
        PROVE  WalkInv(w)'
    BY <1>1, <1>2 DEF WalkInv
  <1>3. CASE Rests(w)
    <2>1. CASE pc[w] = "idle"
      <3>1. pc'[w] = "idle" /\ page'[w] = {} /\ afterId'[w] = 0
        BY <1>0, <1>3, <2>1 DEF Rests, WalkInv, Busy
      <3> QED
        BY <1>2, <3>1
    <2>2. CASE pc[w] # "idle"
      <3>1. /\ pc'[w] # "idle" /\ (pc'[w] = "paging" <=> pc[w] = "paging")
            /\ visited'[w] = visited[w]
            /\ steady'[w] = {k \in steady[w] : alert'[k].active}
            /\ page'[w] = page[w] /\ afterId'[w] = afterId[w] /\ best'[w] = best[w] /\ full'[w] = full[w]
        BY <1>1, <1>3, <2>2 DEF Rests, Busy
      <3> QED
        BY <3>1 DEF WalkInv, Ids
    <2> QED
      BY <2>1, <2>2
  <1>4. CASE Leaves(w)
    BY <1>2, <1>4 DEF Leaves
  <1>5. CASE Begins(w)
    <2>1. /\ visited'[w] = {} /\ page'[w] = {} /\ afterId'[w] = 0 /\ pc'[w] = "paging"
          /\ steady'[w] = {k \in DOMAIN best'[w] : alert'[k].active}
      BY <1>0, <1>1, <1>5 DEF Begins, WalkInv, Ids
    <2>2. DOMAIN best'[w] \subseteq Key
      <3>1. IInv'
        BY NextKeeps DEF NextPaging
      <3>2. PICK S \in SUBSET Key : best'[w] \in [S -> Price \cup {NoPrice}]
        BY <3>1 DEF IInv, TypeOK, Found
      <3> QED
        BY <3>2
    <2>3. ASSUME NEW k \in steady'[w] PROVE k > 0
      <3>1. k \in Key
        BY <2>1, <2>2, <2>3
      <3> QED
        BY <3>1
    <2> QED
      BY <2>1, <2>3 DEF WalkInv
  <1>6. CASE LoadPage(w)
    <2> DEFINE Row(k) == [id |-> k, target |-> alert[k].target,
                          lastPrice |-> alert[k].lastPrice, lastAge |-> alert[k].lastAge]
    <2>1. /\ pc[w] # "idle" /\ pc'[w] = "evaluating" /\ page[w] = {}
          /\ afterId' = afterId /\ best' = best /\ alert' = alert
          /\ full'[w] = (Cardinality(PageIds(w)) = PageSize)
          /\ page'[w] = {Row(k) : k \in PageIds(w)}
      BY <1>6 DEF LoadPage, NextPage, PageDone, tables, runVars, WalkInv, IInv, TypeOK
    <2>7. \A k : Row(k).id = k
      OBVIOUS
    <2> HIDE DEF Row
    <2>2. Ids(page'[w]) = PageIds(w) /\ \A row, other \in page'[w] : row.id = other.id => row = other
      BY <2>1, <2>7 DEF Ids
    <2>3. visited'[w] = visited[w] /\ steady'[w] = steady[w]
      <3>1. Ids(page[w]) = {}
        BY <2>1 DEF Ids
      <3>2. visited'[w] = visited[w] /\ steady'[w] = {k \in steady[w] : alert[k].active}
        BY <1>1, <2>1, <3>1
      <3> QED
        BY <3>2 DEF WalkInv
    <2>4. \A k \in PageIds(w) : k > afterId[w]
      BY DEF PageIds, Wanted
    <2>5. ASSUME NEW k \in steady[w] \ (visited[w] \cup PageIds(w))
          PROVE  k > afterId[w] /\ full'[w] /\ \A j \in PageIds(w) : j < k
      <3>1. k \in Wanted(w)
        BY <2>1, <2>5 DEF WalkInv, Wanted, Ids
      <3> QED
        BY <2>1, <2>5, <3>1, PageTakesFirst DEF IInv, Wanted
    <2>6. \A row \in page'[w] : row.id \in PageIds(w)
      BY <2>2 DEF Ids
    <2> QED
      BY <2>1, <2>2, <2>3, <2>4, <2>5, <2>6 DEF WalkInv
  <1>8. CASE PassesRow(w)
    <2>1. PICK row \in page[w] :
            /\ \A other \in page[w] : row.id <= other.id
            /\ page'[w] = page[w] \ {row}
            /\ afterId'[w] = IF row.id > afterId[w] THEN row.id ELSE afterId[w]
            /\ best'[w] = best[w] /\ full'[w] = full[w]
            /\ pc[w] = "evaluating" /\ pc'[w] \in Busy \cup {"evaluating"}
      BY <1>8 DEF PassesRow
    <2>2. afterId'[w] = row.id /\ row.id > afterId[w] /\ row.id \in Key /\ row.id \in Nat
      BY <1>0, <2>1 DEF WalkInv
    <2>3. pc'[w] # "idle" /\ pc'[w] # "paging"
      BY <2>1 DEF Busy
    <2>4. Ids(page'[w]) = Ids(page[w]) \ {row.id}
      BY <2>1 DEF Ids, WalkInv
    <2>5. visited'[w] = visited[w] \cup {row.id} /\ steady'[w] = {k \in steady[w] : alert'[k].active}
      <3>1. row.id \in Ids(page[w])
        BY DEF Ids
      <3> QED
        BY <1>1, <2>1, <2>3, <2>4, <3>1
    <2>6. visited'[w] \subseteq {k \in Key : k <= afterId'[w]}
      <3>1. ASSUME NEW k \in visited[w] PROVE k \in Key /\ k <= row.id
        <4>1. k \in Key /\ k \in Nat /\ k <= afterId[w]
          BY DEF WalkInv
        <4> QED
          BY <1>0, <2>2, <4>1
      <3> QED
        BY <2>2, <2>5, <3>1
    <2>7. \A other \in page'[w] : other.id > afterId'[w]
      <3> SUFFICES ASSUME NEW other \in page'[w] PROVE other.id > row.id
        BY <2>2
      <3>1. other \in page[w] /\ other # row /\ row.id <= other.id
        BY <2>1
      <3>2. other.id # row.id
        BY <3>1 DEF WalkInv
      <3> QED
        BY <1>0, <2>2, <3>1, <3>2
    <2>8. ASSUME NEW k \in steady'[w] \ (visited'[w] \cup Ids(page'[w]))
          PROVE  k > afterId'[w] /\ full'[w] /\ \A other \in page'[w] : other.id < k
      BY <2>1, <2>2, <2>4, <2>5, <2>8 DEF WalkInv
    <2> QED
      BY <2>1, <2>3, <2>5, <2>6, <2>7, <2>8 DEF WalkInv
  <1>9. CASE Tick
    <2> DEFINE Aged(row) == [row EXCEPT !.lastAge = Older(@)]
    <2>1. /\ pc' = pc /\ afterId' = afterId /\ best' = best /\ full' = full
          /\ page'[w] = {Aged(row) : row \in page[w]}
          /\ \A k \in Key : alert'[k].active = alert[k].active
      BY <1>9 DEF Tick, IInv, TypeOK, AlertRow
    <2>2. \A row \in page[w] : Aged(row).id = row.id
      BY <1>0 DEF PageRow
    <2> HIDE DEF Aged
    <2>3. /\ Ids(page'[w]) = Ids(page[w])
          /\ \A row \in page'[w] : \E old \in page[w] : row = Aged(old) /\ row.id = old.id
      BY <2>1, <2>2 DEF Ids
    <2>4. \A row, other \in page'[w] : row.id = other.id => row = other
      BY <2>3 DEF WalkInv
    <2>5. CASE pc[w] = "idle"
      BY <1>0, <1>2, <2>1, <2>5 DEF WalkInv
    <2>6. CASE pc[w] # "idle"
      <3>1. visited'[w] = visited[w] /\ steady'[w] = steady[w]
        BY <1>0, <1>1, <2>1, <2>3, <2>6 DEF WalkInv
      <3>2. \A row \in page'[w] : \E old \in page[w] : row.id = old.id
        BY <2>3
      <3>3. pc[w] = "paging" => page'[w] = {}
        BY <2>1 DEF WalkInv
      <3>4. steady[w] \subseteq {k \in DOMAIN best[w] : alert'[k].active}
        BY <1>0, <2>1 DEF WalkInv
      <3>5. \A row \in page'[w] : row.id > afterId[w]
        BY <3>2 DEF WalkInv
      <3>6. ASSUME NEW k \in steady[w] \ (visited[w] \cup Ids(page[w]))
            PROVE  /\ k > afterId[w]
                   /\ pc[w] # "paging" => full[w] /\ \A row \in page'[w] : row.id < k
        BY <3>2 DEF WalkInv
      <3>7. visited[w] \subseteq {k \in Key : k <= afterId[w]}
        BY DEF WalkInv
      <3> QED
        BY <2>1, <2>3, <2>4, <2>6, <3>1, <3>3, <3>4, <3>5, <3>6, <3>7 DEF WalkInv
    <2> QED
      BY <2>5, <2>6
  <1>10. CASE UserActs
    <2>1. UNCHANGED <<pc, runVars, pageVars>>
      BY <1>10 DEF UserActs, Deactivate, SetAlert
    <2> QED
      BY <1>3, <2>1 DEF Rests, runVars, pageVars
  <1> QED
    BY <1>3, <1>4, <1>5, <1>6, <1>8, <1>9, <1>10, RunMoves DEF NextPaging, Next

LEMMA PagingHolds == SpecPaging => [](IInv /\ PagingInv)
  <1>1. InitPaging => IInv /\ PagingInv
    <2>1. InitPaging => IInv
      BY InitIInv DEF InitPaging
    <2>2. InitPaging => PagingInv
      BY DEF InitPaging, Init, PagingInv, WalkInv, Ids
    <2> QED
      BY <2>1, <2>2
  <1>2. IInv /\ PagingInv /\ [NextPaging]_pagingVars => (IInv /\ PagingInv)'
    <2> SUFFICES ASSUME IInv, PagingInv, [NextPaging]_pagingVars
                 PROVE  IInv' /\ PagingInv'
      OBVIOUS
    <2>1. CASE NextPaging
      <3>1. IInv'
        BY <2>1, NextKeeps DEF NextPaging
      <3>2. PagingInv'
        BY <2>1, WalkHolds DEF PagingInv
      <3> QED
        BY <3>1, <3>2
    <2>2. CASE UNCHANGED pagingVars
      <3>1. UNCHANGED vars
        BY <2>2 DEF pagingVars
      <3>2. IInv'
        BY <3>1, NextKeeps
      <3>3. PagingInv'
        BY <2>2 DEF PagingInv, WalkInv, Ids, pagingVars, vars, tables, runVars, pageVars
      <3> QED
        BY <3>2, <3>3
    <2> QED
      BY <2>1, <2>2
  <1> QED
    BY <1>1, <1>2, PTL DEF SpecPaging

\* No run considers an alert twice: the page lies above the cursor, what was visited below.
THEOREM VisitsOnce == SpecPaging => []NoSecondVisit
  <1>1. IInv /\ PagingInv => NoSecondVisit
    <2> SUFFICES ASSUME IInv, PagingInv, NEW w \in Worker, NEW row \in page[w], row.id \in visited[w]
                 PROVE  FALSE
      BY DEF NoSecondVisit, Ids
    <2>1. WalkInv(w) /\ afterId[w] \in Nat
      BY DEF PagingInv, IInv, TypeOK
    <2>2. row.id > afterId[w] /\ row.id \in Nat /\ row.id <= afterId[w]
      BY <2>1 DEF WalkInv
    <2> QED
      BY <2>1, <2>2
  <1> QED
    BY <1>1, PagingHolds, PTL

\* A run that ends undeferred has visited every compared alert that was active all along,
\* for any page size and whatever rows come and go meanwhile.
THEOREM VisitsAll == SpecPaging => CompleteRunVisitsAll
  <1>1. IInv /\ PagingInv => \A w \in Worker : FinishRun(w) => steady[w] \subseteq visited[w]
    <2> SUFFICES ASSUME IInv, PagingInv, NEW w \in Worker, FinishRun(w), NEW k \in steady[w]
                 PROVE  k \in visited[w]
      OBVIOUS
    <2>1. WalkInv(w) /\ page[w] = {} /\ ~full[w] /\ pc[w] = "evaluating"
      BY DEF PagingInv, FinishRun, PageDone, ShortPage
    <2> QED
      BY <2>1 DEF WalkInv, Ids
  <1>2. IInv /\ PagingInv => [\A w \in Worker : FinishRun(w) => steady[w] \subseteq visited[w]]_pagingVars
    BY <1>1
  <1> QED
    BY <1>2, PagingHolds, PTL DEF CompleteRunVisitsAll

================================================================================
