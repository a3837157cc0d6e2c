------------------------------ MODULE AlertSpacing ------------------------------
(***************************************************************************)
(* AlertDelivery with a history variable that remembers, for each alert    *)
(* and each price, how long ago an e-mail announced it.                    *)
(***************************************************************************)
EXTENDS AlertDelivery

VARIABLE announced    \* announced[k][p]: age of the last e-mail for k at price p

spacingVars == <<vars, announced>>

InitSpacing == Init /\ announced = [k \in Key |-> [p \in Price |-> Expired]]

NextSpacing ==
  /\ Next
  /\ announced' = [k \in Key |-> [p \in Price |->
       CASE \E w \in Worker : ProviderAccepts(w) /\ job[w].id = k /\ job[w].price = p -> 0
         [] Tick -> Older(announced[k][p])
         [] OTHER -> announced[k][p]]]

SpecSpacing == InitSpacing /\ [][NextSpacing]_spacingVars

\* What the product tells its users: "Repeated same-price emails are suppressed
\* for 24 hours" (pwa/src/app/alerts/page.tsx, DEPLOYMENT_ACTIVATION.md).
SamePriceSuppressed ==
  [][\A w \in Worker : ProviderAccepts(w) =>
       announced[job[w].id][job[w].price] >= Cooldown]_spacingVars

================================================================================
