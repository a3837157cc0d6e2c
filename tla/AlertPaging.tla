------------------------------ MODULE AlertPaging ------------------------------
(***************************************************************************)
(* AlertDelivery with two history variables that say what a run has looked *)
(* at and what it should have looked at: the keyset pagination of          *)
(* evaluatePriceAlerts, while users add and remove alerts.                 *)
(***************************************************************************)
EXTENDS AlertDelivery

VARIABLES
  visited,    \* visited[w]: alerts this run has considered
  steady      \* steady[w]: compared alerts that were active all along the run

pagingVars == <<vars, visited, steady>>

Ids(rows) == {row.id : row \in rows}

InitPaging ==
  /\ Init
  /\ visited = [w \in Worker |-> {}]
  /\ steady = [w \in Worker |-> {}]

NextPaging ==
  /\ Next
  /\ visited' = [w \in Worker |->
       IF pc'[w] = "idle" THEN {} ELSE visited[w] \cup (Ids(page[w]) \ Ids(page'[w]))]
  /\ steady' = [w \in Worker |->
       CASE pc'[w] = "idle" -> {}
         [] pc[w] = "idle" /\ pc'[w] # "idle" -> {k \in DOMAIN best'[w] : alert[k].active}
         [] OTHER -> {k \in steady[w] : alert'[k].active}]

SpecPaging == InitPaging /\ [][NextPaging]_pagingVars

\* A run that ends undeferred has considered every compared alert that was
\* active from its beginning to its end, although other rows enter and leave
\* the result while it pages through them.  (the afterId cursor and the short
\* page of evaluatePriceAlerts, ORDER BY id of getActiveAlerts)
CompleteRunVisitsAll ==
  [][\A w \in Worker : FinishRun(w) => steady[w] \subseteq visited[w]]_pagingVars

\* No run considers an alert twice, so an alert cannot be mailed twice by one
\* run however the rows change between its pages.  (afterId)
NoSecondVisit ==
  \A w \in Worker : Ids(page[w]) \cap visited[w] = {}

================================================================================
