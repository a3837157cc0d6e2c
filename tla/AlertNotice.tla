------------------------------ MODULE AlertNotice ------------------------------
(***************************************************************************)
(* What alert delivery promises to a shopper, without workers, pages,      *)
(* claims or a database: for every alert (one user watching one product)   *)
(* there is at most one notice open at a time, an email is only ever       *)
(* handed over for the notice that is open, once, at its price, and a new  *)
(* notice opens only when the last one is old enough, or when it is closed *)
(* and the price has changed since.                                        *)
(***************************************************************************)
EXTENDS Naturals

CONSTANTS
  Key,       \* alerts: one (user, barcode) pair each
  Price,     \* prices that may be announced
  Cooldown   \* ticks during which the same price is not announced again

VARIABLES
  notice,    \* notice[k]: the latest notice of alert k
  mailed     \* mailed[k]: was the email of that notice handed over?

vars == <<notice, mailed>>

Expired  == Cooldown + 1                    \* ages saturate here
Older(a) == IF a < Expired THEN a + 1 ELSE a

Init ==
  /\ notice = [k \in Key |-> [state |-> "none", price |-> 0, age |-> Expired]]
  /\ mailed = [k \in Key |-> FALSE]

MayOpen(k, p) ==
  \/ notice[k].state = "none"
  \/ notice[k].age > Cooldown
  \/ notice[k].state # "open" /\ notice[k].price # p

Open(k, p) ==
  /\ MayOpen(k, p)
  /\ notice' = [notice EXCEPT ![k] = [state |-> "open", price |-> p, age |-> 0]]
  /\ mailed' = [mailed EXCEPT ![k] = FALSE]

\* The email goes out: only under an open notice, and at most once for it.
Mail(k) ==
  /\ notice[k].state = "open"
  /\ notice[k].age <= Cooldown
  /\ ~mailed[k]
  /\ mailed' = [mailed EXCEPT ![k] = TRUE]
  /\ UNCHANGED notice

\* A notice is only called sent when its email was handed over.  A notice
\* called sent may still be downgraded when the answer to the update is lost.
Close(k, s) ==
  /\ notice[k].state \in {"open", "sent"}
  /\ s = "sent" => mailed[k]
  /\ notice' = [notice EXCEPT ![k].state = s]
  /\ UNCHANGED mailed

Age ==
  /\ notice' = [k \in Key |-> [notice[k] EXCEPT !.age = Older(@)]]
  /\ UNCHANGED mailed

Next ==
  \/ Age
  \/ \E k \in Key :
       \/ \E p \in Price : Open(k, p)
       \/ Mail(k)
       \/ \E s \in {"sent", "uncertain"} : Close(k, s)

Spec == Init /\ [][Next]_vars

================================================================================
