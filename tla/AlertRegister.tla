------------------------------ MODULE AlertRegister ------------------------------
(***************************************************************************)
(* What a user is promised of the price alert of one product: there is one *)
(* target or none.  A save or a removal that was asked for takes effect at *)
(* one moment, as a whole, or has no effect at all; nothing else changes   *)
(* the target.                                                             *)
(* AlertStore, with its several rows, implements this.                     *)
(***************************************************************************)
CONSTANTS Session, Target, None, Remove

VARIABLES
  value,   \* the target that is listed and mailed for, or None
  asked,   \* asked[s]: the target to save, Remove, or None
  done     \* done[s]: the last request of s took effect

Init ==
  /\ value \in Target \cup {None}
  /\ asked = [s \in Session |-> None] /\ done = [s \in Session |-> FALSE]

Ask(s, request) ==
  /\ asked[s] = None /\ asked' = [asked EXCEPT ![s] = request]
  /\ done' = [done EXCEPT ![s] = FALSE]
  /\ UNCHANGED value

Take(s) ==
  /\ asked[s] # None
  /\ value' = IF asked[s] = Remove THEN None ELSE asked[s]
  /\ asked' = [asked EXCEPT ![s] = None] /\ done' = [done EXCEPT ![s] = TRUE]

Fail(s) ==
  /\ asked[s] # None
  /\ asked' = [asked EXCEPT ![s] = None] /\ done' = [done EXCEPT ![s] = FALSE]
  /\ UNCHANGED value

Next == \E s \in Session : Take(s) \/ Fail(s) \/ \E request \in Target \cup {Remove} : Ask(s, request)

Spec == Init /\ [][Next]_<<value, asked, done>>
================================================================================
