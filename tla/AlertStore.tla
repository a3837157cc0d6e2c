------------------------------- MODULE AlertStore -------------------------------
(***************************************************************************)
(* The rows of price_alerts for one user and one product: createAlert,     *)
(* deactivateAlert, listAlerts and getActiveAlerts of src/db.js, reached   *)
(* through /users/alerts of src/server.js.                                 *)
(*                                                                         *)
(* Rows of before the canonical key stay where they are, so there may be   *)
(* several.  A save is a transaction under an advisory lock: it chooses    *)
(* the row it will write and commits it later; a removal is one statement, *)
(* which waits for the row a save has chosen.                              *)
(***************************************************************************)
EXTENDS Integers

CONSTANTS Session, Target, None, Remove, MaxId

Id == 1..MaxId

ASSUME DistinctAssumption == None \notin Target \cup (0..MaxId) \cup {Remove} \cup Session /\ Remove \notin Target
ASSUME SomeTarget == MaxId \in Nat \ {0}

VARIABLES
  rows,       \* the ids of the rows
  active,     \* ... whose active is TRUE
  canonical,  \* ... that have a dedupe_key
  target,     \* target[i]: target_price of row i
  asked,      \* asked[s]: what session s was asked for
  done,       \* history: done[s]: the last request of s took effect
  holder,     \* the session that holds the advisory lock, or None
  chosen      \* chosen[s]: the row its SELECT ... FOR UPDATE returned, "new" or "none" yet

table == <<rows, active, canonical, target>>
vars  == <<table, asked, done, holder, chosen>>

Init ==
  /\ rows \in SUBSET Id /\ active \in SUBSET rows /\ canonical = {}
  /\ target \in [Id -> Target]
  /\ asked = [s \in Session |-> None] /\ done = [s \in Session |-> FALSE] /\ holder = None
  /\ chosen = [s \in Session |-> None]

\* ORDER BY (dedupe_key IS NOT NULL) DESC, id DESC
Before(i, j) ==
  \/ i \in canonical /\ j \notin canonical
  \/ (i \in canonical <=> j \in canonical) /\ i > j

First(S) == CHOOSE i \in S : \A j \in S \ {i} : Before(i, j)

\* What listAlerts shows and what getActiveAlerts gives to the worker.
Listed == IF active = {} THEN None ELSE target[First(active)]

Ask(s, request) ==
  /\ asked[s] = None
  /\ asked' = [asked EXCEPT ![s] = request] /\ done' = [done EXCEPT ![s] = FALSE]
  /\ UNCHANGED <<table, holder, chosen>>

\* pg_advisory_xact_lock
Lock(s) ==
  /\ asked[s] \in Target /\ holder = None
  /\ holder' = s
  /\ UNCHANGED <<table, asked, done, chosen>>

\* Mutant: a SELECT without ORDER BY.
ChooseAny(s) ==
  /\ holder = s /\ chosen[s] = None
  /\ \E i \in IF rows = {} THEN {0} ELSE rows : chosen' = [chosen EXCEPT ![s] = i]
  /\ UNCHANGED <<table, asked, done, holder>>

\* The row to write: the canonical one, or else the newest, active or not; 0
\* stands for none.
Choose(s) ==
  /\ holder = s /\ chosen[s] = None
  /\ chosen' = [chosen EXCEPT ![s] = IF rows = {} THEN 0 ELSE First(rows)]
  /\ UNCHANGED <<table, asked, done, holder>>

End(s, committed) ==
  /\ holder' = None /\ chosen' = [chosen EXCEPT ![s] = None]
  /\ asked' = [asked EXCEPT ![s] = None] /\ done' = [done EXCEPT ![s] = committed]

\* ON CONFLICT ... DO UPDATE: an insert beside a canonical row becomes its update.
Written(s) ==
  IF chosen[s] # 0 THEN {chosen[s]} ELSE IF canonical # {} THEN canonical ELSE Id \ rows

Commit(s) ==
  /\ holder = s /\ chosen[s] # None
  /\ \E i \in Written(s) :
       /\ rows' = rows \cup {i} /\ active' = active \cup {i}
       /\ canonical' = canonical \cup {i} /\ target' = [target EXCEPT ![i] = asked[s]]
  /\ End(s, TRUE)

\* A statement fails, or the connection goes: the transaction is rolled back.
Abort(s) ==
  /\ holder = s
  /\ UNCHANGED table /\ End(s, FALSE)

Locked == {chosen[s] : s \in Session} \ {None, 0}

\* Mutant: only the row that is shown is disabled.
DeactivateShown(s) ==
  /\ asked[s] = Remove /\ rows # {} /\ rows \cap Locked = {}
  /\ active' = IF active = {} THEN {} ELSE active \ {First(active)}
  /\ asked' = [asked EXCEPT ![s] = None] /\ done' = [done EXCEPT ![s] = TRUE]
  /\ UNCHANGED <<rows, canonical, target, holder, chosen>>

\* deactivateAlert: every row of the product of the row that was named.
Deactivate(s) ==
  /\ asked[s] = Remove /\ rows # {} /\ rows \cap Locked = {}
  /\ active' = {}
  /\ asked' = [asked EXCEPT ![s] = None] /\ done' = [done EXCEPT ![s] = TRUE]
  /\ UNCHANGED <<rows, canonical, target, holder, chosen>>

\* No row has the id, or the statement fails.
NotRemoved(s) ==
  /\ asked[s] = Remove
  /\ asked' = [asked EXCEPT ![s] = None] /\ done' = [done EXCEPT ![s] = FALSE]
  /\ UNCHANGED <<table, holder, chosen>>

Save(s) == Lock(s) \/ Choose(s) \/ Commit(s) \/ Abort(s)

Next ==
  \E s \in Session :
    Save(s) \/ Deactivate(s) \/ NotRemoved(s) \/ \E request \in Target \cup {Remove} : Ask(s, request)

Spec == Init /\ [][Next]_vars

--------------------------------------------------------------------------------
(* Properties. *)

TypeOK ==
  /\ rows \in SUBSET Id /\ active \in SUBSET rows /\ canonical \in SUBSET rows
  /\ target \in [Id -> Target]
  /\ asked \in [Session -> Target \cup {None, Remove}]
  /\ done \in [Session -> BOOLEAN]
  /\ holder \in Session \cup {None}
  /\ chosen \in [Session -> Id \cup {None, 0}]
  /\ \A s \in Session : chosen[s] # None => holder = s

\* The unique index on (user_id, barcode) WHERE dedupe_key IS NOT NULL never
\* refuses a save: at most one row has a key, and a save under way will give one
\* to no second row ("this additive index is safe on existing data").
OneCanonical ==
  /\ \A i, j \in canonical : i = j
  /\ \A s \in Session : chosen[s] \in Id => canonical \subseteq {chosen[s]}

Register == INSTANCE AlertRegister WITH value <- Listed

\* Whatever rows there are, a user has one target or none: a save or a removal
\* takes effect once, as a whole, and "removing a displayed canonical alert cannot
\* unexpectedly reveal another active alert for the same product".
RegisterSpec == Register!Spec

\* The rows keep to their types, and a product has one alert that counts.
RowsAreSound == TypeOK /\ OneCanonical
================================================================================
