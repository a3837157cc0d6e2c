------------------------------ MODULE TablesProofs ------------------------------
(***************************************************************************)
(* Proofs about the parts of MCTables that write rows, score and count.    *)
(*                                                                         *)
(* AlertStore, for every number of sessions, targets and rows of before    *)
(* the canonical key: the unique index never refuses a save, and the rows  *)
(* implement one target or none (AlertRegister).  The inductive invariant  *)
(* says, of a save that has chosen, that no other row has a key, and that  *)
(* there is no row at all when it chose none: only saves add rows and      *)
(* keys, and one save at a time holds the lock.                            *)
(*                                                                         *)
(* CleanScore, for any finite texts and any amounts: each deduction is     *)
(* monotone, and the caps and bands keep the order.                        *)
(*                                                                         *)
(* RequestBudgets, for any visitors, limit, window and size of the table.  *)
(* TwoBudgets is not inductive: a counter must not begin too early.  The   *)
(* invariant dates what a visitor was admitted by its counter (Walked):    *)
(* what the counter has counted is of its window, the budget before that   *)
(* of earlier times, and everything else of a window earlier still.        *)
(***************************************************************************)
EXTENDS MCTables, Sequences, FiniteSetTheorems, WellFoundedInduction, TLAPS

USE DEF Id, table

ChoiceStands ==
  /\ holder # None => asked[holder] \in Target
  /\ \A s \in Session :
       /\ chosen[s] \in Id => chosen[s] \in rows /\ canonical \subseteq {chosen[s]}
       /\ chosen[s] = 0 => rows = {}

IInv == TypeOK /\ (\A i, j \in canonical : i = j) /\ ChoiceStands

LEMMA Distinct ==
  /\ None \notin Target /\ None # Remove /\ Remove \notin Target
  /\ None \notin Id /\ None # 0 /\ 0 \notin Id
  /\ \A s \in Session : None # s
BY DistinctAssumption, SomeTarget

\* A row with a key that no other row has goes first.
LEMMA KeyGoesFirst ==
  ASSUME NEW S, NEW i \in S, i \in canonical, canonical \subseteq {i}
  PROVE  First(S) = i
<1>1. \A j \in S \ {i} : Before(i, j)
  BY DEF Before
<1>2. ASSUME NEW k \in S, \A j \in S \ {k} : Before(k, j)
      PROVE  k = i
  <2>1. CASE k # i
    <3>1. Before(k, i)
      BY <1>2, <2>1
    <3>. QED
      BY <3>1, <2>1 DEF Before
  <2>. QED
    BY <2>1
<1>. QED
  BY <1>1, <1>2 DEF First

\* Of any rows one goes first: the one with the key, or else the newest.
LEMMA SomeRowFirst ==
  ASSUME NEW S \in SUBSET Id, S # {}, \A i, j \in canonical : i = j
  PROVE  First(S) \in S
<1>. DEFINE age == {MaxId - i : i \in S}
<1>1. age \in SUBSET Nat /\ age # {}
  BY SomeTarget
<1>2. PICK a \in age : \A b \in age : a <= b
  <2>. DEFINE older == OpToRel(<, Nat)
  <2>1. IsWellFoundedOn(older, Nat)
    BY NatLessThanWellFounded
  <2>2. PICK a \in age : \A b \in age : <<b, a>> \notin older
    <3>. HIDE DEF older
    <3>. QED
      BY <1>1, <2>1, WFMin
  <2>3. \A b \in age : ~(b < a)
    BY <1>1, <2>2 DEF OpToRel
  <2>. QED
    BY <1>1, <2>3
<1>3. PICK n \in S : a = MaxId - n
  OBVIOUS
<1>4. \A j \in S : MaxId - n <= MaxId - j
  BY <1>2, <1>3
<1>5. \A j \in S : j <= n
  <2>. TAKE j \in S
  <2>1. n \in Int /\ j \in Int /\ MaxId \in Int
    BY SomeTarget
  <2>. QED
    BY <1>4, <2>1
<1>6. \E i \in S : \A j \in S \ {i} : Before(i, j)
  <2>1. CASE \E i \in S : i \in canonical
    <3>1. PICK i \in S : i \in canonical
      BY <2>1
    <3>. QED
      BY <3>1 DEF Before
  <2>2. CASE \A i \in S : i \notin canonical
    <3>1. \A j \in S \ {n} : n > j
      <4>. TAKE j \in S \ {n}
      <4>1. n \in Int /\ j \in Int /\ j <= n /\ j # n
        BY <1>5, SomeTarget
      <4>. QED
        BY <4>1
    <3>. QED
      BY <2>2, <3>1 DEF Before
  <2>. QED
    BY <2>1, <2>2
<1>. QED
  BY <1>6 DEF First

\* What is listed is a target or nothing.
LEMMA ListedType ==
  ASSUME TypeOK, \A i, j \in canonical : i = j
  PROVE  Listed \in Target \cup {None}
<1>1. CASE active = {}
  BY <1>1 DEF Listed
<1>2. CASE active # {}
  <2>1. First(active) \in Id
    BY <1>2, SomeRowFirst DEF TypeOK
  <2>. QED
    BY <1>2, <2>1 DEF Listed, TypeOK
<1>. QED
  BY <1>1, <1>2

--------------------------------------------------------------------------------

LEMMA InitIInv == Init => IInv
<1>. SUFFICES ASSUME Init PROVE IInv
  OBVIOUS
<1>1. TypeOK
  BY Distinct DEF Init, TypeOK
<1>2. ChoiceStands
  BY Distinct DEF Init, ChoiceStands
<1>. QED
  BY <1>1, <1>2 DEF IInv, Init

\* A session writes one row, which it then gives the only key.
LEMMA OneRowWritten ==
  ASSUME IInv, NEW s \in Session, chosen[s] # None, NEW i \in Written(s)
  PROVE  /\ i \in Id
         /\ canonical \subseteq {i}
         /\ i \notin rows => rows = {}
<1>1. CASE chosen[s] = 0
  BY <1>1 DEF IInv, TypeOK, ChoiceStands, Written
<1>2. CASE chosen[s] # 0
  BY <1>2 DEF IInv, TypeOK, ChoiceStands, Written
<1>. QED
  BY <1>1, <1>2

\* When a save ends nobody holds the lock and nobody has chosen.
LEMMA NobodyChose ==
  ASSUME IInv, NEW s \in Session, holder = s, NEW committed \in BOOLEAN, End(s, committed)
  PROVE  /\ \A q \in Session : chosen'[q] = None
         /\ holder' = None /\ asked' \in [Session -> Target \cup {None, Remove}]
         /\ done' \in [Session -> BOOLEAN] /\ chosen' \in [Session -> Id \cup {None, 0}]
<1>1. \A q \in Session : q # s => chosen[q] = None
  BY DEF IInv, TypeOK
<1>2. \A q \in Session : chosen'[q] = None
  BY <1>1 DEF IInv, TypeOK, End
<1>3. asked' \in [Session -> Target \cup {None, Remove}] /\ done' \in [Session -> BOOLEAN]
  BY DEF IInv, TypeOK, End
<1>4. chosen' \in [Session -> Id \cup {None, 0}]
  BY DEF IInv, TypeOK, End
<1>. QED
  BY <1>2, <1>3, <1>4 DEF End

LEMMA AskStep ==
  ASSUME IInv, NEW s \in Session, NEW request \in Target \cup {Remove}, Ask(s, request)
  PROVE  IInv'
<1>1. TypeOK'
  BY DEF IInv, TypeOK, Ask
<1>2. holder # None => asked'[holder] \in Target
  BY Distinct DEF IInv, TypeOK, ChoiceStands, Ask
<1>3. ChoiceStands'
  BY <1>2 DEF IInv, ChoiceStands, Ask
<1>. QED
  BY <1>1, <1>3 DEF IInv, Ask

LEMMA LockStep ==
  ASSUME IInv, NEW s \in Session, Lock(s)
  PROVE  IInv'
<1>1. TypeOK'
  BY Distinct DEF IInv, TypeOK, Lock
<1>2. ChoiceStands'
  BY DEF IInv, ChoiceStands, Lock
<1>. QED
  BY <1>1, <1>2 DEF IInv, Lock

LEMMA ChooseStep ==
  ASSUME IInv, NEW s \in Session, Choose(s)
  PROVE  IInv'
<1>. DEFINE c == IF rows = {} THEN 0 ELSE First(rows)
<1>1. CASE rows = {}
  <2>1. canonical = {} /\ c = 0
    BY <1>1 DEF IInv, TypeOK
  <2>. QED
    BY <1>1, <2>1, Distinct DEF IInv, TypeOK, ChoiceStands, Choose
<1>2. CASE rows # {}
  <2>1. c \in rows /\ c = First(rows)
    BY <1>2, SomeRowFirst DEF IInv, TypeOK
  <2>2. canonical \subseteq {c}
    <3>1. CASE canonical = {}
      BY <3>1
    <3>2. CASE canonical # {}
      <4>1. PICK k \in canonical : TRUE
        BY <3>2
      <4>2. k \in rows /\ canonical \subseteq {k}
        BY <4>1 DEF IInv, TypeOK
      <4>3. First(rows) = k
        BY <4>1, <4>2, KeyGoesFirst
      <4>. QED
        BY <2>1, <4>2, <4>3
    <3>. QED
      BY <3>1, <3>2
  <2>3. chosen' = [chosen EXCEPT ![s] = c] /\ c \in Id
    BY <2>1 DEF Choose, IInv, TypeOK
  <2>. HIDE DEF c
  <2>4. TypeOK'
    BY <2>3 DEF IInv, TypeOK, Choose
  <2>5. ChoiceStands'
    BY <2>1, <2>2, <2>3, Distinct DEF IInv, TypeOK, ChoiceStands, Choose
  <2>. QED
    BY <2>4, <2>5 DEF IInv, Choose
<1>. QED
  BY <1>1, <1>2

\* After a commit the row that was written is listed.
LEMMA CommitStep ==
  ASSUME IInv, NEW s \in Session, Commit(s)
  PROVE  IInv' /\ Listed' = asked[s]
<1>1. PICK i \in Written(s) :
        /\ rows' = rows \cup {i} /\ active' = active \cup {i}
        /\ canonical' = canonical \cup {i} /\ target' = [target EXCEPT ![i] = asked[s]]
  BY DEF Commit
<1>2. i \in Id /\ canonical \subseteq {i}
  BY <1>1, OneRowWritten DEF Commit
<1>3. asked[s] \in Target /\ holder = s
  BY Distinct DEF Commit, IInv, ChoiceStands
<1>4. canonical' = {i}
  BY <1>1, <1>2
<1>5. /\ \A q \in Session : chosen'[q] = None
      /\ holder' = None /\ asked' \in [Session -> Target \cup {None, Remove}]
      /\ done' \in [Session -> BOOLEAN] /\ chosen' \in [Session -> Id \cup {None, 0}]
  BY <1>3, NobodyChose DEF Commit
<1>6. target' \in [Id -> Target]
  BY <1>1, <1>2, <1>3 DEF IInv, TypeOK
<1>7. TypeOK'
  BY <1>1, <1>2, <1>4, <1>5, <1>6 DEF IInv, TypeOK
<1>8. ChoiceStands'
  BY <1>5, Distinct DEF ChoiceStands
<1>9. First(active)' = i
  <2>1. \A j \in active' \ {i} : Before(i, j)'
    BY <1>4 DEF Before
  <2>2. ASSUME NEW k \in active', \A j \in active' \ {k} : Before(k, j)'
        PROVE  k = i
    <3>1. CASE k # i
      <4>1. Before(k, i)'
        BY <1>1, <2>2, <3>1
      <4>. QED
        BY <4>1, <1>4, <3>1 DEF Before
    <3>. QED
      BY <3>1
  <2>. QED
    BY <1>1, <2>1, <2>2 DEF First
<1>10. Listed' = asked[s]
  BY <1>1, <1>2, <1>9 DEF Listed, IInv, TypeOK
<1>. QED
  BY <1>4, <1>7, <1>8, <1>10 DEF IInv

LEMMA AbortStep ==
  ASSUME IInv, NEW s \in Session, Abort(s)
  PROVE  IInv'
<1>1. /\ \A q \in Session : chosen'[q] = None
      /\ holder' = None /\ asked' \in [Session -> Target \cup {None, Remove}]
      /\ done' \in [Session -> BOOLEAN] /\ chosen' \in [Session -> Id \cup {None, 0}]
  BY NobodyChose DEF Abort
<1>. QED
  BY <1>1, Distinct DEF IInv, TypeOK, ChoiceStands, Abort

LEMMA DeactivateStep ==
  ASSUME IInv, NEW s \in Session, Deactivate(s)
  PROVE  IInv'
<1>1. TypeOK'
  BY DEF IInv, TypeOK, Deactivate
<1>2. holder # None => asked'[holder] \in Target
  BY Distinct DEF IInv, TypeOK, ChoiceStands, Deactivate
<1>3. ChoiceStands'
  BY <1>2 DEF IInv, ChoiceStands, Deactivate
<1>. QED
  BY <1>1, <1>3 DEF IInv, Deactivate

LEMMA NotRemovedStep ==
  ASSUME IInv, NEW s \in Session, NotRemoved(s)
  PROVE  IInv'
<1>1. TypeOK'
  BY DEF IInv, TypeOK, NotRemoved
<1>2. holder # None => asked'[holder] \in Target
  BY Distinct DEF IInv, TypeOK, ChoiceStands, NotRemoved
<1>3. ChoiceStands'
  BY <1>2 DEF IInv, ChoiceStands, NotRemoved
<1>. QED
  BY <1>1, <1>3 DEF IInv, NotRemoved

LEMMA NextIInv == IInv /\ [Next]_vars => IInv'
<1>. SUFFICES ASSUME IInv, [Next]_vars PROVE IInv'
  OBVIOUS
<1>1. ASSUME NEW s \in Session, Save(s) PROVE IInv'
  BY <1>1, LockStep, ChooseStep, CommitStep, AbortStep DEF Save
<1>2. ASSUME NEW s \in Session, Deactivate(s) \/ NotRemoved(s) PROVE IInv'
  BY <1>2, DeactivateStep, NotRemovedStep
<1>3. ASSUME NEW s \in Session, NEW request \in Target \cup {Remove}, Ask(s, request) PROVE IInv'
  BY <1>3, AskStep
<1>4. CASE UNCHANGED vars
  BY <1>4 DEF vars, IInv, TypeOK, ChoiceStands
<1>. QED
  BY <1>1, <1>2, <1>3, <1>4 DEF Next

LEMMA Inductive == Spec => []IInv
BY InitIInv, NextIInv, PTL DEF Spec

\* Every state of price_alerts and of the sessions is well formed.
THEOREM TypeCorrect == Spec => []TypeOK
BY Inductive, PTL DEF IInv

\* At most one row has a key, and a save under way gives one to no second row.
THEOREM IndexNeverRefuses == Spec => []OneCanonical
<1>1. IInv => OneCanonical
  BY DEF IInv, ChoiceStands, OneCanonical
<1>. QED
  BY Inductive, <1>1, PTL

--------------------------------------------------------------------------------
(* The rows implement one target or none. *)

LEMMA UnchangedListed ==
  ASSUME UNCHANGED <<active, canonical, target>>
  PROVE  UNCHANGED Listed
BY DEF Listed, First, Before

LEMMA InitRegister == Init => Register!Init
<1>. SUFFICES ASSUME Init PROVE Register!Init
  OBVIOUS
<1>1. Listed \in Target \cup {None}
  BY InitIInv, ListedType DEF IInv
<1>. QED
  BY <1>1 DEF Init, Register!Init

LEMMA NextRegister == IInv /\ [Next]_vars => [Register!Next]_<<Listed, asked, done>>
<1>. SUFFICES ASSUME IInv, [Next]_vars PROVE [Register!Next]_<<Listed, asked, done>>
  OBVIOUS
<1>1. ASSUME NEW s \in Session, Lock(s) \/ Choose(s) PROVE UNCHANGED <<Listed, asked, done>>
  BY <1>1, UnchangedListed DEF Lock, Choose
<1>2. ASSUME NEW s \in Session, Commit(s) PROVE Register!Take(s)
  <2>1. Listed' = asked[s] /\ asked[s] \in Target
    BY <1>2, CommitStep, Distinct DEF Commit, IInv, ChoiceStands
  <2>. QED
    BY <1>2, <2>1, Distinct DEF Commit, End, Register!Take
<1>3. ASSUME NEW s \in Session, Abort(s) PROVE Register!Fail(s)
  <2>1. asked[s] # None
    BY <1>3, Distinct DEF Abort, IInv, ChoiceStands
  <2>2. UNCHANGED <<Listed>>
    BY <1>3, UnchangedListed DEF Abort
  <2>. QED
    BY <1>3, <2>1, <2>2 DEF Abort, End, Register!Fail
<1>4. ASSUME NEW s \in Session, Deactivate(s) PROVE Register!Take(s)
  BY <1>4, Distinct DEF Deactivate, Listed, Register!Take
<1>5. ASSUME NEW s \in Session, NotRemoved(s) PROVE Register!Fail(s)
  BY <1>5, UnchangedListed, Distinct DEF NotRemoved, Register!Fail
<1>6. ASSUME NEW s \in Session, NEW request \in Target \cup {Remove}, Ask(s, request) PROVE Register!Ask(s, request)
  BY <1>6, UnchangedListed DEF Ask, Register!Ask
<1>7. CASE UNCHANGED vars
  BY <1>7, UnchangedListed DEF vars
<1>. QED
  BY <1>1, <1>2, <1>3, <1>4, <1>5, <1>6, <1>7 DEF Next, Save, Register!Next

\* A save or a removal takes effect once, as a whole, or not at all, and nothing
\* else changes what is listed and mailed for.
THEOREM Implements == Spec => RegisterSpec
BY InitRegister, NextRegister, Inductive, PTL DEF Spec, RegisterSpec, Register!Spec

\* The rows of an alert stay well formed, with at most one key: createAlert and
\* deactivateAlert of src/db.js.
THEOREM RowsStaySound == Spec => []RowsAreSound
BY TypeCorrect, IndexNeverRefuses, PTL DEF RowsAreSound

HIDE DEF Id, table

--------------------------------------------------------------------------------
(* The score. *)

\* The instance counts as this module does.
LEMMA Sizes == \A S : Score!Cardinality(S) = Cardinality(S) /\ (Score!IsFiniteSet(S) <=> IsFiniteSet(S))
BY DEF Score!Cardinality, Cardinality, Score!IsFiniteSet, IsFiniteSet

\* An edit leaves a record.
LEMMA EditIs == ASSUME record \in Score!Record, Score!Next PROVE record' \in Score!Record
<1>1. ASSUME NEW value \in Text \cup {None}, Score!Edit("own", value) \/ Score!Edit("en", value) \/ Score!Edit("local", value) PROVE record' \in Score!Record
  BY <1>1 DEF Score!Edit, Score!Record
<1>2. ASSUME NEW value \in Text, Score!Edit("tags", value) PROVE record' \in Score!Record
  BY <1>2 DEF Score!Edit, Score!Record
<1>3. ASSUME NEW value \in Sugar \cup {None}, Score!Edit("sugar", value) PROVE record' \in Score!Record
  BY <1>3 DEF Score!Edit, Score!Record
<1>4. ASSUME NEW value \in Mineral \cup {None}, Score!Edit("sodium", value) \/ Score!Edit("salt", value) PROVE record' \in Score!Record
  BY <1>4 DEF Score!Edit, Score!Record
<1>5. ASSUME NEW value \in Score!Grade \cup {None}, Score!Edit("nutri", value) PROVE record' \in Score!Record
  BY <1>5 DEF Score!Edit, Score!Record
<1> QED
  BY <1>1, <1>2, <1>3, <1>4, <1>5 DEF Score!Next

LEMMA ScoredIs ==
  ASSUME NEW p \in Score!Record, Score!Scored(p)
  PROVE  Score!Selected(p) # None /\ p.sugar \in Sugar /\ p.sugar # None /\ p.sodium \in Mineral /\ p.sodium # None /\ p.nutri \in Score!Grade /\ p.nutri # None
<1>1. /\ "ingredients" \notin Score!Missing(p) /\ "sugar" \notin Score!Missing(p) /\ "sodium" \notin Score!Missing(p) /\ "nutri" \notin Score!Missing(p)
  BY DEF Score!Scored
<1>2. Score!Selected(p) # None /\ p.sugar # None /\ p.sodium # None /\ p.nutri # None
  BY <1>1 DEF Score!Missing, Score!Sodium
<1> QED
  BY <1>2 DEF Score!Record

LEMMA AdditivesFinite ==
  ASSUME Score!Assumptions, NEW p \in Score!Record
  PROVE  IsFiniteSet(Score!Additives(p))
<1>1. \A text \in Text \cup {None} : IsFiniteSet(Score!Given(text))
  BY FS_EmptySet, Sizes DEF Score!Given, Score!Assumptions
<1>2. p.own \in Text \cup {None} /\ p.en \in Text \cup {None} /\ p.local \in Text \cup {None} /\ p.tags \in Text
  BY DEF Score!Record
<1>3. IsFiniteSet(Score!Given(Score!Selected(p)))
  BY <1>1, <1>2 DEF Score!Selected
<1>4. IsFiniteSet(Score!Given(Score!Selected(p)) \cup Score!Given(p.own))
  BY <1>1, <1>2, <1>3, FS_Union
<1>5. IsFiniteSet(Score!Given(Score!Selected(p)) \cup Score!Given(p.own) \cup Score!Given(p.en))
  BY <1>1, <1>2, <1>4, FS_Union
<1>6. IsFiniteSet(p.tags)
  BY <1>2, Sizes DEF Score!Assumptions
<1> QED
  BY <1>5, <1>6, FS_Union DEF Score!Additives

\* Every deduction is a number of points, 9 together at most.
LEMMA ScoreIs ==
  ASSUME Score!Assumptions, NEW p \in Score!Record
  PROVE  Score!Deductions(p) \in Nat /\ Score!Score(p) \in 1..10
<1>1. Cardinality(Score!Additives(p)) \in Nat
  BY AdditivesFinite, FS_CardinalityType
<1>2. Score!Capped(Cardinality(Score!Additives(p))) \in Nat
  BY <1>1 DEF Score!Capped
<1>3. /\ Score!Point(Score!Additives(p) \cap Color # {}) \in Nat /\ Score!Point(Score!Additives(p) \cap Preservative # {}) \in Nat
      /\ Score!Point(p.sugar > 20) \in Nat /\ Score!Point(Score!Sodium(p) > 1) \in Nat /\ Score!Point(p.nutri \in {"D", "E"}) \in Nat
  BY DEF Score!Point
<1>4. Score!Deductions(p) \in Nat
  BY <1>2, <1>3, Sizes DEF Score!Deductions
<1> QED
  BY <1>4 DEF Score!Score

LEMMA PointsFollow == ASSUME NEW c \in BOOLEAN, NEW d \in BOOLEAN, c => d PROVE Score!Point(c) \in Nat /\ Score!Point(d) \in Nat /\ Score!Point(c) <= Score!Point(d)
BY DEF Score!Point

\* What tells no less and nothing better costs no fewer points.
LEMMA MoreIsDeducted ==
  ASSUME Score!Assumptions, NEW p \in Score!Record, NEW q \in Score!Record, Score!Scored(p), Score!Scored(q), Score!NoBetter(q, p)
  PROVE  Score!Deductions(p) <= Score!Deductions(q)
<1>1. Score!Additives(p) \subseteq Score!Additives(q)
  <2>1. Score!Given(Score!Selected(p)) \subseteq Score!Given(Score!Selected(q))
    BY DEF Score!NoBetter, Score!Selected
  <2> QED
    BY <2>1 DEF Score!NoBetter, Score!Additives
<1>2. /\ Cardinality(Score!Additives(p)) \in Nat /\ Cardinality(Score!Additives(q)) \in Nat
      /\ Cardinality(Score!Additives(p)) <= Cardinality(Score!Additives(q))
  BY <1>1, AdditivesFinite, FS_Subset, FS_CardinalityType
<1> DEFINE a == Score!Capped(Cardinality(Score!Additives(p)))               b == Score!Capped(Cardinality(Score!Additives(q)))
           a1 == Score!Point(Score!Additives(p) \cap Color # {})            b1 == Score!Point(Score!Additives(q) \cap Color # {})
           a2 == Score!Point(Score!Additives(p) \cap Preservative # {})     b2 == Score!Point(Score!Additives(q) \cap Preservative # {})
           a3 == Score!Point(p.sugar > 20)                            b3 == Score!Point(q.sugar > 20)
           a4 == Score!Point(Score!Sodium(p) > 1)                           b4 == Score!Point(Score!Sodium(q) > 1)
           a5 == Score!Point(p.nutri \in {"D", "E"})                  b5 == Score!Point(q.nutri \in {"D", "E"})
<1>3. a \in Nat /\ b \in Nat /\ a <= b
  BY <1>2 DEF Score!Capped
<1>4. a1 \in Nat /\ b1 \in Nat /\ a1 <= b1
  BY <1>1 DEF Score!Point
<1>5. a2 \in Nat /\ b2 \in Nat /\ a2 <= b2
  BY <1>1 DEF Score!Point
<1>6. a3 \in Nat /\ b3 \in Nat /\ a3 <= b3
  <2>1. p.sugar \in Nat /\ q.sugar \in Nat /\ p.sugar <= q.sugar
    BY ScoredIs DEF Score!Assumptions, Score!NoBetter
  <2>2. p.sugar > 20 => q.sugar > 20
    BY <2>1
  <2> QED
    BY <2>2 DEF Score!Point
<1>7. a4 \in Nat /\ b4 \in Nat /\ a4 <= b4
  <2>1. p.sodium \in Nat /\ q.sodium \in Nat /\ p.sodium <= q.sodium
    BY ScoredIs DEF Score!Assumptions, Score!NoBetter
  <2>2. Score!Sodium(p) > 1 => Score!Sodium(q) > 1
    BY <2>1 DEF Score!Sodium
  <2> QED
    BY <2>2 DEF Score!Point
<1>8. a5 \in Nat /\ b5 \in Nat /\ a5 <= b5
  <2>1. p.nutri \in Score!Grade /\ q.nutri \in Score!Grade /\ Score!Rank[p.nutri] <= Score!Rank[q.nutri]
    BY ScoredIs DEF Score!NoBetter
  <2>2. Score!Rank["A"] = 1 /\ Score!Rank["B"] = 2 /\ Score!Rank["C"] = 3 /\ Score!Rank["D"] = 4 /\ Score!Rank["E"] = 5
    BY DEF Score!Rank
  <2>3. p.nutri \in {"D", "E"} => q.nutri \in {"D", "E"}
    BY <2>1, <2>2 DEF Score!Grade
  <2> QED
    BY <2>3 DEF Score!Point
<1>9. Score!Deductions(p) = a + a1 + a2 + a3 + a4 + a5 /\ Score!Deductions(q) = b + b1 + b2 + b3 + b4 + b5
  BY Sizes DEF Score!Deductions
<1> HIDE DEF a, b, a1, b1, a2, b2, a3, b3, a4, b4, a5, b5
<1> QED
  BY <1>3, <1>4, <1>5, <1>6, <1>7, <1>8, <1>9

LEMMA ScoreFollows ==
  ASSUME Score!Assumptions, NEW p \in Score!Record, NEW q \in Score!Record, Score!Scored(p), Score!Scored(q), Score!NoBetter(q, p)
  PROVE  Score!Score(q) <= Score!Score(p) /\ Score!Band(Score!Score(q)) <= Score!Band(Score!Score(p))
<1>1. Score!Deductions(p) \in Nat /\ Score!Deductions(q) \in Nat /\ Score!Deductions(p) <= Score!Deductions(q)
  BY ScoreIs, MoreIsDeducted
<1>2. Score!Score(p) \in Int /\ Score!Score(q) \in Int /\ Score!Score(q) <= Score!Score(p)
  BY <1>1 DEF Score!Score
<1> QED
  BY <1>2 DEF Score!Band

LEMMA ScoreImplied == ASSUME Score!Assumptions, record \in Score!Record PROVE Score!TypeOK /\ Score!NothingInvented
<1>1. Score!TypeOK
  BY ScoreIs DEF Score!TypeOK
<1>2. Score!Scored(record) => None \notin {record.sugar, record.sodium, record.nutri} /\ Score!Selected(record) # None
  BY ScoredIs
<1>3. Score!Salt(record).calculated => record.salt = None /\ record.sodium # None
  BY DEF Score!Salt
<1> QED
  BY <1>1, <1>2, <1>3 DEF Score!NothingInvented

LEMMA ScoreInitHolds == ASSUME Score!Init PROVE record \in Score!Record
BY DEF Score!Init, Score!Record

--------------------------------------------------------------------------------
(* The budgets. *)

\* The instance counts as this module does.
LEMMA BudgetSizes == \A S : Budget!Cardinality(S) = Cardinality(S) /\ (Budget!IsFiniteSet(S) <=> IsFiniteSet(S))
BY DEF Budget!Cardinality, Cardinality, Budget!IsFiniteSet, IsFiniteSet

CountersTyped ==
  /\ kind \in {"price", "auth"} /\ now \in Nat
  /\ given \subseteq Visitor /\ admitted \in [Visitor -> Seq(Nat)]
  /\ \A v \in Visitor : \A i \in 1..Len(admitted[v]) : admitted[v][i] <= now
  /\ \A v \in given : admitted[v] = <<>>

\* Counters began in the last window or before.
Begun == \A v \in Budget!Held : Window <= buckets[v].resetAt /\ buckets[v].resetAt <= now + Window

\* What a counter has admitted.
Used(b) == IF b.count <= Limit THEN b.count ELSE Limit

\* The visitor was admitted by its counter b as often as b says, before that in one window
\* at most, which was over when b began.
Walked(b, times) ==
  /\ Used(b) <= Len(times)
  /\ \A i \in 1..Len(times) :
       /\ i > Len(times) - Used(b) => times[i] >= b.resetAt - Window
       /\ i <= Len(times) - Used(b) => times[i] <= b.resetAt - Window
       /\ i <= Len(times) - Used(b) - Limit => times[i] + Window <= b.resetAt - Window

\* A counter that begins now is a new window.
Rested(times) == \A i \in 1..Len(times) : i <= Len(times) - Limit => times[i] + Window <= now

Walks == \A v \in Visitor \ given : IF v \in Budget!Held THEN Walked(buckets[v], admitted[v]) ELSE Rested(admitted[v])

BudgetInv == CountersTyped /\ Budget!TypeOK /\ Begun /\ Walks /\ Budget!TwoBudgets /\ Budget!TurnedAwayForCause

LEMMA BudgetInit == ASSUME Budget!Assumptions, Budget!Init PROVE BudgetInv
<1> USE DEF Budget!Init, Budget!Assumptions
<1>1. Budget!Held = {} /\ Cardinality(Budget!Held) = 0
  BY FS_EmptySet DEF Budget!Held
<1>2. admitted \in [Visitor -> Seq(Nat)] /\ \A v \in Visitor : Len(admitted[v]) = 0
  OBVIOUS
<1>3. CountersTyped
  BY <1>2 DEF CountersTyped
<1>4. Budget!TypeOK
  BY <1>1, BudgetSizes DEF Budget!TypeOK, Budget!Held
<1>5. Begun /\ Walks
  BY <1>1, <1>2 DEF Begun, Walks, Rested
<1>6. Budget!TwoBudgets /\ Budget!TurnedAwayForCause
  BY <1>2, BudgetSizes DEF Budget!TwoBudgets, Budget!TurnedAwayForCause, Budget!NoAnswer
<1> QED
  BY <1>3, <1>4, <1>5, <1>6 DEF BudgetInv

LEMMA BudgetTickKeeps == ASSUME Budget!Assumptions, BudgetInv, Budget!Tick PROVE BudgetInv'
<1> USE DEF Budget!Tick, Budget!Assumptions, BudgetInv
<1>0. now \in Nat /\ now' = now + 1 /\ Window \in Nat /\ admitted \in [Visitor -> Seq(Nat)]
  BY DEF CountersTyped
<1>1. CountersTyped'
  BY <1>0 DEF CountersTyped
<1>2. Budget!TypeOK'
  BY BudgetSizes DEF Budget!TypeOK, Budget!Held
<1>3. Begun'
  BY <1>0, BudgetSizes DEF Begun, Budget!Held, Budget!TypeOK, Budget!Counter
<1>4. Walks'
  <2>1. \A v \in Visitor : Rested(admitted[v]) => Rested(admitted[v])'
    BY <1>0 DEF Rested
  <2> QED
    BY <2>1 DEF Walks, Walked, Used, Budget!Held
<1>5. Budget!TwoBudgets'
  BY DEF Budget!TwoBudgets
<1>6. Budget!TurnedAwayForCause'
  BY BudgetSizes DEF Budget!TurnedAwayForCause, Budget!NoAnswer
<1> QED
  BY <1>1, <1>2, <1>3, <1>4, <1>5, <1>6

\* Of counters there is one that was set first.
LEMMA FirstIs ==
  ASSUME Budget!TypeOK, NEW keep \in SUBSET Budget!Held, keep # {}
  PROVE  Budget!First(keep) \in keep
<1> DEFINE places == {buckets[v].place : v \in keep}
<1>1. places \in SUBSET Nat /\ places # {}
  BY BudgetSizes DEF Budget!TypeOK, Budget!Counter
<1>2. PICK a \in places : \A b \in places : a <= b
  <2>. DEFINE older == OpToRel(<, Nat)
  <2>1. IsWellFoundedOn(older, Nat)
    BY NatLessThanWellFounded
  <2>2. PICK a \in places : \A b \in places : <<b, a>> \notin older
    <3>. HIDE DEF older, places
    <3>. QED
      BY <1>1, <2>1, WFMin
  <2>3. \A b \in places : ~(b < a)
    BY <1>1, <2>2 DEF OpToRel
  <2>. HIDE DEF places
  <2>. QED
    BY <1>1, <2>3
<1>3. \E v \in keep : \A w \in keep : buckets[v].place <= buckets[w].place
  BY <1>2
<1> QED
  BY <1>3 DEF Budget!First

LEMMA HeldFinite ==
  ASSUME Budget!Assumptions, Budget!TypeOK
  PROVE  IsFiniteSet(Budget!Held) /\ Cardinality(Budget!Held) \in Nat /\ \A S \in SUBSET Budget!Held : IsFiniteSet(S) /\ Cardinality(S) \in Nat /\ Cardinality(S) <= Cardinality(Budget!Held)
<1>1. IsFiniteSet(Budget!Held)
  BY FS_Subset, BudgetSizes DEF Budget!TypeOK, Budget!Assumptions
<1> QED
  BY <1>1, FS_Subset, FS_CardinalityType

\* Only what is over is removed by the sweep.
LEMMA SweptIs ==
  ASSUME Budget!TypeOK
  PROVE  Budget!Swept \in SUBSET Budget!Held /\ Budget!Live \subseteq Budget!Swept
BY BudgetSizes DEF Budget!Swept, Budget!Live

\* Who keeps a counter of the price table.
LEMMA RoomyIs ==
  ASSUME Budget!Assumptions, Budget!TypeOK, kind = "price"
  PROVE  /\ Budget!Roomy \in SUBSET Budget!Held
         /\ Cardinality(Budget!Roomy) <= Capacity
         /\ Budget!Live \subseteq Budget!Roomy \/ (Cardinality(Budget!Live) > Capacity /\ \E w \in Budget!Live : Budget!Live \ Budget!Roomy = {w})
<1>0. Capacity \in Nat /\ Cardinality(Budget!Held) <= Capacity + 1
  BY BudgetSizes DEF Budget!Assumptions, Budget!TypeOK
<1>1. Budget!Swept \in SUBSET Budget!Held /\ Budget!Live \subseteq Budget!Swept /\ IsFiniteSet(Budget!Swept) /\ Cardinality(Budget!Swept) \in Nat /\ Cardinality(Budget!Swept) <= Capacity + 1
  BY <1>0, SweptIs, HeldFinite
<1>2. CASE ~(Cardinality(Budget!Swept) > Capacity)
  BY <1>0, <1>1, <1>2, BudgetSizes DEF Budget!Roomy
<1>3. CASE Cardinality(Budget!Swept) > Capacity
  <2>1. Budget!Swept = Budget!Live
    BY <1>0, <1>1, <1>3, HeldFinite, BudgetSizes DEF Budget!Swept
  <2>2. Budget!Swept # {}
    BY <1>0, <1>3, FS_EmptySet
  <2>3. Budget!First(Budget!Swept) \in Budget!Swept
    BY <1>1, <2>2, FirstIs
  <2>4. Budget!Roomy = Budget!Swept \ {Budget!First(Budget!Swept)}
    BY <1>3, BudgetSizes DEF Budget!Roomy
  <2>5. Cardinality(Budget!Roomy) = Cardinality(Budget!Swept) - 1
    BY <1>1, <2>3, <2>4, FS_RemoveElement
  <2> QED
    BY <1>0, <1>1, <1>3, <2>1, <2>3, <2>4, <2>5
<1> QED
  BY <1>2, <1>3

\* The counters of those who keep one are as before.
LEMMA KeptIs ==
  ASSUME Budget!Assumptions, Budget!TypeOK, NEW keep \in SUBSET Budget!Held
  PROVE  \A v \in keep : Budget!Kept(keep)[v] \in Budget!Counter /\ Budget!Kept(keep)[v].count = buckets[v].count /\ Budget!Kept(keep)[v].resetAt = buckets[v].resetAt
<1> SUFFICES ASSUME NEW v \in keep PROVE Budget!Kept(keep)[v] \in Budget!Counter /\ Budget!Kept(keep)[v].count = buckets[v].count /\ Budget!Kept(keep)[v].resetAt = buckets[v].resetAt
  OBVIOUS
<1>1. buckets[v] \in Budget!Counter
  BY BudgetSizes DEF Budget!TypeOK
<1> DEFINE n == Cardinality({w \in keep : buckets[w].place < buckets[v].place})
<1>2. n \in Nat
  BY HeldFinite
<1>3. Budget!Kept(keep)[v] = [buckets[v] EXCEPT !.place = n]
  BY BudgetSizes DEF Budget!Kept
<1> HIDE DEF n
<1> QED
  BY <1>1, <1>2, <1>3 DEF Budget!Counter

\* The counter of who asks.
LEMMA CountedIs ==
  ASSUME Budget!Assumptions, Budget!TypeOK, now \in Nat, NEW v \in Visitor, NEW keep \in SUBSET Budget!Held, Budget!Counted(v, keep).count <= Limit + 1
  PROVE  /\ Budget!Counted(v, keep) \in Budget!Counter
         /\ v \notin keep \/ Budget!Expired(buckets[v]) => Budget!Counted(v, keep).count = 1 /\ Budget!Counted(v, keep).resetAt = now + Window
         /\ v \in keep /\ ~Budget!Expired(buckets[v]) => Budget!Counted(v, keep).count = buckets[v].count + 1 /\ Budget!Counted(v, keep).resetAt = buckets[v].resetAt
<1>0. Limit \in Nat /\ Limit > 0 /\ Window \in Nat
  BY BudgetSizes DEF Budget!Assumptions
<1>1. CASE v \notin keep
  <2>1. Cardinality(keep) \in Nat
    BY HeldFinite
  <2> QED
    BY <1>0, <1>1, <2>1, BudgetSizes DEF Budget!Counted, Budget!Counter
<1>2. CASE v \in keep /\ Budget!Expired(buckets[v])
  <2>1. Budget!Kept(keep)[v] \in Budget!Counter
    BY <1>2, KeptIs
  <2>2. Budget!Counted(v, keep) = [Budget!Kept(keep)[v] EXCEPT !.count = 1, !.resetAt = now + Window]
    BY <1>2, BudgetSizes DEF Budget!Counted
  <2>3. Budget!Counted(v, keep) \in Budget!Counter
    <3>1. Budget!Kept(keep)[v].place \in Nat /\ Budget!Counted(v, keep) = [count |-> 1, resetAt |-> now + Window, place |-> Budget!Kept(keep)[v].place]
      BY <2>1, <2>2 DEF Budget!Counter
    <3> QED
      BY <1>0, <3>1 DEF Budget!Counter
  <2>4. Budget!Counted(v, keep).count = 1 /\ Budget!Counted(v, keep).resetAt = now + Window
    BY <2>1, <2>2 DEF Budget!Counter
  <2> QED
    BY <1>2, <2>3, <2>4
<1>3. CASE v \in keep /\ ~Budget!Expired(buckets[v])
  <2>1. buckets[v].count \in Nat /\ Budget!Kept(keep)[v] \in Budget!Counter /\ Budget!Kept(keep)[v].count = buckets[v].count /\ Budget!Kept(keep)[v].resetAt = buckets[v].resetAt
    BY <1>0, <1>3, KeptIs, BudgetSizes DEF Budget!TypeOK, Budget!Counter
  <2>2. Budget!Counted(v, keep) = [Budget!Kept(keep)[v] EXCEPT !.count = @ + 1]
    BY <1>3, BudgetSizes DEF Budget!Counted
  <2> QED
    BY <1>0, <1>3, <2>1, <2>2 DEF Budget!Counter
<1> QED
  BY <1>1, <1>2, <1>3

\* When a counter is over, the next may begin.
LEMMA OverIsRested ==
  ASSUME Budget!Assumptions, BudgetInv, NEW v \in Visitor \ given, v \in Budget!Held => Budget!Expired(buckets[v])
  PROVE  Rested(admitted[v])
<1>0. Limit \in Nat /\ Limit > 0 /\ Window \in Nat /\ now \in Nat /\ admitted[v] \in Seq(Nat)
  BY BudgetSizes DEF Budget!Assumptions, BudgetInv, CountersTyped
<1>1. CASE v \notin Budget!Held
  BY <1>1 DEF BudgetInv, Walks
<1>2. CASE v \in Budget!Held
  <2>1. buckets[v] \in Budget!Counter /\ buckets[v].resetAt <= now /\ Walked(buckets[v], admitted[v])
    BY <1>2, BudgetSizes DEF BudgetInv, Walks, Budget!TypeOK, Budget!Expired
  <2>2. Used(buckets[v]) \in Nat /\ Used(buckets[v]) <= Limit
    BY <1>0, <2>1 DEF Used, Budget!Counter
  <2>3. \A i \in 1..Len(admitted[v]) : admitted[v][i] \in Nat /\ (i <= Len(admitted[v]) - Used(buckets[v]) => admitted[v][i] <= buckets[v].resetAt - Window)
    BY <1>0, <2>1 DEF Walked
  <2>4. buckets[v].resetAt \in Nat /\ Len(admitted[v]) \in Nat
    BY <1>0, <2>1 DEF Budget!Counter
  <2>5. SUFFICES ASSUME NEW i \in 1..Len(admitted[v]), i <= Len(admitted[v]) - Limit PROVE admitted[v][i] + Window <= now
    BY DEF Rested
  <2>6. i <= Len(admitted[v]) - Used(buckets[v])
    BY <1>0, <2>2, <2>4, <2>5
  <2>7. admitted[v][i] \in Nat /\ admitted[v][i] <= buckets[v].resetAt - Window
    BY <2>3, <2>6
  <2>8. buckets[v].resetAt <= now
    BY <2>1
  <2> QED
    BY <1>0, <2>4, <2>7, <2>8
<1> QED
  BY <1>1, <1>2

\* What a request that is counted does.
LEMMA ConsumeKeeps ==
  ASSUME Budget!Assumptions, BudgetInv, NEW v \in Visitor, NEW keep \in SUBSET Budget!Held,
         UNCHANGED <<kind, now>>, given' = given \cup (Budget!Live \ keep), Budget!Consume(v, keep)
  PROVE  /\ CountersTyped' /\ Begun' /\ Walks' /\ Budget!TwoBudgets'
         /\ Budget!Held' = keep \cup {v} /\ buckets' \in [Budget!Held' -> Budget!Counter]
         /\ ~answer'.allowed => (v \in given' \/ Budget!UsedUp(v)') /\ now < answer'.again /\ answer'.again <= now + Window
         /\ Budget!Lost(answer'.of, buckets') \subseteq Budget!Live \ keep
<1> DEFINE b == Budget!Counted(v, keep)
<1>0. /\ Limit \in Nat /\ Limit > 0 /\ Window \in Nat /\ Window > 0 /\ now \in Nat /\ now' = now /\ Budget!TypeOK
      /\ admitted \in [Visitor -> Seq(Nat)] /\ given \subseteq Visitor /\ given' \subseteq Visitor
  BY BudgetSizes DEF Budget!Assumptions, BudgetInv, CountersTyped, Budget!TypeOK, Budget!Live
<1>1. b \in Budget!Counter /\ b.count <= Limit + 1
  BY <1>0, CountedIs DEF Budget!Consume
<1>2. Budget!Held' = keep \cup {v} /\ buckets'[v] = b /\ \A w \in keep \ {v} : buckets'[w] = Budget!Kept(keep)[w]
  BY DEF Budget!Consume, Budget!Held
<1>3. buckets' \in [Budget!Held' -> Budget!Counter]
  <2>1. \A w \in keep \cup {v} : (IF w = v THEN b ELSE Budget!Kept(keep)[w]) \in Budget!Counter
    BY <1>0, <1>1, KeptIs
  <2> HIDE DEF b
  <2> QED
    BY <1>2, <2>1 DEF Budget!Consume, b
<1>4. \A w \in keep \ {v} : buckets'[w].count = buckets[w].count /\ buckets'[w].resetAt = buckets[w].resetAt
  BY <1>0, <1>2, KeptIs
<1>5. /\ \A w \in given' : w \in Visitor => admitted'[w] = <<>>
      /\ \A w \in Visitor \ given' : w # v => admitted'[w] = admitted[w]
      /\ v \notin given' => admitted'[v] = IF b.count <= Limit THEN Append(admitted[v], now) ELSE admitted[v]
      /\ DOMAIN admitted' = Visitor /\ admitted' = [w \in Visitor |-> admitted'[w]]
  BY DEF Budget!Consume, Budget!Allowed
<1>6. \A w \in Visitor : /\ admitted[w] \in Seq(Nat) /\ (admitted'[w] = <<>> \/ admitted'[w] = admitted[w] \/ admitted'[w] = Append(admitted[w], now))
                          /\ admitted'[w] \in Seq(Nat)
  <2> SUFFICES ASSUME NEW w \in Visitor PROVE admitted[w] \in Seq(Nat) /\ (admitted'[w] = <<>> \/ admitted'[w] = admitted[w] \/ admitted'[w] = Append(admitted[w], now)) /\ admitted'[w] \in Seq(Nat)
    OBVIOUS
  <2>1. admitted'[w] = <<>> \/ admitted'[w] = admitted[w] \/ admitted'[w] = Append(admitted[w], now)
    BY <1>5
  <2>2. admitted[w] \in Seq(Nat)
    BY <1>0
  <2>3. <<>> \in Seq(Nat) /\ Append(admitted[w], now) \in Seq(Nat)
    BY <1>0, <2>2
  <2> QED
    BY <2>1, <2>2, <2>3
<1> HIDE DEF b
<1>8. CountersTyped'
  <2>1. \A w \in Visitor : \A i \in 1..Len(admitted'[w]) : admitted'[w][i] <= now
    <3> SUFFICES ASSUME NEW w \in Visitor, NEW i \in 1..Len(admitted'[w]) PROVE admitted'[w][i] <= now
      OBVIOUS
    <3>1. \A j \in 1..Len(admitted[w]) : admitted[w][j] <= now
      BY DEF BudgetInv, CountersTyped
    <3>2. CASE admitted'[w] = <<>>
      BY <3>2
    <3>3. CASE admitted'[w] = admitted[w]
      BY <3>1, <3>3
    <3>4. CASE admitted'[w] = Append(admitted[w], now)
      BY <1>0, <1>6, <3>1, <3>4
    <3> QED
      BY <1>6, <3>2, <3>3, <3>4
  <2> QED
    BY <1>0, <1>5, <1>6, <2>1 DEF CountersTyped, BudgetInv
<1>9. Begun'
  <2>1. \A w \in keep \ {v} : Window <= buckets[w].resetAt /\ buckets[w].resetAt <= now + Window
    BY DEF BudgetInv, Begun
  <2>2. Window <= b.resetAt /\ b.resetAt <= now + Window
    <3>1. CASE v \notin keep \/ Budget!Expired(buckets[v])
      BY <1>0, <1>1, <3>1, CountedIs DEF b
    <3>2. CASE v \in keep /\ ~Budget!Expired(buckets[v])
      BY <1>0, <1>1, <3>2, CountedIs DEF b, BudgetInv, Begun
    <3> QED
      BY <3>1, <3>2
  <2> QED
    BY <1>0, <1>2, <1>4, <2>1, <2>2 DEF Begun
\* What has been counted of who asks.
<1>10. ASSUME v \notin given' PROVE Walked(b, admitted'[v]) /\ v \notin given
  <2> DEFINE a == admitted[v]
             n == Len(admitted[v])
  <2>0. v \notin given /\ a \in Seq(Nat) /\ n \in Nat /\ \A i \in 1..n : a[i] \in Nat /\ a[i] <= now
    BY <1>0, <1>10 DEF BudgetInv, CountersTyped
  <2>1. b.count \in Nat /\ b.resetAt \in Nat /\ b.count >= 1
    BY <1>0, <1>1 DEF Budget!Counter
  <2>2. CASE v \notin keep \/ Budget!Expired(buckets[v])
    <3>1. b.count = 1 /\ b.resetAt = now + Window
      BY <1>0, <1>1, <2>2, CountedIs DEF b
    <3>2. v \in Budget!Held => Budget!Expired(buckets[v])
      BY <1>10, <2>2 DEF Budget!Live
    <3>3. Rested(a)
      BY <2>0, <3>2, OverIsRested
    <3>4. admitted'[v] = Append(a, now)
      BY <1>0, <1>5, <1>10, <3>1
    <3>5. Len(admitted'[v]) = n + 1 /\ admitted'[v][n + 1] = now /\ \A i \in 1..n : admitted'[v][i] = a[i]
      BY <1>0, <2>0, <3>4
    <3>6. Used(b) = 1
      BY <1>0, <3>1 DEF Used
    <3>7. \A i \in 1..n : i <= n - Limit => a[i] + Window <= now
      BY <3>3 DEF Rested
    <3> HIDE DEF a, n
    <3> SUFFICES ASSUME NEW i \in 1..(n + 1)
                 PROVE  /\ i > n + 1 - 1 => admitted'[v][i] >= now
                        /\ i <= n + 1 - 1 => admitted'[v][i] <= now
                        /\ i <= n + 1 - 1 - Limit => admitted'[v][i] + Window <= now
      BY <1>0, <2>0, <3>1, <3>5, <3>6 DEF Walked
    <3>8. CASE i = n + 1
      BY <1>0, <2>0, <3>5, <3>8
    <3>9. CASE i \in 1..n
      <4>1. admitted'[v][i] = a[i] /\ a[i] \in Nat /\ a[i] <= now /\ (i <= n - Limit => a[i] + Window <= now)
        BY <2>0, <3>5, <3>7, <3>9
      <4>2. i <= n /\ n + 1 - 1 = n /\ n + 1 - 1 - Limit = n - Limit
        BY <1>0, <2>0, <3>9
      <4> QED
        BY <1>0, <2>0, <4>1, <4>2
    <3> QED
      BY <2>0, <3>8, <3>9
  <2>3. CASE v \in keep /\ ~Budget!Expired(buckets[v])
    <3>1. b.count = buckets[v].count + 1 /\ b.resetAt = buckets[v].resetAt /\ buckets[v] \in Budget!Counter
      BY <1>0, <1>1, <2>3, CountedIs, BudgetSizes DEF b, Budget!TypeOK
    <3>2. Walked(buckets[v], a)
      BY <2>0, <2>3 DEF BudgetInv, Walks
    <3>3. buckets[v].count \in Nat /\ buckets[v].resetAt - Window <= now /\ buckets[v].resetAt \in Nat
      BY <1>0, <2>3, <3>1 DEF Budget!Counter, BudgetInv, Begun
    <3>4. CASE b.count <= Limit
      <4>1. admitted'[v] = Append(a, now)
        BY <1>5, <1>10, <3>4
      <4>2. Len(admitted'[v]) = n + 1 /\ admitted'[v][n + 1] = now /\ \A i \in 1..n : admitted'[v][i] = a[i]
        BY <1>0, <2>0, <4>1
      <4>3. Used(b) = Used(buckets[v]) + 1 /\ Used(buckets[v]) \in Nat
        BY <1>0, <3>1, <3>3, <3>4 DEF Used
      <4> DEFINE u == Used(buckets[v])
                 s == buckets[v].resetAt - Window
      <4>4. u <= n /\ \A i \in 1..n : (i > n - u => a[i] >= s) /\ (i <= n - u => a[i] <= s) /\ (i <= n - u - Limit => a[i] + Window <= s)
        BY <3>2 DEF Walked
      <4>5. s \in Int /\ u \in Nat /\ s <= now /\ b.resetAt - Window = s /\ Used(b) = u + 1
        BY <1>0, <3>1, <3>3, <4>3
      <4> HIDE DEF a, n, u, s
      <4> SUFFICES ASSUME NEW i \in 1..(n + 1)
                   PROVE  /\ i > n + 1 - (u + 1) => admitted'[v][i] >= s
                          /\ i <= n + 1 - (u + 1) => admitted'[v][i] <= s
                          /\ i <= n + 1 - (u + 1) - Limit => admitted'[v][i] + Window <= s
        BY <1>0, <2>0, <4>2, <4>4, <4>5 DEF Walked
      <4>6. CASE i = n + 1
        BY <1>0, <2>0, <4>2, <4>4, <4>5, <4>6
      <4>7. CASE i \in 1..n
        <5>1. admitted'[v][i] = a[i] /\ (i > n - u => a[i] >= s) /\ (i <= n - u => a[i] <= s) /\ (i <= n - u - Limit => a[i] + Window <= s)
          BY <4>2, <4>4, <4>7
        <5>2. n + 1 - (u + 1) = n - u /\ n + 1 - (u + 1) - Limit = n - u - Limit
          BY <1>0, <2>0, <4>5
        <5> QED
          BY <5>1, <5>2
      <4> QED
        BY <2>0, <4>6, <4>7
    <3>5. CASE b.count > Limit
      <4>1. admitted'[v] = a /\ Used(b) = Limit /\ Used(buckets[v]) = Limit
        BY <1>0, <1>1, <1>5, <1>10, <2>1, <3>1, <3>3, <3>5 DEF Used
      <4> HIDE DEF a
      <4>2. /\ Limit <= Len(a)
            /\ \A i \in 1..Len(a) :
                 /\ i > Len(a) - Limit => a[i] >= b.resetAt - Window
                 /\ i <= Len(a) - Limit => a[i] <= b.resetAt - Window
                 /\ i <= Len(a) - Limit - Limit => a[i] + Window <= b.resetAt - Window
        BY <3>1, <3>2, <4>1 DEF Walked
      <4>3. Used(b) = Limit
        BY <4>1
      <4>4. Walked(b, a)
        BY <4>2, <4>3 DEF Walked
      <4> QED
        BY <2>0, <4>1, <4>4
    <3> QED
      BY <1>0, <2>1, <3>4, <3>5
  <2> QED
    BY <2>0, <2>2, <2>3
<1>11. Walks'
  <2>1. Visitor' = Visitor
    OBVIOUS
  <2> SUFFICES ASSUME NEW w \in Visitor \ given' PROVE IF w \in Budget!Held' THEN Walked(buckets'[w], admitted'[w]) ELSE Rested(admitted'[w])
    BY <1>0 DEF Walks, Walked, Used, Rested
  <2>2. CASE w = v
    BY <1>2, <1>10, <2>2
  <2>3. CASE w # v
    <3>1. w \notin given /\ admitted'[w] = admitted[w]
      BY <1>5, <2>3
    <3>2. CASE w \in keep
      <4>1. Walked(buckets[w], admitted[w])
        BY <3>1, <3>2 DEF BudgetInv, Walks
      <4>2. buckets'[w].count = buckets[w].count /\ buckets'[w].resetAt = buckets[w].resetAt
        BY <1>4, <2>3, <3>2
      <4> QED
        BY <1>2, <3>1, <3>2, <4>1, <4>2 DEF Walked, Used
    <3>3. CASE w \notin keep
      <4>1. w \in Budget!Held => Budget!Expired(buckets[w])
        BY <3>3 DEF Budget!Live
      <4> QED
        BY <1>2, <2>3, <3>1, <3>3, <4>1, OverIsRested
    <3> QED
      BY <3>2, <3>3
  <2> QED
    BY <2>2, <2>3
<1>12. Budget!TwoBudgets'
  <2> SUFFICES ASSUME NEW w \in Visitor, NEW i \in DOMAIN admitted'[w], NEW j \in DOMAIN admitted'[w], j - i >= 2 * Limit
               PROVE  admitted'[w][j] - admitted'[w][i] >= Window
    BY DEF Budget!TwoBudgets
  <2>1. DOMAIN admitted'[w] = 1..Len(admitted'[w]) /\ DOMAIN admitted[w] = 1..Len(admitted[w]) /\ Len(admitted[w]) \in Nat
    BY <1>6
  <2>2. \A k, l \in 1..Len(admitted[w]) : l - k >= 2 * Limit => admitted[w][l] - admitted[w][k] >= Window
    BY <2>1 DEF BudgetInv, Budget!TwoBudgets
  <2>3. CASE admitted'[w] = <<>> \/ admitted'[w] = admitted[w]
    BY <2>1, <2>2, <2>3
  <2>4. CASE admitted'[w] = Append(admitted[w], now) /\ admitted'[w] # <<>> /\ admitted'[w] # admitted[w]
    <3> DEFINE n == Len(admitted[w])
    <3>1. w = v /\ v \notin given'
      BY <1>5, <2>4
    <3>2. Len(admitted'[w]) = n + 1 /\ admitted'[w][n + 1] = now /\ \A k \in 1..n : admitted'[w][k] = admitted[w][k]
      BY <1>0, <1>6, <2>4
    <3>3. CASE j \in 1..n
      <4>1. i \in 1..n
        BY <1>0, <2>1, <3>2, <3>3
      <4> QED
        BY <2>2, <3>2, <3>3, <4>1
    <3>4. CASE j = n + 1
      <4>1. Walked(b, admitted'[w])
        BY <1>10, <3>1
      <4>2. Used(b) \in Nat /\ Used(b) <= Limit /\ b.resetAt \in Nat /\ b.resetAt <= now + Window
        BY <1>0, <1>1, <1>2, <1>9 DEF Used, Budget!Counter, Begun
      <4>3. i \in 1..(n + 1) /\ i <= n + 1 - 2 * Limit
        BY <1>0, <2>1, <3>2, <3>4
      <4>4. i <= n + 1 - Used(b) - Limit
        BY <1>0, <2>1, <4>2, <4>3
      <4>5. admitted'[w][i] + Window <= b.resetAt - Window /\ admitted'[w][i] \in Nat
        <5>1. \A k \in 1..(n + 1) : k <= n + 1 - Used(b) - Limit => admitted'[w][k] + Window <= b.resetAt - Window
          <6>1. \A k \in 1..Len(admitted'[w]) : k <= Len(admitted'[w]) - Used(b) - Limit => admitted'[w][k] + Window <= b.resetAt - Window
            BY <4>1 DEF Walked
          <6>2. n \in Nat /\ Used(b) \in Nat /\ Limit \in Nat /\ Len(admitted'[w]) = n + 1
            BY <1>0, <2>1, <3>2, <4>2
          <6> HIDE DEF n
          <6>3. SUFFICES ASSUME NEW k \in 1..(n + 1), k <= n + 1 - Used(b) - Limit PROVE admitted'[w][k] + Window <= b.resetAt - Window
            OBVIOUS
          <6>4. k \in 1..Len(admitted'[w]) /\ k <= Len(admitted'[w]) - Used(b) - Limit
            BY <6>2, <6>3
          <6> QED
            BY <6>1, <6>4
        <5>2. admitted'[w] \in Seq(Nat) /\ i \in 1..Len(admitted'[w])
          BY <1>6, <2>1
        <5> QED
          BY <4>3, <4>4, <5>1, <5>2
      <4>6. admitted'[w][j] = now
        BY <3>2, <3>4
      <4> QED
        BY <1>0, <4>2, <4>5, <4>6
    <3> QED
      BY <2>1, <3>2, <3>3, <3>4
  <2> QED
    BY <1>6, <2>3, <2>4
<1>13. ASSUME ~answer'.allowed PROVE (v \in given' \/ Budget!UsedUp(v)') /\ now < answer'.again /\ answer'.again <= now + Window
  <2>1. b.count > Limit /\ answer'.again = b.resetAt /\ b.count \in Nat /\ b.resetAt \in Nat
    <3>1. answer' = [of |-> {v}, allowed |-> Budget!Allowed(b), again |-> b.resetAt]
      BY DEF Budget!Consume, b
    <3>2. ~Budget!Allowed(b)
      BY <1>13, <3>1, Zenon
    <3>3. answer'.again = b.resetAt
      BY <3>1
    <3> QED
      BY <1>0, <1>1, <3>2, <3>3 DEF Budget!Allowed, Budget!Counter
  <2>2. v \in keep /\ ~Budget!Expired(buckets[v]) /\ b.resetAt = buckets[v].resetAt
    BY <1>0, <1>1, <2>1, CountedIs DEF b
  <2>3. now < b.resetAt /\ b.resetAt <= now + Window
    BY <1>0, <1>2, <1>9, <2>1, <2>2 DEF Budget!Expired, Begun
  <2>4. ASSUME v \notin given' PROVE Budget!UsedUp(v)'
    <3> DEFINE m == Len(admitted'[v]) - Limit + 1
    <3>1. Walked(b, admitted'[v]) /\ Used(b) = Limit
      BY <1>0, <1>10, <2>1, <2>4 DEF Used
    <3>2. Len(admitted'[v]) \in Nat /\ Limit <= Len(admitted'[v])
      BY <1>6, <3>1 DEF Walked
    <3>3. m \in 1..Len(admitted'[v]) /\ m > Len(admitted'[v]) - Limit
      BY <1>0, <3>2
    <3>4. admitted'[v][m] >= b.resetAt - Window /\ admitted'[v][m] \in Nat
      BY <1>6, <3>1, <3>3 DEF Walked
    <3>5. admitted'[v][m] > now - Window
      BY <1>0, <2>1, <2>3, <3>4
    <3> QED
      BY <1>0, <3>2, <3>5 DEF Budget!UsedUp
  <2> QED
    BY <2>1, <2>3, <2>4
<1>14. Budget!Lost(answer'.of, buckets') \subseteq Budget!Live \ keep
  <2>1. answer'.of = {v}
    BY DEF Budget!Consume
  <2> QED
    BY <1>2, <1>4, <2>1 DEF Budget!Lost, Budget!Held
<1> QED
  BY <1>2, <1>3, <1>8, <1>9, <1>11, <1>12, <1>13, <1>14

LEMMA PriceKeeps ==
  ASSUME Budget!Assumptions, BudgetInv, NEW v \in Visitor, Budget!Price(v)
  PROVE  BudgetInv' /\ (Budget!Lost(answer'.of, buckets') = {} \/ (kind = "price" /\ Cardinality(Budget!Live) > Capacity /\ \E w \in Budget!Live : Budget!Lost(answer'.of, buckets') = {w}))
<1>0. Capacity \in Nat /\ Budget!TypeOK /\ kind = "price" /\ kind' = kind
  BY BudgetSizes DEF Budget!Assumptions, BudgetInv, Budget!Price
<1>1. Budget!Roomy \in SUBSET Budget!Held /\ Cardinality(Budget!Roomy) <= Capacity /\ (Budget!Live \subseteq Budget!Roomy \/ (Cardinality(Budget!Live) > Capacity /\ \E w \in Budget!Live : Budget!Live \ Budget!Roomy = {w}))
  BY <1>0, RoomyIs
<1>2. /\ CountersTyped' /\ Begun' /\ Walks' /\ Budget!TwoBudgets'
      /\ Budget!Held' = Budget!Roomy \cup {v} /\ buckets' \in [Budget!Held' -> Budget!Counter]
      /\ ~answer'.allowed => (v \in given' \/ Budget!UsedUp(v)') /\ now < answer'.again /\ answer'.again <= now + Window
      /\ Budget!Lost(answer'.of, buckets') \subseteq Budget!Live \ Budget!Roomy
  BY <1>1, ConsumeKeeps DEF Budget!Price
<1>3. Budget!TypeOK'
  <2>1. IsFiniteSet(Budget!Roomy) /\ Cardinality(Budget!Roomy) \in Nat
    BY <1>0, <1>1, HeldFinite
  <2>2. Cardinality(Budget!Held') <= Capacity + 1
    <3>1. Cardinality(Budget!Roomy \cup {v}) = IF v \in Budget!Roomy THEN Cardinality(Budget!Roomy) ELSE Cardinality(Budget!Roomy) + 1
      BY <2>1, FS_AddElement
    <3> QED
      BY <1>0, <1>1, <1>2, <2>1, <3>1
  <2>3. Budget!Held' \subseteq Visitor
    BY <1>0, <1>1, <1>2, BudgetSizes DEF Budget!TypeOK
  <2> QED
    BY <1>0, <1>2, <2>2, <2>3, BudgetSizes DEF Budget!TypeOK
<1>4. Budget!TurnedAwayForCause'
  <2>1. answer'.of = {v} /\ now' = now
    BY DEF Budget!Price, Budget!Consume
  <2> QED
    BY <1>2, <2>1, BudgetSizes DEF Budget!TurnedAwayForCause
<1>5. Budget!Live \subseteq Budget!Roomy => Budget!Lost(answer'.of, buckets') = {}
  BY <1>2
<1> QED
  BY <1>0, <1>1, <1>2, <1>3, <1>4, <1>5 DEF BudgetInv

LEMMA AuthKeeps ==
  ASSUME Budget!Assumptions, BudgetInv, NEW v \in Visitor, Budget!Auth(v)
  PROVE  BudgetInv' /\ Budget!Lost(answer'.of, buckets') = {}
<1>0. Capacity \in Nat /\ Budget!TypeOK /\ kind = "auth" /\ kind' = kind /\ now' = now /\ given' = given
  BY BudgetSizes DEF Budget!Assumptions, BudgetInv, Budget!Auth
<1>1. Budget!Swept \in SUBSET Budget!Held /\ Budget!Live \subseteq Budget!Swept /\ IsFiniteSet(Budget!Swept) /\ Cardinality(Budget!Swept) \in Nat
      /\ Cardinality(Budget!Swept) <= Cardinality(Budget!Held) /\ Cardinality(Budget!Held) <= Capacity /\ Cardinality(Budget!Held) \in Nat
  BY <1>0, SweptIs, HeldFinite, BudgetSizes DEF Budget!TypeOK
<1>2. CASE ~Budget!Full(v) /\ Budget!Consume(v, Budget!Swept)
  <2>1. given' = given \cup (Budget!Live \ Budget!Swept)
    BY <1>0, <1>1
  <2>2. /\ CountersTyped' /\ Begun' /\ Walks' /\ Budget!TwoBudgets'
        /\ Budget!Held' = Budget!Swept \cup {v} /\ buckets' \in [Budget!Held' -> Budget!Counter]
        /\ ~answer'.allowed => (v \in given' \/ Budget!UsedUp(v)') /\ now < answer'.again /\ answer'.again <= now + Window
        /\ Budget!Lost(answer'.of, buckets') \subseteq Budget!Live \ Budget!Swept
    BY <1>0, <1>1, <1>2, <2>1, ConsumeKeeps
  <2>3. Cardinality(Budget!Held') <= Capacity
    <3>1. Cardinality(Budget!Swept \cup {v}) = IF v \in Budget!Swept THEN Cardinality(Budget!Swept) ELSE Cardinality(Budget!Swept) + 1
      BY <1>1, FS_AddElement
    <3>2. v \in Budget!Swept \/ Cardinality(Budget!Swept) < Capacity
      BY <1>0, <1>1, <1>2, BudgetSizes DEF Budget!Full
    <3> QED
      BY <1>0, <1>1, <2>2, <3>1, <3>2
  <2>4. Budget!TypeOK'
    <3>1. Budget!Held' \subseteq Visitor
      BY <1>0, <1>1, <2>2, BudgetSizes DEF Budget!TypeOK
    <3> QED
      BY <1>0, <2>2, <2>3, <3>1, BudgetSizes DEF Budget!TypeOK
  <2>5. Budget!TurnedAwayForCause'
    <3>1. answer'.of = {v}
      BY <1>2 DEF Budget!Consume
    <3> QED
      BY <1>0, <2>2, <3>1, BudgetSizes DEF Budget!TurnedAwayForCause
  <2> QED
    BY <1>1, <2>2, <2>4, <2>5 DEF BudgetInv
<1>3. CASE Budget!Full(v) /\ buckets' = Budget!Kept(Budget!Swept) /\ answer' = [of |-> {v}, allowed |-> FALSE, again |-> 0] /\ UNCHANGED admitted
  <2>1. Budget!Held' = Budget!Swept /\ Budget!Swept = Budget!Live /\ Cardinality(Budget!Swept) = Capacity /\ v \notin Budget!Swept
    <3>1. Cardinality(Budget!Swept) >= Capacity /\ v \notin Budget!Swept
      BY <1>3, BudgetSizes DEF Budget!Full
    <3>2. Cardinality(Budget!Held) > Capacity - 1
      BY <1>0, <1>1, <3>1
    <3>3. Budget!Swept = Budget!Live
      BY <1>0, <3>2, BudgetSizes DEF Budget!Swept
    <3>4. Budget!Held' = Budget!Swept
      BY <1>3, BudgetSizes DEF Budget!Held, Budget!Kept
    <3> QED
      BY <1>0, <1>1, <3>1, <3>3, <3>4
  <2>2. \A w \in Budget!Swept : buckets'[w] \in Budget!Counter /\ buckets'[w].count = buckets[w].count /\ buckets'[w].resetAt = buckets[w].resetAt
    BY <1>0, <1>1, <1>3, KeptIs
  <2>3. Budget!TypeOK'
    <3>1. buckets' \in [Budget!Held' -> Budget!Counter]
      BY <1>3, <2>1, <2>2, BudgetSizes DEF Budget!Kept
    <3>2. Budget!Held' \subseteq Visitor
      BY <1>0, <1>1, <2>1, BudgetSizes DEF Budget!TypeOK
    <3> QED
      BY <1>0, <2>1, <3>1, <3>2, BudgetSizes DEF Budget!TypeOK
  <2>4. CountersTyped'
    BY <1>0, <1>3 DEF BudgetInv, CountersTyped
  <2>5. Begun'
    BY <1>0, <1>1, <2>1, <2>2 DEF BudgetInv, Begun
  <2>6. Walks'
    <3> SUFFICES ASSUME NEW w \in Visitor \ given PROVE IF w \in Budget!Held' THEN Walked(buckets'[w], admitted[w]) ELSE Rested(admitted[w])
      BY <1>0, <1>3 DEF Walks, Walked, Used, Rested
    <3>1. CASE w \in Budget!Swept
      <4>1. Walked(buckets[w], admitted[w])
        BY <1>1, <3>1 DEF BudgetInv, Walks
      <4> QED
        BY <2>1, <2>2, <3>1, <4>1 DEF Walked, Used
    <3>2. CASE w \notin Budget!Swept
      <4>1. w \in Budget!Held => Budget!Expired(buckets[w])
        BY <2>1, <3>2 DEF Budget!Live
      <4> QED
        BY <2>1, <3>2, <4>1, OverIsRested
    <3> QED
      BY <3>1, <3>2
  <2>7. Budget!TwoBudgets'
    BY <1>3 DEF BudgetInv, Budget!TwoBudgets
  <2>8. Budget!TurnedAwayForCause'
    <3>1. Budget!Live' = Budget!Held'
      BY <1>0, <2>1, <2>2 DEF Budget!Live, Budget!Expired
    <3> QED
      BY <1>0, <1>3, <2>1, <3>1, BudgetSizes DEF Budget!TurnedAwayForCause
  <2>9. Budget!Lost(answer'.of, buckets') = {}
    BY <2>1, <2>2 DEF Budget!Lost, Budget!Held
  <2> QED
    BY <2>3, <2>4, <2>5, <2>6, <2>7, <2>8, <2>9 DEF BudgetInv
<1> QED
  BY <1>2, <1>3 DEF Budget!Auth

LEMMA BudgetNext ==
  ASSUME Budget!Assumptions, BudgetInv, [Budget!Next]_(Budget!vars)
  PROVE  /\ BudgetInv'
         /\ now' = now /\ Budget!vars' # Budget!vars =>
              \/ Budget!Lost(answer'.of, buckets') = {}
              \/ kind = "price" /\ Cardinality(Budget!Live) > Capacity /\ \E w \in Budget!Live : Budget!Lost(answer'.of, buckets') = {w}
<1>1. CASE Budget!Tick
  <2>1. now' # now
    BY <1>1 DEF Budget!Tick, BudgetInv, CountersTyped
  <2> QED
    BY <1>1, <2>1, BudgetTickKeeps
<1>2. CASE \E v \in Visitor : Budget!Price(v)
  BY <1>2, PriceKeeps
<1>3. CASE \E v \in Visitor : Budget!Auth(v)
  BY <1>3, AuthKeeps
<1>4. CASE UNCHANGED Budget!vars
  <2>1. UNCHANGED <<kind, now, buckets, admitted, given, answer>>
    BY <1>4 DEF Budget!vars
  <2>2. CountersTyped' /\ Budget!TypeOK' /\ Begun' /\ Budget!TwoBudgets' /\ Budget!TurnedAwayForCause'
    BY <2>1, BudgetSizes DEF BudgetInv, CountersTyped, Budget!TypeOK, Budget!Held, Begun, Budget!TwoBudgets, Budget!TurnedAwayForCause, Budget!UsedUp, Budget!Live, Budget!Expired
  <2>3. Walks'
    BY <2>1 DEF BudgetInv, Walks, Walked, Rested, Used, Budget!Held
  <2> QED
    BY <1>4, <2>2, <2>3 DEF BudgetInv
<1> QED
  BY <1>1, <1>2, <1>3, <1>4 DEF Budget!Next

--------------------------------------------------------------------------------
(* Together. *)

Recorded == record \in Score!Record

LEMMA PartsStep ==
  ASSUME [NextParts]_everything
  PROVE  [Next]_vars /\ [Score!Next]_record /\ [Budget!Next]_(Budget!vars)
<1>1. [Next]_vars
  BY DEF NextParts, everything
<1>2. [Score!Next]_record
  BY DEF NextParts, everything
<1>3. [Budget!Next]_(Budget!vars)
  BY DEF NextParts, everything, budgetVars, Budget!vars
<1> QED
  BY <1>1, <1>2, <1>3

\* The score takes no missing amount for another, is between 1 and 10, and gets no better when
\* the record gets no better (scoreProductHealth of src/productHealth.js): for any texts,
\* colours, preservatives and amounts.
THEOREM ScoreStaysHonest == SpecParts => ScoreIsHonest
<1>1. Score!Assumptions
  BY PartsAssumption
<1>2. InitParts => Recorded
  BY ScoreInitHolds DEF InitParts, Recorded
<1>3. Recorded /\ [NextParts]_everything => Recorded'
  BY EditIs, PartsStep DEF Recorded
<1>4. Recorded => (part = "score" => Score!TypeOK /\ Score!NothingInvented)
  BY <1>1, ScoreImplied DEF Recorded
<1>5. Recorded /\ [NextParts]_everything =>
        [Score!Scored(record) /\ Score!Scored(record') /\ Score!NoBetter(record', record)
           => Score!Score(record') <= Score!Score(record)
              /\ Score!Band(Score!Score(record')) <= Score!Band(Score!Score(record))]_record
  BY <1>1, <1>3, ScoreFollows DEF Recorded
<1> QED
  BY <1>2, <1>3, <1>4, <1>5, PTL DEF SpecParts, ScoreIsHonest, Score!WorseScoresNoBetter

\* No window admits more than two budgets of a visitor; who is turned away has used up a
\* budget or finds the table full of others; a request of another leaves a live counter
\* alone, but for one of a full table (consumePriceBudget, consumeAuthBudget): for any
\* visitors, limit, window and size of the table.
THEOREM BudgetsStayHeld == SpecParts => BudgetsHold
<1>1. Budget!Assumptions
  BY PartsAssumption
<1>2. InitParts => BudgetInv
  BY <1>1, BudgetInit DEF InitParts
<1>3. BudgetInv /\ [NextParts]_everything => BudgetInv'
  BY <1>1, BudgetNext, PartsStep
<1>4. BudgetInv => (part = "budgets" => Budget!TypeOK /\ Budget!TwoBudgets /\ Budget!TurnedAwayForCause)
  BY DEF BudgetInv
<1>5. BudgetInv /\ [NextParts]_everything =>
        [now' = now => LET lost == Budget!Lost(answer'.of, buckets') IN
           lost = {} \/ (kind = "price" /\ Budget!Cardinality(Budget!Live) > Capacity /\ \E w \in Budget!Live : lost = {w})]_(Budget!vars)
  BY <1>1, BudgetNext, BudgetSizes, PartsStep
<1> QED
  BY <1>2, <1>3, <1>4, <1>5, PTL DEF SpecParts, BudgetsHold, Budget!OthersDoNotCount

\* Whichever part is at work, what is proved of the rows of price_alerts by themselves holds.
THEOREM PartsAreSpec == SpecParts => Spec
<1>1. InitParts => Init
  BY DEF InitParts
<1>2. [NextParts]_everything => [Next]_vars
  BY PartsStep
<1> QED
  BY <1>1, <1>2, PTL DEF SpecParts, Spec
================================================================================
