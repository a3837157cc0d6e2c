------------------------------- MODULE CleanScore -------------------------------
(***************************************************************************)
(* The facts that scoreProductHealth of src/productHealth.js takes from a  *)
(* record of Open Food Facts, and the Clean Score it makes of them.        *)
(*                                                                         *)
(* A text is the set of the E-numbers in it.  The record is edited by      *)
(* others, one field at a time: every record is a state, and every edit a  *)
(* step.                                                                   *)
(***************************************************************************)
EXTENDS Integers, FiniteSets

CONSTANTS
  Text,          \* ingredient texts, each the set of its E-numbers
  Color,         \* ARTIFICIAL_COLORS
  Preservative,  \* ARTIFICIAL_PRESERVATIVES
  Sugar, Mineral,  \* amounts of sugar, and of sodium and salt, in g per 100 g
  None

\* What is assumed of the constants, wherever this module is instantiated.
Assumptions ==
  /\ (\A t \in Text : IsFiniteSet(t)) /\ Text # {}
  /\ Sugar \cup Mineral \subseteq Nat /\ None \notin Sugar \cup Mineral

Grade == {"A", "B", "C", "D", "E"}
Record == [own : Text \cup {None}, en : Text \cup {None}, local : Text \cup {None}, tags : Text,
           sugar : Sugar \cup {None}, sodium : Mineral \cup {None}, salt : Mineral \cup {None},
           nutri : Grade \cup {None}]

VARIABLE record

Init == record \in {[own |-> None, en |-> None, local |-> None, tags |-> t, sugar |-> None, sodium |-> None, salt |-> None, nutri |-> None] : t \in Text}

Edit(field, value) == record' = [record EXCEPT ![field] = value]

Next ==
  \/ \E field \in {"own", "en", "local"}, value \in Text \cup {None} : Edit(field, value)
  \/ \E value \in Text : Edit("tags", value)
  \/ \E value \in Sugar \cup {None} : Edit("sugar", value)
  \/ \E field \in {"sodium", "salt"}, value \in Mineral \cup {None} : Edit(field, value)
  \/ \E value \in Grade \cup {None} : Edit("nutri", value)

Spec == Init /\ [][Next]_record

--------------------------------------------------------------------------------

Given(text) == IF text = None THEN {} ELSE text

\* ingredientSelection: the one text that is shown.
Selected(p) == IF p.own # None THEN p.own ELSE IF p.en # None THEN p.en ELSE p.local

\* extractENumbers
Additives(p) == Given(Selected(p)) \cup Given(p.own) \cup Given(p.en) \cup p.tags

\* nutritionPer100g: salt may be calculated, what is scored never is.
Sodium(p) == p.sodium
Salt(p) == IF p.salt = None /\ p.sodium # None
           THEN [grams |-> (p.sodium * 5) \div 2, calculated |-> TRUE]
           ELSE [grams |-> p.salt, calculated |-> FALSE]

Missing(p) ==
  {f \in {"ingredients", "sugar", "sodium", "nutri"} :
     \/ f = "ingredients" /\ Selected(p) = None
     \/ f = "sugar" /\ p.sugar = None
     \/ f = "sodium" /\ Sodium(p) = None
     \/ f = "nutri" /\ p.nutri = None}

Scored(p) == Missing(p) = {}

Point(condition) == IF condition THEN 1 ELSE 0
Capped(n) == IF n < 4 THEN n ELSE 4

\* Mutant: a worse grade is deducted once only, for D.
DeductionsOfD(p) ==
  Capped(Cardinality(Additives(p)))
    + Point(Additives(p) \cap Color # {}) + Point(Additives(p) \cap Preservative # {})
    + Point(p.sugar > 20) + Point(Sodium(p) > 1) + Point(p.nutri = "D")

Deductions(p) ==
  Capped(Cardinality(Additives(p)))
    + Point(Additives(p) \cap Color # {}) + Point(Additives(p) \cap Preservative # {})
    + Point(p.sugar > 20) + Point(Sodium(p) > 1) + Point(p.nutri \in {"D", "E"})

Score(p) == IF 10 - Deductions(p) > 1 THEN 10 - Deductions(p) ELSE 1

\* gradeForScore
Band(score) == IF score >= 8 THEN 3 ELSE IF score >= 5 THEN 2 ELSE 1

--------------------------------------------------------------------------------
(* Properties. *)

TypeOK ==
  /\ record \in Record
  /\ Scored(record) => Score(record) \in 1..10

Rank == [A |-> 1, B |-> 2, C |-> 3, D |-> 4, E |-> 5]

\* Whatever p tells, q tells, and nothing better.
NoBetter(q, p) ==
  /\ Given(p.own) \subseteq Given(q.own) /\ Given(p.en) \subseteq Given(q.en)
  /\ Given(p.local) \subseteq Given(q.local) /\ p.tags \subseteq q.tags
  /\ p.own = None <=> q.own = None
  /\ p.en = None <=> q.en = None
  /\ p.local = None <=> q.local = None
  /\ p.sugar <= q.sugar /\ p.sodium <= q.sodium /\ Rank[p.nutri] <= Rank[q.nutri]

\* A product whose record gets no better by an edit gets no better score and no
\* better band, whichever deductions apply and whichever cap is reached.
WorseScoresNoBetter ==
  [][Scored(record) /\ Scored(record') /\ NoBetter(record', record)
       => Score(record') <= Score(record) /\ Band(Score(record')) <= Band(Score(record))]_record

\* A field that is missing is never taken for an amount of another ("Do not
\* reverse-convert salt to sodium for the original scoring rule").
NothingInvented ==
  /\ Scored(record) => None \notin {record.sugar, record.sodium, record.nutri} /\ Selected(record) # None
  /\ Salt(record).calculated => record.salt = None /\ record.sodium # None
================================================================================
