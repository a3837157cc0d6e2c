------------------------------- MODULE LabelNotes -------------------------------
(***************************************************************************)
(* LabelDataInput of pwa/src/components/label-data-input.tsx: the notes a  *)
(* user copies from a label, confirms, and keeps on the device.            *)
(*                                                                         *)
(* A field is left blank, holds what is no amount, or an amount.  Storage  *)
(* may refuse to be written or cleared, and the page may be closed and     *)
(* opened again at any moment.                                             *)
(***************************************************************************)
EXTENDS FiniteSets

CONSTANTS
  Field,   \* the amounts and the ingredients
  Value,   \* what a field may hold, besides the next two
  Blank,
  NoAmount

\* What is assumed of the constants, wherever this module is instantiated.
Assumptions == Blank \notin Value /\ NoAmount \notin Value \cup {Blank}

Entries == [Field -> Value \cup {Blank, NoAmount}]
Notes   == [Field -> Value \cup {Blank}]
Empty   == [f \in Field |-> Blank]

VARIABLES
  open,       \* the page is open
  fields,     \* what the form holds
  confirmed,  \* the box is ticked
  saved,      \* the notes the page shows, or Empty
  stored,     \* the notes in localStorage, or Empty
  promised,   \* history: what the last message said of the device: "kept", "gone", or "nothing"
  watched,    \* history: some entries, and ...
  checked     \* history: ... whether the user ever ticked the box for them

vars == <<open, fields, confirmed, saved, stored, promised, watched, checked>>

Init ==
  /\ open = FALSE /\ fields = Empty /\ confirmed = FALSE /\ saved = Empty
  /\ stored = Empty /\ promised = "nothing"
  /\ watched \in Entries \ {Empty} /\ checked = FALSE

\* The notes of the device are read back; storage that cannot be read gives none.
Open ==
  /\ ~open /\ open' = TRUE
  /\ \/ saved' = stored /\ fields' = stored
     \/ saved' = Empty /\ fields' = Empty
  /\ confirmed' = FALSE
  /\ UNCHANGED <<stored, promised, watched, checked>>

Close ==
  /\ open /\ open' = FALSE
  /\ fields' = Empty /\ saved' = Empty /\ confirmed' = FALSE
  /\ UNCHANGED <<stored, promised, watched, checked>>

\* Mutant: an edit leaves the box ticked.
EditConfirmed(f, value) ==
  /\ open
  /\ fields' = [fields EXCEPT ![f] = value]
  /\ UNCHANGED <<open, confirmed, saved, stored, promised, watched, checked>>

\* Any edit takes the confirmation back.
Edit(f, value) ==
  /\ open
  /\ fields' = [fields EXCEPT ![f] = value] /\ confirmed' = FALSE
  /\ UNCHANGED <<open, saved, stored, promised, watched, checked>>

Confirm ==
  /\ open
  /\ confirmed' = ~confirmed
  /\ checked' = (checked \/ (~confirmed /\ fields = watched))
  /\ UNCHANGED <<open, fields, saved, stored, promised, watched>>

Valid == fields \in Notes /\ fields # Empty

\* The notes are shown, and stored unless storage refuses.
Save ==
  /\ open /\ confirmed /\ Valid
  /\ saved' = fields
  /\ \/ stored' = fields /\ promised' = "kept"
     \/ stored' = stored /\ promised' = "nothing"
  /\ UNCHANGED <<open, fields, confirmed, watched, checked>>

\* Storage is cleared first; when it refuses nothing is.
Clear ==
  /\ open /\ saved # Empty
  /\ stored' = Empty /\ promised' = "gone"
  /\ saved' = Empty /\ fields' = Empty /\ confirmed' = FALSE
  /\ UNCHANGED <<open, watched, checked>>

Next ==
  \/ Open \/ Close \/ Confirm \/ Save \/ Clear
  \/ \E f \in Field, value \in Value \cup {Blank, NoAmount} : Edit(f, value)

Spec == Init /\ [][Next]_vars

--------------------------------------------------------------------------------
(* Properties. *)

\* Storage and page hold notes, and nothing else, of the product.
TypeOK ==
  /\ open \in BOOLEAN /\ confirmed \in BOOLEAN
  /\ fields \in Entries /\ saved \in Notes /\ stored \in Notes
  /\ promised \in {"kept", "gone", "nothing"} /\ checked \in BOOLEAN

\* Notes that are shown or stored are, as a whole, entries the user has ticked the
\* box for ("Confirm that you checked these entries against the physical label").
NotesWereChecked == watched \in {saved, stored} => checked

\* Notes that were said to be kept are there after the page is opened again, and
\* those that were said to be deleted are not ("cleared from this page and device
\* storage").
WordIsKept ==
  /\ promised = "gone" => stored = Empty /\ saved = Empty
  /\ promised = "kept" => stored # Empty /\ (open => saved \in {stored, Empty})
================================================================================
