------------------------------ MODULE CoverageForm ------------------------------
(***************************************************************************)
(* Asking for coverage of a product: requestMissingProduct of              *)
(* pwa/src/app/result/page.tsx and recordProductRequest of src/db.js.      *)
(*                                                                         *)
(* An answer may come after the session changed, or not at all.  A request *)
(* that is repeated is counted twice.                                      *)
(***************************************************************************)
EXTENDS Naturals

CONSTANTS
  Who,      \* what a session may be
  None,
  Hint,     \* product hints; None is an empty one
  MaxRev,   \* bound on changes of the session
  MaxSent   \* bound on requests

Owner == [who : Who, rev : 0..MaxRev]

\* What is assumed of the constants, wherever this module is instantiated.
Assumptions ==
  /\ None \notin Who \cup Hint \cup Owner
  /\ MaxRev \in Nat /\ MaxSent \in Nat

VARIABLES
  owner,     \* ownerRef
  state,     \* requestState
  asker,     \* productRequestOwner
  inFlight,  \* productRequestInFlight: waiting, saved, refused; or no
  sent,      \* requests sent
  wire,      \* hints of requests on their way
  row,       \* the row of product_requests: its count and hint
  unsure,    \* history: a request may have been saved without a word
  repeated   \* history: another was sent then without asking

vars == <<owner, state, asker, inFlight, sent, wire, row, unsure, repeated>>

Init ==
  /\ owner \in [who : Who, rev : {0}]
  /\ state = "idle" /\ asker = None /\ inFlight = "no"
  /\ sent = 0 /\ wire = {} /\ row = [count |-> 0, hint |-> None]
  /\ unsure = FALSE /\ repeated = FALSE

See(who) ==
  /\ who # owner.who /\ owner.rev < MaxRev
  /\ owner' = [who |-> who, rev |-> owner.rev + 1]
  /\ UNCHANGED <<state, asker, inFlight, sent, wire, row, unsure, repeated>>

\* Another owner sees an error where the last one had asked.
Visible == IF asker \notin {None, owner} THEN "error" ELSE state

\* The user is asked whether to submit again.
NeedsConfirm == state = "error" \/ asker \notin {None, owner}

Ask(hint) ==
  /\ inFlight = "no" /\ Visible # "sent" /\ sent < MaxSent
  /\ inFlight' = "waiting" /\ asker' = owner /\ state' = "sending"
  /\ sent' = sent + 1
  /\ wire' = wire \cup {[n |-> sent', hint |-> hint]}
  /\ unsure' = TRUE
  /\ repeated' = (repeated \/ (unsure /\ ~NeedsConfirm))
  /\ UNCHANGED <<owner, row>>

\* recordProductRequest: an empty hint leaves the one that is there.
Deliver(q) ==
  /\ q \in wire
  /\ wire' = wire \ {q}
  /\ row' = [count |-> row.count + 1, hint |-> IF q.hint = None THEN row.hint ELSE q.hint]
  /\ inFlight' = IF q.n = sent /\ inFlight = "waiting" THEN "saved" ELSE inFlight
  /\ UNCHANGED <<owner, state, asker, sent, unsure, repeated>>

\* An error, a timeout, or an answer that was lost.
Refuse ==
  /\ inFlight \in {"waiting", "saved"}
  /\ inFlight' = "refused"
  /\ UNCHANGED <<owner, state, asker, sent, wire, row, unsure, repeated>>

\* The owner who asked is told, when still there.
Told == inFlight = "saved" /\ owner = asker

Answered ==
  /\ inFlight \in {"saved", "refused"}
  /\ inFlight' = "no"
  /\ state' = IF owner # asker THEN state ELSE IF Told THEN "sent" ELSE "error"
  /\ unsure' = ~Told
  /\ UNCHANGED <<owner, asker, sent, wire, row, repeated>>

Next ==
  \/ \E who \in Who : See(who)
  \/ \E hint \in Hint \cup {None} : Ask(hint)
  \/ \E q \in wire : Deliver(q)
  \/ Refuse \/ Answered

Spec == Init /\ [][Next]_vars

--------------------------------------------------------------------------------

\* While an earlier request may have been saved, another is sent only when the
\* user was asked, whoever came and went ("An earlier coverage request may have
\* completed.  Submit these details again?").
NoSilentRepeat == ~repeated

\* Who sees "Saved" asked for it, and the request is in the count.
SavedIsCounted == Visible = "sent" => asker = owner /\ row.count > 0

\* A request in flight is the last one sent, and its form is the asker's.
TypeOK ==
  /\ owner \in Owner /\ asker \in Owner \cup {None}
  /\ state \in {"idle", "sending", "sent", "error"}
  /\ inFlight \in {"no", "waiting", "saved", "refused"}
  /\ sent \in 0..MaxSent
  /\ wire \subseteq [n : 1..sent, hint : Hint \cup {None}]
  /\ row \in [count : 0..MaxSent, hint : Hint \cup {None}]
  /\ unsure \in BOOLEAN /\ repeated \in BOOLEAN
  /\ inFlight = "saved" => \A q \in wire : q.n # sent
  /\ inFlight # "no" => state = "sending" /\ asker # None
================================================================================
