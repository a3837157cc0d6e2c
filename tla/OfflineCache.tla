------------------------------ MODULE OfflineCache ------------------------------
(***************************************************************************)
(* The service worker of pwa/public/sw.js: the copy it keeps of one public *)
(* API response (a comparison, or the health of a product), what it        *)
(* answers while the network fails, and how an update carries the copy     *)
(* over from the caches of earlier versions.                               *)
(*                                                                         *)
(* Requests cross: each waits for its own response, decides whether it may *)
(* be kept, and keeps it, in separate steps.  Writing may fail.            *)
(*                                                                         *)
(* A worker is activated when the one before it has no event left to       *)
(* handle, so that nothing else writes meanwhile.                          *)
(***************************************************************************)
EXTENDS Integers

CONSTANTS
  Request,      \* requests at the same time
  Carried,      \* runtime caches of earlier versions that are copied: pricecheck-runtime-
  Dropped,      \* and that are not: trolleywise-runtime-
  None,
  MaxResponses  \* bound on the responses of the server

\* facts; no facts, which is the truth; an outage of the source without facts; a
\* transport error, which is not kept.
Kind == {"facts", "empty", "outage", "error"}
Response == [n : 1..MaxResponses, kind : Kind]
Answers  == [response : Response \cup {None}, stale : BOOLEAN]

\* What is assumed of the constants, wherever this module is instantiated.
Assumptions ==
  /\ Carried \cap Dropped = {}
  /\ MaxResponses \in Nat \ {0} /\ None \notin Response \cup Answers

VARIABLES
  worker,    \* installing, copying, deleting or active
  todo,      \* the caches still to be copied
  old,       \* old[c]: the copy in the runtime cache c of an earlier version
  runtime,   \* the copy in RUNTIME_CACHE
  responses, \* how many responses the server has given
  pc,        \* pc[q]: idle, asking, deciding, keeping, failed or answered
  response,  \* response[q]: the response of the network
  answer,    \* answer[q]: what the page gets, and whether it is called stale
  had,       \* history: there was a copy to be kept before the update
  passed     \* history: requests that wait to keep their response, and others kept theirs

asks   == <<responses, pc, response, answer>>
update == <<worker, todo, old, had>>
vars   == <<update, runtime, asks, passed>>

Earlier == {None, [n |-> 1, kind |-> "facts"]}

Init ==
  /\ worker = "installing" /\ todo = {}
  /\ responses = 1 /\ old \in [Carried \cup Dropped -> Earlier] /\ runtime \in Earlier
  /\ had = (runtime # None \/ \E c \in Carried : old[c] # None)
  /\ pc = [q \in Request |-> "idle"] /\ response = [q \in Request |-> None]
  /\ answer = [q \in Request |-> None] /\ passed = {}

--------------------------------------------------------------------------------
(* activate *)

Activate ==
  /\ worker = "installing" /\ worker' = "copying" /\ todo' = Carried
  /\ UNCHANGED <<old, had, runtime, asks, passed>>

\* The copy of an earlier cache is carried over unless there is one.
Carry(c) ==
  /\ worker = "copying" /\ c \in todo /\ todo' = todo \ {c}
  /\ runtime' = IF runtime = None THEN old[c] ELSE runtime
  /\ UNCHANGED <<worker, old, had, asks, passed>>

\* The worker is active all the same, and the earlier caches stay.
CarryFails ==
  /\ worker = "copying" /\ worker' = "active"
  /\ UNCHANGED <<todo, old, had, runtime, asks, passed>>

Carries ==
  /\ worker = "copying" /\ todo = {} /\ worker' = "deleting"
  /\ UNCHANGED <<todo, old, had, runtime, asks, passed>>

\* Every earlier cache is deleted, those that were not copied too; a deletion may fail.
DeleteOld ==
  /\ worker = "deleting" /\ worker' = "active"
  /\ \E deleted \in SUBSET (Carried \cup Dropped) :
       old' = [c \in Carried \cup Dropped |-> IF c \in deleted THEN None ELSE old[c]]
  /\ UNCHANGED <<todo, had, runtime, asks, passed>>

Updating == Activate \/ CarryFails \/ Carries \/ DeleteOld \/ \E c \in Carried : Carry(c)

--------------------------------------------------------------------------------
(* networkFirst.  Requests are handled once the worker is active. *)

Ask(q) ==
  /\ worker = "active" /\ pc[q] = "idle"
  /\ pc' = [pc EXCEPT ![q] = "asking"]
  /\ UNCHANGED <<update, runtime, responses, response, answer, passed>>

\* A transport error is answered as it is, the rest may be kept.
Respond(q, kind) ==
  /\ pc[q] = "asking" /\ responses < MaxResponses
  /\ responses' = responses + 1
  /\ response' = [response EXCEPT ![q] = [n |-> responses + 1, kind |-> kind]]
  /\ pc' = [pc EXCEPT ![q] = IF kind = "error" THEN "answered" ELSE "deciding"]
  /\ answer' = IF kind = "error" THEN [answer EXCEPT ![q] = [response |-> response'[q], stale |-> FALSE]] ELSE answer
  /\ UNCHANGED <<update, runtime, passed>>

HasFacts(copy) == IF copy = None THEN FALSE ELSE copy.kind = "facts"

\* Mutant: an outage is kept like other responses.
MayKeepAny(q) == TRUE

\* shouldCacheHealth, with the copy there is now.
MayKeep(q) == response[q].kind = "outage" => ~HasFacts(runtime)

Decide(q) ==
  /\ pc[q] = "deciding"
  /\ pc' = [pc EXCEPT ![q] = IF MayKeep(q) THEN "keeping" ELSE "answered"]
  /\ answer' = IF MayKeep(q) THEN answer ELSE [answer EXCEPT ![q] = [response |-> response[q], stale |-> FALSE]]
  /\ UNCHANGED <<update, runtime, responses, response, passed>>

Keep(q) ==
  /\ pc[q] = "keeping" /\ pc' = [pc EXCEPT ![q] = "answered"]
  /\ runtime' = response[q] /\ passed' = {r \in Request : pc[r] = "keeping"} \ {q}
  /\ answer' = [answer EXCEPT ![q] = [response |-> response[q], stale |-> FALSE]]
  /\ UNCHANGED <<update, responses, response>>

\* cache.put rejects: its error is caught like the network's.
KeepFails(q) ==
  /\ pc[q] = "keeping" /\ pc' = [pc EXCEPT ![q] = "failed"] /\ passed' = passed \ {q}
  /\ UNCHANGED <<update, runtime, responses, response, answer>>

NetworkFails(q) ==
  /\ pc[q] = "asking" /\ pc' = [pc EXCEPT ![q] = "failed"]
  /\ UNCHANGED <<update, runtime, responses, response, answer, passed>>

\* staleResponse
Stale(copy) == [response |-> copy, stale |-> TRUE]

\* The copy, called stale, or an error.
AnswerCopy(q) ==
  /\ pc[q] = "failed" /\ pc' = [pc EXCEPT ![q] = "answered"]
  /\ answer' = [answer EXCEPT ![q] = Stale(runtime)]
  /\ UNCHANGED <<update, runtime, responses, response, passed>>

Done(q) ==
  /\ pc[q] = "answered" /\ pc' = [pc EXCEPT ![q] = "idle"]
  /\ response' = [response EXCEPT ![q] = None]
  /\ answer' = [answer EXCEPT ![q] = None]
  /\ UNCHANGED <<update, runtime, responses, passed>>

Next ==
  \/ Updating
  \/ \E q \in Request :
       \/ Ask(q) \/ Decide(q) \/ Keep(q) \/ KeepFails(q) \/ NetworkFails(q) \/ AnswerCopy(q) \/ Done(q)
       \/ \E kind \in Kind : Respond(q, kind)

Spec == Init /\ [][Next]_vars

--------------------------------------------------------------------------------
(* Properties. *)

\* A copy is a response the server gave, and never a transport error.
TypeOK ==
  /\ worker \in {"installing", "copying", "deleting", "active"} /\ todo \subseteq Carried
  /\ old \in [Carried \cup Dropped -> Response \cup {None}]
  /\ runtime # None => runtime \in Response /\ runtime.n <= responses /\ runtime.kind # "error"
  /\ pc \in [Request -> {"idle", "asking", "deciding", "keeping", "failed", "answered"}]
  /\ passed \subseteq {q \in Request : pc[q] = "keeping"}
  /\ \A q \in Request : pc[q] = "answered" => answer[q] # None

\* An update never loses the copies it is to preserve ("Preserve old public API
\* comparisons"), wherever it is cut short.
NothingLostByUpdate == had => runtime # None \/ \E c \in Carried : old[c] # None

\* "A typed health outage with no facts must not evict saved source facts": an outage
\* takes the place of facts only if its request had decided before these were kept.
OutageKeepsFacts ==
  [][HasFacts(runtime) /\ runtime' # runtime /\ runtime'.kind = "outage" =>
       \E q \in passed : response[q] = runtime']_vars
================================================================================
