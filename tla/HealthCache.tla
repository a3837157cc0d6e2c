------------------------------- MODULE HealthCache -------------------------------
(***************************************************************************)
(* getProductHealth of src/productHealth.js: the cache in front of Open    *)
(* Food Facts.  Several requests look up products at once; each reads the  *)
(* entry of its product when it begins, asks the source, and writes the    *)
(* entry when it ends.  All times are those at which a lookup began, as in *)
(* the code.                                                               *)
(***************************************************************************)
EXTENDS Integers, Sequences, FiniteSets

CONSTANTS
  Lookup,
  Barcode,
  None,
  MaxEntries,  \* MAX_CACHE_ENTRIES
  SourceTTL, MissTTL, FailureTTL,
  MaxTime      \* bound on the time

Time == 0..MaxTime

\* What is told of a product: facts or none, when the source was asked for them,
\* and whether they are called outdated.
Data == [facts : BOOLEAN, at : Time, stale : BOOLEAN, down : BOOLEAN]

Entries == [barcode : Barcode, data : Data, stored : Time, expires : Nat]

\* What is assumed of the constants, wherever this module is instantiated.
Assumptions ==
  /\ MaxEntries \in Nat \ {0} /\ MaxTime \in Nat
  /\ {SourceTTL, MissTTL, FailureTTL} \subseteq Nat \ {0}
  /\ IsFiniteSet(Lookup) /\ Barcode # {} /\ None \notin Entries

VARIABLES
  now,
  cache,   \* the entries, oldest first
  pc,      \* pc[l]: idle, fetching or answered
  wants,   \* wants[l]: the product of l
  began,   \* began[l]: currentTime
  saved,   \* saved[l]: the entry l found, or None
  answer,  \* answer[l]: the data l returned
  given,   \* history: <<b, t>>: the source gave facts on b to a lookup begun at t
  last     \* history: last[b]: how the last lookup of b ended

call == <<pc, wants, began, saved, answer>>
vars == <<now, cache, call, given, last>>

NoAnswer == [facts |-> FALSE, at |-> 0, stale |-> FALSE, down |-> FALSE]

Init ==
  /\ now = 0 /\ cache = <<>>
  /\ pc = [l \in Lookup |-> "idle"] /\ wants \in [Lookup -> {CHOOSE b \in Barcode : TRUE}]
  /\ began = [l \in Lookup |-> 0] /\ saved = [l \in Lookup |-> None] /\ answer = [l \in Lookup |-> NoAnswer]
  /\ given = {} /\ last = [b \in Barcode |-> None]

Tick == now < MaxTime /\ now' = now + 1 /\ UNCHANGED <<cache, call, given, last>>

Places(b) == {i \in DOMAIN cache : cache[i].barcode = b}
Place(b) == CHOOSE i \in Places(b) : TRUE
Entry(b) == IF Places(b) = {} THEN None ELSE cache[Place(b)]

Hit(b) == Entry(b) # None /\ Entry(b).expires > now

FromCache(l, b) ==
  /\ pc[l] = "idle" /\ Hit(b)
  /\ pc' = [pc EXCEPT ![l] = "answered"] /\ wants' = [wants EXCEPT ![l] = b]
  /\ began' = [began EXCEPT ![l] = now]
  /\ answer' = [answer EXCEPT ![l] = Entry(b).data]
  /\ UNCHANGED <<now, cache, saved, given, last>>

\* A miss, an entry that has expired, or a forced lookup.
Fetch(l, b, force) ==
  /\ pc[l] = "idle" /\ (force \/ ~Hit(b))
  /\ pc' = [pc EXCEPT ![l] = "fetching"] /\ wants' = [wants EXCEPT ![l] = b]
  /\ began' = [began EXCEPT ![l] = now] /\ saved' = [saved EXCEPT ![l] = Entry(b)]
  /\ UNCHANGED <<now, cache, answer, given, last>>

\* cache.delete: the entry of b goes.
Without(b) ==
  IF Places(b) = {} THEN cache
  ELSE [i \in 1..(Len(cache) - 1) |-> IF i < Place(b) THEN cache[i] ELSE cache[i + 1]]

\* cacheEntry: the entry becomes the newest, and the oldest go.
Stored(b, data, at, ttl) ==
  LET all == Append(Without(b), [barcode |-> b, data |-> data, stored |-> at, expires |-> at + ttl])
  IN  IF Len(all) <= MaxEntries THEN all ELSE [i \in 1..MaxEntries |-> all[i + Len(all) - MaxEntries]]

\* cache.set: an entry keeps its place, and a new one is the newest; none goes.
Replaced(b, entry) ==
  IF Places(b) = {} THEN Append(cache, entry)
  ELSE [i \in DOMAIN cache |-> IF i \in Places(b) THEN entry ELSE cache[i]]

End(l, data) ==
  /\ pc' = [pc EXCEPT ![l] = "answered"]
  /\ answer' = [answer EXCEPT ![l] = data] /\ saved' = [saved EXCEPT ![l] = None]
  /\ UNCHANGED <<now, wants, began>>

\* The source has the product, with facts or without any.
Found(l, facts) ==
  LET data == [facts |-> facts, at |-> began[l], stale |-> FALSE, down |-> FALSE] IN
  /\ pc[l] = "fetching"
  /\ cache' = Stored(wants[l], data, began[l], IF facts THEN SourceTTL ELSE MissTTL)
  /\ given' = IF facts THEN given \cup {<<wants[l], began[l]>>} ELSE given
  /\ last' = [last EXCEPT ![wants[l]] = "found"]
  /\ End(l, data)

\* An error, an unreadable answer or a timeout, and no facts were saved.
Fails(l) ==
  LET data == [facts |-> FALSE, at |-> began[l], stale |-> FALSE, down |-> TRUE] IN
  /\ pc[l] = "fetching" /\ (saved[l] # None => ~saved[l].data.facts)
  /\ cache' = Stored(wants[l], data, began[l], FailureTTL)
  /\ last' = [last EXCEPT ![wants[l]] = "failed"]
  /\ UNCHANGED given /\ End(l, data)

\* Mutant: the copy is answered as it was saved.
OutdatedAsSaved(l) ==
  LET data == [saved[l].data EXCEPT !.down = TRUE] IN
  /\ pc[l] = "fetching" /\ saved[l] # None /\ saved[l].data.facts
  /\ cache' = Replaced(wants[l], [barcode |-> wants[l], data |-> data, stored |-> saved[l].stored, expires |-> began[l] + FailureTTL])
  /\ last' = [last EXCEPT ![wants[l]] = "failed"]
  /\ UNCHANGED given /\ End(l, data)

\* The same, and what was saved is kept: an outdated copy is stored.
Outdated(l) ==
  LET data == [saved[l].data EXCEPT !.stale = TRUE, !.down = TRUE] IN
  /\ pc[l] = "fetching" /\ saved[l] # None /\ saved[l].data.facts
  /\ cache' = Replaced(wants[l], [barcode |-> wants[l], data |-> data, stored |-> saved[l].stored, expires |-> began[l] + FailureTTL])
  /\ last' = [last EXCEPT ![wants[l]] = "failed"]
  /\ UNCHANGED given /\ End(l, data)

Return(l) ==
  /\ pc[l] = "answered"
  /\ pc' = [pc EXCEPT ![l] = "idle"] /\ answer' = [answer EXCEPT ![l] = NoAnswer] /\ began' = [began EXCEPT ![l] = 0]
  /\ wants' = [wants EXCEPT ![l] = CHOOSE b \in Barcode : TRUE]
  /\ UNCHANGED <<now, cache, saved, given, last>>

Next ==
  \/ Tick
  \/ \E l \in Lookup :
       \/ \E b \in Barcode : FromCache(l, b) \/ \E force \in BOOLEAN : Fetch(l, b, force)
       \/ (\E facts \in BOOLEAN : Found(l, facts)) \/ Fails(l) \/ Outdated(l) \/ Return(l)

Spec == Init /\ [][Next]_vars

--------------------------------------------------------------------------------
(* Properties. *)

\* A product has one entry, and no entry is from the future.
TypeOK ==
  /\ now \in Time
  /\ \A i \in DOMAIN cache :
       /\ cache[i].barcode \in Barcode /\ cache[i].data \in Data
       /\ cache[i].stored \in 0..now /\ cache[i].data.at <= cache[i].stored
       /\ \A j \in DOMAIN cache : cache[i].barcode = cache[j].barcode => i = j
  /\ pc \in [Lookup -> {"idle", "fetching", "answered"}]
  /\ wants \in [Lookup -> Barcode] /\ began \in [Lookup -> 0..now] /\ answer \in [Lookup -> Data]
  /\ last \in [Barcode -> {"found", "failed", None}]

\* Lookups that fail put entries back that were evicted meanwhile; even so the
\* cache outgrows its limit only by what other lookups under way may put back.
Bounded == Len(cache) <= MaxEntries + Cardinality(Lookup) - 1

\* Facts that are not called outdated were given by the source, of this product, to
\* a lookup begun less than SourceTTL before ("never pretend an outage was a
\* fresh check").
FreshIsFresh ==
  \A l \in Lookup :
    LET a == answer[l] IN
    pc[l] = "answered" /\ a.facts =>
      /\ <<wants[l], a.at>> \in given
      /\ ~a.stale => ~a.down /\ began[l] - a.at < SourceTTL

\* While the last lookup of a product is one that failed its entry says so ("A
\* following normal request must not hide the failed refresh operation").
FailureShows == \A i \in DOMAIN cache : cache[i].data.down <=> last[cache[i].barcode] = "failed"
================================================================================
