------------------------------ MODULE SeedCatalogue ------------------------------
(***************************************************************************)
(* The catalogue seed: runSeed of scripts/seed-catalogue.js, started by    *)
(* the server's POST /admin/seed-catalogue, which keeps seedStatus, and by *)
(* the command line, which may run at the same time.                       *)
(*                                                                         *)
(* Both keep their progress in one file, read once at the start and        *)
(* written over after each product: writeFileSync empties it, then fills   *)
(* it.  What is read in between, or after a crash there, does not parse.   *)
(***************************************************************************)
EXTENDS Integers, Sequences, FiniteSets

CONSTANTS
  Products,   \* the candidates are 1..Products
  MaxCrashes, \* bounds on the crashes
  MaxRuns,    \* and on the runs
  Runner      \* server and cli, or one of them

\* What is assumed of the constants, wherever this module is instantiated.
Assumptions == {Products, MaxCrashes, MaxRuns} \subseteq Nat /\ Runner \subseteq {"server", "cli"}

Product == 1..Products

VARIABLES
  file,     \* seed-progress.json: the completed products, or torn
  table,    \* the products table
  at,       \* at[r]: idle, or where the run is
  index,    \* index[r]: the candidate its loop has reached
  skip,     \* skip[r]: completed when the run began
  progress, \* progress[r]: what it will write
  status,   \* seedStatus.state
  runs, crashes,
  done,     \* history: the products that were refreshed
  written   \* history: the products that finished writes have listed since a
            \* run has found the file torn

vars == <<file, table, at, index, skip, progress, status, runs, crashes, done, written>>

\* What does not parse.
Torn == <<0>>

Init ==
  /\ file = <<>> /\ table = {} /\ at = [r \in Runner |-> "idle"] /\ index = [r \in Runner |-> 1]
  /\ skip = [r \in Runner |-> {}] /\ progress = [r \in Runner |-> <<>>]
  /\ status = "idle" /\ runs = 0 /\ crashes = 0 /\ done = {} /\ written = {}

Listed(list) == {list[i] : i \in DOMAIN list}

\* readProgress: no file and a torn one read as no progress.
Progress == IF file = Torn THEN <<>> ELSE file

Status(r, state) == status' = IF r = "server" THEN state ELSE status

\* POST /admin/seed-catalogue refuses a second run; the command line knows of none.
Begin(r) ==
  /\ at[r] = "idle" /\ runs < MaxRuns /\ (r = "server" => status # "running")
  /\ at' = [at EXCEPT ![r] = "schema"] /\ runs' = runs + 1 /\ Status(r, "running")
  /\ UNCHANGED <<file, table, index, skip, progress, crashes, done, written>>

\* initSchema, then the file is read.
Read(r) ==
  /\ at[r] = "schema"
  /\ at' = [at EXCEPT ![r] = "loop"] /\ index' = [index EXCEPT ![r] = 1]
  /\ progress' = [progress EXCEPT ![r] = Progress] /\ skip' = [skip EXCEPT ![r] = Listed(Progress)]
  /\ written' = IF file = Torn THEN {} ELSE written
  /\ UNCHANGED <<file, table, status, runs, crashes, done>>

Skip(r) ==
  /\ at[r] = "loop" /\ index[r] \in skip[r]
  /\ index' = [index EXCEPT ![r] = @ + 1]
  /\ UNCHANGED <<file, table, at, skip, progress, status, runs, crashes, done, written>>

\* ensureProduct
Ensure(r) ==
  /\ at[r] = "loop" /\ index[r] \in Product \ skip[r]
  /\ table' = table \cup {index[r]} /\ at' = [at EXCEPT ![r] = "refresh"]
  /\ UNCHANGED <<file, index, skip, progress, status, runs, crashes, done, written>>

\* forceRefreshComparison, whose failure is noted as the product's error; then
\* saveProgress empties the file, if it gets as far.
Refresh(r) ==
  /\ at[r] = "refresh"
  /\ done' = done \cup {index[r]}
  /\ progress' = [progress EXCEPT ![r] = Append(@, index[r])]
  /\ \/ file' = Torn /\ at' = [at EXCEPT ![r] = "write"]
     \/ file' = file /\ at' = [at EXCEPT ![r] = "unsaved"]
  /\ UNCHANGED <<table, index, skip, status, runs, crashes, written>>

\* Where the other has filled the file in the meantime, what is longer sticks out: a
\* mixture does not parse.
Write(r) ==
  /\ at[r] = "write"
  /\ file' \in {progress[r]} \cup IF file = Torn THEN {} ELSE {Torn}
  /\ index' = [index EXCEPT ![r] = @ + 1] /\ at' = [at EXCEPT ![r] = "loop"]
  /\ written' = IF file' = Torn THEN written ELSE written \cup Listed(file')
  /\ UNCHANGED <<table, skip, progress, status, runs, crashes, done>>

End(r) ==
  /\ at[r] = "loop" /\ index[r] > Products
  /\ at' = [at EXCEPT ![r] = "idle"] /\ Status(r, "complete")
  /\ UNCHANGED <<file, table, index, skip, progress, runs, crashes, done, written>>

\* initSchema, ensureProduct or the write of the file rejects the run.
Fail(r) ==
  /\ \/ at[r] \in {"schema", "write", "unsaved"}
     \/ at[r] = "loop" /\ index[r] \in Product \ skip[r]
  /\ at' = [at EXCEPT ![r] = "idle"] /\ Status(r, "failed")
  /\ UNCHANGED <<file, table, index, skip, progress, runs, crashes, done, written>>

\* The process ends; the server starts again.
Crash(r) ==
  /\ at[r] # "idle" /\ crashes < MaxCrashes
  /\ at' = [at EXCEPT ![r] = "idle"] /\ crashes' = crashes + 1 /\ Status(r, "idle")
  /\ UNCHANGED <<file, table, index, skip, progress, runs, done, written>>

Step(r) == Read(r) \/ Skip(r) \/ Ensure(r) \/ Refresh(r) \/ Write(r) \/ End(r) \/ Fail(r)

Act(r) == Begin(r) \/ Step(r) \/ Crash(r)

Next == \E r \in Runner : Act(r)

\* The database and the retailers answer or fail.
Spec == Init /\ [][Next]_vars /\ \A r \in Runner : WF_vars(Step(r))

--------------------------------------------------------------------------------
(* Properties. *)

\* seedStatus says running while the server's run is under way, and only then.
TypeOK ==
  /\ file = Torn \/ file \in Seq(Product)
  /\ table \subseteq Product /\ status \in {"idle", "running", "complete", "failed"}
  /\ at \in [Runner -> {"idle", "schema", "loop", "refresh", "write", "unsaved"}]
  /\ \A r \in Runner : index[r] \in 1..(Products + 1) /\ skip[r] \subseteq Listed(progress[r])
  /\ "server" \in Runner => (status = "running" <=> at["server"] # "idle")

\* No list of progress names a product twice: productsWithRetailerPrices, which
\* counts the entries, is never more than the products there are.
ListedOnce ==
  \A list \in {progress[r] : r \in Runner} \cup {Progress} : Cardinality(Listed(list)) = Len(list)

\* What the file calls completed is in the products table and has been refreshed, and
\* a complete seed has done so with all products, whatever else wrote the file.
CompleteIsDone ==
  /\ Listed(Progress) \subseteq table \cap done
  /\ status = "complete" => table = Product /\ done = Product

\* A run that begins leaves out whatever finished writes have listed, unless the file is torn.
GoesOn == \A r \in Runner : at[r] = "schema" /\ at'[r] = "loop" /\ file # Torn => written \subseteq skip'[r]

\* A run ends, and seedStatus says how.
Ended == status # "running"
SeedEnds == []<>Ended
================================================================================
