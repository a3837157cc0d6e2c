------------------------------- MODULE GuestSync -------------------------------
(***************************************************************************)
(* What a guest leaves on the device becomes an account's:                 *)
(* pwa/src/components/guest-data-sync.tsx over pwa/src/lib/guest-data.ts,  *)
(* with userRequest of pwa/src/lib/user-api.ts and migrateGuestData of     *)
(* src/db.js.                                                              *)
(*                                                                         *)
(* Tabs share the device and the cookie.  A tab that learns of a new       *)
(* account posts a copy of what the device holds and clears the device     *)
(* when the service has confirmed and nothing was added.  A sync that was  *)
(* aborted goes no further, but its post may still arrive.                 *)
(*                                                                         *)
(* The list limits (100 on the device, 250 in a post) are not reached.     *)
(***************************************************************************)
EXTENDS Naturals, FiniteSets

CONSTANTS
  Tab,
  Barcode,
  Account,
  Guest,     \* the owner of a tab that is signed out
  Loading,   \* the session is not known yet
  Closed,    \* the tab is closed
  None,
  MaxAt      \* bound on the items a guest records

Item == [kind : {"scan", "favourite"}, barcode : Barcode, at : 1..MaxAt]

ASSUME NamesAssumption ==
  /\ {Guest, Loading, Closed, None} \cap Account = {} /\ Cardinality({Guest, Loading, Closed, None}) = 4
  /\ None \notin Tab
ASSUME MaxAtAssumption == MaxAt \in Nat

VARIABLES
  device,   \* items in localStorage
  clock,    \* timestamps given out
  cookie,   \* the account the server sees, or Guest
  shown,    \* shown[t]: what tab t believes
  sync,     \* sync[t]: the migration under way
  error,    \* tabs that offer a retry
  wire,     \* posts that have not reached the server
  copies,   \* copies[a][i]: rows account a has for item i
  owed      \* history: items the guest still wants

vars == <<device, clock, cookie, shown, sync, error, wire, copies, owed>>

NoSync == [owner |-> None, payload |-> {}, step |-> "none"]

Init ==
  /\ device = {} /\ clock = 0 /\ owed = {}
  /\ cookie \in Account \cup {Guest}
  /\ shown \in [Tab -> {Loading, Closed}]
  /\ sync = [t \in Tab |-> NoSync] /\ error = {} /\ wire = {}
  /\ copies = [a \in Account |-> [i \in Item |-> 0]]

--------------------------------------------------------------------------------
(* The device. *)

Same(i) == {j \in device : j.kind = i.kind /\ j.barcode = i.barcode}

Guests == {t \in Tab : shown[t] \in {Guest, Loading}}

\* recordGuestScan: a newer scan replaces the one of the same product.
RecordScan(b) ==
  LET i == [kind |-> "scan", barcode |-> b, at |-> clock + 1] IN
  /\ Guests # {} /\ clock < MaxAt
  /\ clock' = clock + 1
  /\ device' = (device \ Same(i)) \cup {i}
  /\ owed' = (owed \ Same(i)) \cup {i}
  /\ UNCHANGED <<cookie, shown, sync, error, wire, copies>>

\* toggleGuestFavourite
ToggleFavourite(b) ==
  LET i == [kind |-> "favourite", barcode |-> b, at |-> clock + 1] IN
  /\ Guests # {} /\ clock < MaxAt
  /\ clock' = clock + 1
  /\ device' = IF Same(i) = {} THEN device \cup {i} ELSE device \ Same(i)
  /\ owed' = IF Same(i) = {} THEN owed \cup {i} ELSE owed \ Same(i)
  /\ UNCHANGED <<cookie, shown, sync, error, wire, copies>>

--------------------------------------------------------------------------------
(* A tab. *)

\* sync: capture what the device holds; nothing to do when it holds nothing.
Begin(o) == IF device = {} THEN NoSync ELSE [owner |-> o, payload |-> device, step |-> "token"]

\* The answer to an aborted request interests nobody.
Orphaned(t) == {IF p.tab = t THEN [p EXCEPT !.tab = None] ELSE p : p \in wire}

\* The session is read again; the effect aborts the sync of another owner and
\* starts one for an account.
See(t, o) ==
  /\ shown[t] # Closed
  /\ o \in {Loading, cookie} \ {shown[t]}
  /\ shown' = [shown EXCEPT ![t] = o]
  /\ wire' = Orphaned(t)
  /\ sync' = [sync EXCEPT ![t] = IF o \in Account THEN Begin(o) ELSE NoSync]
  /\ error' = error \ {t}
  /\ UNCHANGED <<device, clock, cookie, copies, owed>>

\* The retry button.
Retry(t) ==
  /\ t \in error /\ sync[t] = NoSync /\ shown[t] \in Account
  /\ sync' = [sync EXCEPT ![t] = Begin(shown[t])]
  /\ error' = error \ {t}
  /\ UNCHANGED <<device, clock, cookie, shown, wire, copies, owed>>

\* userRequest: the token is the cookie's, whoever the tab shows.
Post(t) ==
  /\ sync[t].step = "token"
  /\ cookie \in Account
  /\ sync' = [sync EXCEPT ![t].step = "posted"]
  /\ wire' = wire \cup {[tab |-> t, account |-> cookie, payload |-> sync[t].payload]}
  /\ UNCHANGED <<device, clock, cookie, shown, error, copies, owed>>

\* No token, an error, an answer that was lost, or the timer of 35 s.
Fail(t) ==
  /\ sync[t].step \in {"token", "posted"}
  /\ sync' = [sync EXCEPT ![t] = NoSync]
  /\ error' = error \cup {t}
  /\ wire' = Orphaned(t)
  /\ UNCHANGED <<device, clock, cookie, shown, copies, owed>>

\* A confirmed sync clears the device only when it still holds what was posted.
ClearConfirmed(t) ==
  IF device = sync[t].payload THEN device' = {} /\ error' = error
                              ELSE device' = device /\ error' = error \cup {t}

\* The confirmation is processed; identityRef is the owner's, or the effect
\* would have aborted it.
Finish(t) ==
  /\ sync[t].step = "confirmed"
  /\ ClearConfirmed(t)
  /\ sync' = [sync EXCEPT ![t] = NoSync]
  /\ UNCHANGED <<clock, cookie, shown, wire, copies, owed>>

\* clearGuestData writes the scans before the favourites, and the tab may be
\* closed in between.
CloseClearing(t) ==
  /\ sync[t].step = "confirmed" /\ device = sync[t].payload
  /\ device' = {i \in device : i.kind = "favourite"}
  /\ shown' = [shown EXCEPT ![t] = Closed]
  /\ sync' = [sync EXCEPT ![t] = NoSync]
  /\ UNCHANGED <<clock, cookie, error, wire, copies, owed>>

Close(t) ==
  /\ shown[t] # Closed
  /\ shown' = [shown EXCEPT ![t] = Closed]
  /\ sync' = [sync EXCEPT ![t] = NoSync]
  /\ error' = error \ {t}
  /\ wire' = Orphaned(t)
  /\ UNCHANGED <<device, clock, cookie, copies, owed>>

Open(t) ==
  /\ shown[t] = Closed
  /\ shown' = [shown EXCEPT ![t] = Loading]
  /\ UNCHANGED <<device, clock, cookie, sync, error, wire, copies, owed>>

--------------------------------------------------------------------------------
(* The server and the session. *)

\* Mutant: every post inserts its scans.
InsertAgain(rows, payload) == [i \in Item |-> IF i \in payload THEN rows[i] + 1 ELSE rows[i]]

\* migrateGuestData: one transaction; the migration key of a scan and the
\* barcode of a favourite are inserted once.
Migrated(rows, payload) ==
  [i \in Item |->
    IF i.kind = "scan" THEN (IF i \in payload /\ rows[i] = 0 THEN 1 ELSE rows[i])
    ELSE LET newest == {j \in payload : j.kind = "favourite" /\ j.barcode = i.barcode}
         IN IF newest = {} THEN rows[i] ELSE IF i \in newest THEN 1 ELSE 0]

Confirm(p) == IF p.tab = None THEN sync ELSE [sync EXCEPT ![p.tab].step = "confirmed"]

\* A post arrives and is confirmed to the tab that waits for it.
Deliver(p) ==
  /\ p \in wire
  /\ wire' = wire \ {p}
  /\ copies' = [copies EXCEPT ![p.account] = Migrated(@, p.payload)]
  /\ sync' = Confirm(p)
  /\ UNCHANGED <<device, clock, cookie, shown, error, owed>>

\* A post nobody waits for may never arrive.
Drop(p) ==
  /\ p \in wire /\ p.tab = None
  /\ wire' = wire \ {p}
  /\ UNCHANGED <<device, clock, cookie, shown, sync, error, copies, owed>>

\* Signing in or out, in this tab or another.
SwitchAccount(o) ==
  /\ o # cookie
  /\ cookie' = o
  /\ UNCHANGED <<device, clock, shown, sync, error, wire, copies, owed>>

Steps(t) == Post(t) \/ Fail(t) \/ Finish(t)

User ==
  \/ \E b \in Barcode : RecordScan(b) \/ ToggleFavourite(b)
  \/ \E t \in Tab : Retry(t) \/ Close(t) \/ CloseClearing(t) \/ Open(t)
  \/ \E t \in Tab, o \in Account \cup {Guest, Loading} : See(t, o)
  \/ \E o \in Account \cup {Guest} : SwitchAccount(o)

Next ==
  \/ User
  \/ \E t \in Tab : Steps(t)
  \/ \E p \in wire : Deliver(p) \/ Drop(p)

\* An await of a sync ends, by an answer or by the timer.
Spec == Init /\ [][Next]_vars /\ \A t \in Tab : WF_vars(Steps(t))

--------------------------------------------------------------------------------
(* Properties. *)

Posts == [tab : Tab \cup {None}, account : Account, payload : SUBSET Item]

\* A sync under way is the one of the account its tab shows, and at most one
\* request of a tab is waited for.
TypeOK ==
  /\ device \subseteq Item /\ clock \in 0..MaxAt /\ cookie \in Account \cup {Guest}
  /\ shown \in [Tab -> Account \cup {Guest, Loading, Closed}]
  /\ sync \in [Tab -> [owner : Account, payload : SUBSET Item, step : {"token", "posted", "confirmed"}] \cup {NoSync}]
  /\ error \subseteq Tab /\ wire \subseteq Posts
  /\ copies \in [Account -> [Item -> Nat]]
  /\ owed \subseteq Item
  /\ \A t \in Tab : sync[t] # NoSync => sync[t].owner = shown[t]

Held(a, i) ==
  IF i.kind = "scan" THEN copies[a][i] > 0
  ELSE \E j \in Item : j.kind = "favourite" /\ j.barcode = i.barcode /\ copies[a][j] > 0

\* What a guest recorded, and neither removed nor replaced, is on the device
\* until an account has it, however accounts, answers and tabs come and go
\* (guest-data-sync.tsx: "All device items have been kept").
NothingLost == \A i \in owed : i \in device \/ \E a \in Account : Held(a, i)

\* Retries, late posts and two tabs at once leave one row of an item in an
\* account ("Stable guest record IDs let the backend safely deduplicate
\* retries").
NoDuplicates ==
  \A a \in Account, i, j \in Item :
    /\ copies[a][i] <= 1
    /\ i.kind = "favourite" /\ j.kind = "favourite" /\ i.barcode = j.barcode
       /\ copies[a][i] > 0 /\ copies[a][j] > 0 => i = j

\* Once the user stops, syncs end, and an only tab that is signed in has
\* emptied the device or offers a retry: nothing waits on the device unseen.
SyncSettles ==
  <>[][~User]_vars =>
    /\ \A t \in Tab : <>[](sync[t] = NoSync)
    /\ \A t \in Tab : Tab = {t} => <>[](shown[t] \in Account => device = {} \/ t \in error)

\* What a guest did is on the device or in the account, once.
GuestDataIsKept == TypeOK /\ NothingLost /\ NoDuplicates
================================================================================
