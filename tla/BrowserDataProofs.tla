--------------------------- MODULE BrowserDataProofs ---------------------------
(***************************************************************************)
(* Proofs about what the browser keeps, for any constants of the parts of  *)
(* MCBrowserData.                                                          *)
(*                                                                         *)
(* GuestSync: NothingLost is not inductive: a tab may clear the device     *)
(* because of an answer that is long past.  What makes it safe is that an  *)
(* account which has an item keeps it whatever is posted later, so that    *)
(* what a confirmed sync holds is held by an account (Synced), and that    *)
(* the post a tab waits for carries what the tab captured (Wired).         *)
(*                                                                         *)
(* Scans: the owner of a candidate, and of a save, is the first (ScansInv, *)
(* ResultInv).  Requests: who asked is the owner or one of before, so that *)
(* what is unsure stays so for all who come after (FormInv).  Notes: the   *)
(* box is ticked only for what was checked (NotesInv).  Copies: what    *)
(* is carried over is there before the earlier caches go (OfflineInv), and *)
(* what may be kept when that is decided may be when it is, unless another *)
(* was kept in between (DecidedRight).                                     *)
(***************************************************************************)
EXTENDS MCBrowserData, FiniteSetTheorems, TLAPS

SomeHas(i) == \E a \in Account : Held(a, i)

\* At most one favourite of a product.
OnePer(S) == \A i, j \in S : i.kind = "favourite" /\ j.kind = "favourite" /\ i.barcode = j.barcode => i = j

Synced ==
  \A t \in Tab :
    /\ OnePer(sync[t].payload)
    /\ sync[t].step = "confirmed" => \A i \in sync[t].payload : SomeHas(i)

Wired ==
  /\ \A p \in wire :
       /\ OnePer(p.payload)
       /\ p.tab # None => sync[p.tab].step = "posted" /\ sync[p.tab].payload = p.payload
  /\ \A p, q \in wire : p.tab = q.tab /\ p.tab # None => p = q

IInv == TypeOK /\ OnePer(device) /\ Synced /\ Wired /\ NoDuplicates /\ NothingLost

USE NamesAssumption, MaxAtAssumption

\* The parts of TypeOK.
Migration == [owner : Account, payload : SUBSET Item, step : {"token", "posted", "confirmed"}]
DeviceOK == device \subseteq Item /\ clock \in 0..MaxAt /\ owed \subseteq Item
ShownOK == cookie \in Account \cup {Guest} /\ shown \in [Tab -> Account \cup {Guest, Loading, Closed}] /\ error \subseteq Tab
SyncOK == sync \in [Tab -> Migration \cup {NoSync}]
WireOK == wire \subseteq Posts
CopiesOK == copies \in [Account -> [Item -> Nat]]
OwnOK == \A t \in Tab : sync[t] # NoSync => sync[t].owner = shown[t]

LEMMA TypeParts ==
  /\ TypeOK <=> DeviceOK /\ ShownOK /\ SyncOK /\ WireOK /\ CopiesOK /\ OwnOK
  /\ TypeOK' <=> DeviceOK' /\ ShownOK' /\ SyncOK' /\ WireOK' /\ CopiesOK' /\ OwnOK'
BY DEF TypeOK, DeviceOK, ShownOK, SyncOK, WireOK, CopiesOK, OwnOK, Migration

LEMMA Names == None \notin Tab /\ None \notin Account /\ NoSync \notin Migration
BY DEF NoSync, Migration

LEMMA InitIInv == Init => IInv
<1>. SUFFICES ASSUME Init PROVE IInv
  OBVIOUS
<1>1. TypeOK
  <2>1. DeviceOK /\ ShownOK /\ WireOK
    BY DEF Init, DeviceOK, ShownOK, WireOK
  <2>2. SyncOK /\ OwnOK /\ CopiesOK
    BY DEF Init, SyncOK, OwnOK, CopiesOK
  <2>. QED
    BY <2>1, <2>2, TypeParts
<1>2. OnePer(device) /\ Synced /\ Wired
  BY DEF Init, OnePer, Synced, Wired, NoSync
<1>3. NoDuplicates /\ NothingLost
  BY DEF Init, NoDuplicates, NothingLost
<1>. QED
  BY <1>1, <1>2, <1>3 DEF IInv

--------------------------------------------------------------------------------
(* The syncs of a tab *)

\* The sync of tab t is s, it is not confirmed, and nothing on the wire is the
\* tab's any more.
Replaces(t, s) ==
  /\ sync' = [sync EXCEPT ![t] = s]
  /\ \A p \in wire' : p \in Posts /\ p.tab # t /\ (p.tab # None => p \in wire) /\ \E q \in wire : q.payload = p.payload

LEMMA Orphans ==
  ASSUME WireOK, NEW t \in Tab
  PROVE  \A p \in Orphaned(t) : p \in Posts /\ p.tab # t /\ (p.tab # None => p \in wire) /\ \E q \in wire : q.payload = p.payload
<1>. SUFFICES ASSUME NEW q \in wire, NEW p, p = IF q.tab = t THEN [q EXCEPT !.tab = None] ELSE q
              PROVE  p \in Posts /\ p.tab # t /\ (p.tab # None => p \in wire) /\ p.payload = q.payload
  BY DEF Orphaned
<1>1. q \in Posts
  BY DEF WireOK
<1>. QED
  BY <1>1, Names DEF Posts

LEMMA SyncReplaced ==
  ASSUME IInv, NEW t \in Tab, NEW s \in Migration \cup {NoSync}, Replaces(t, s), OnePer(s.payload), s.step # "confirmed",
         UNCHANGED copies
  PROVE  SyncOK' /\ WireOK' /\ Synced' /\ Wired' /\ sync'[t] = s /\ \A v \in Tab \ {t} : sync'[v] = sync[v]
<1>1. SyncOK /\ WireOK
  BY TypeParts DEF IInv
<1>2. SyncOK' /\ sync'[t] = s /\ \A v \in Tab \ {t} : sync'[v] = sync[v]
  BY <1>1 DEF SyncOK, Replaces
<1>3. WireOK'
  BY DEF WireOK, Replaces
<1>4. Synced'
  <2>1. ASSUME NEW v \in Tab
        PROVE  OnePer(sync'[v].payload) /\ (sync'[v].step = "confirmed" => \A i \in sync'[v].payload : SomeHas(i)')
    <3>1. CASE v = t
      BY <1>2, <3>1
    <3>2. CASE v # t
      BY <1>2, <3>2 DEF IInv, Synced, SomeHas, Held
    <3>. QED
      BY <3>1, <3>2
  <2>. QED
    BY <2>1 DEF Synced, OnePer
<1>5. Wired'
  <2>1. ASSUME NEW p \in wire'
        PROVE  OnePer(p.payload) /\ (p.tab # None => sync'[p.tab].step = "posted" /\ sync'[p.tab].payload = p.payload)
    <3>1. PICK q \in wire : q.payload = p.payload
      BY DEF Replaces
    <3>2. OnePer(p.payload)
      BY <3>1 DEF IInv, Wired
    <3>3. ASSUME p.tab # None PROVE sync'[p.tab].step = "posted" /\ sync'[p.tab].payload = p.payload
      <4>1. p \in wire /\ p.tab # t /\ p \in Posts
        BY <3>3 DEF Replaces
      <4>2. p.tab \in Tab \ {t}
        BY <3>3, <4>1 DEF Posts
      <4>. QED
        BY <1>2, <3>3, <4>1, <4>2 DEF IInv, Wired
    <3>. QED
      BY <3>2, <3>3
  <2>2. ASSUME NEW p \in wire', NEW q \in wire', p.tab = q.tab, p.tab # None PROVE p = q
    BY <2>2 DEF Replaces, IInv, Wired
  <2>. QED
    BY <2>1, <2>2 DEF Wired
<1>. QED
  BY <1>2, <1>3, <1>4, <1>5

\* sync: what is captured is what the device holds.
LEMMA Begun ==
  ASSUME IInv, NEW o \in Account
  PROVE  /\ Begin(o) \in Migration \cup {NoSync} /\ OnePer(Begin(o).payload) /\ Begin(o).step # "confirmed"
         /\ Begin(o) # NoSync => Begin(o).owner = o
BY TypeParts DEF IInv, DeviceOK, Begin, Migration, NoSync, OnePer

LEMMA Ended == NoSync \in Migration \cup {NoSync} /\ OnePer(NoSync.payload) /\ NoSync.step # "confirmed"
BY DEF NoSync, OnePer

\* A tab without a post under way has nothing on the wire.
LEMMA NothingOut ==
  ASSUME IInv, NEW t \in Tab, NEW s, sync[t].step # "posted", sync' = [sync EXCEPT ![t] = s], UNCHANGED wire
  PROVE  Replaces(t, s)
BY TypeParts, Names DEF IInv, Wired, WireOK, Replaces

LEMMA SeeStep ==
  ASSUME IInv, NEW t \in Tab, NEW o \in Account \cup {Guest, Loading}, See(t, o)
  PROVE  IInv'
<1>. DEFINE s == IF o \in Account THEN Begin(o) ELSE NoSync
<1>1. shown' = [shown EXCEPT ![t] = o] /\ error' = error \ {t} /\ UNCHANGED <<device, clock, cookie, copies, owed>>
  BY DEF See
<1>2. Replaces(t, s)
  BY Orphans, TypeParts DEF IInv, See, Replaces
<1>3. /\ s \in Migration \cup {NoSync} /\ OnePer(s.payload) /\ s.step # "confirmed"
      /\ s # NoSync => s.owner = o
  BY Begun, Ended
<1>. HIDE DEF s
<1>4. SyncOK' /\ WireOK' /\ Synced' /\ Wired' /\ sync'[t] = s /\ \A v \in Tab \ {t} : sync'[v] = sync[v]
  BY <1>1, <1>2, <1>3, SyncReplaced
<1>5. ShownOK' /\ shown'[t] = o /\ \A v \in Tab \ {t} : shown'[v] = shown[v]
  BY <1>1, TypeParts DEF IInv, ShownOK
<1>6. OwnOK'
  BY <1>3, <1>4, <1>5, TypeParts DEF IInv, OwnOK
<1>7. TypeOK'
  BY <1>1, <1>4, <1>5, <1>6, TypeParts DEF IInv, DeviceOK, CopiesOK
<1>8. OnePer(device)' /\ NoDuplicates' /\ NothingLost'
  BY <1>1 DEF IInv, OnePer, NoDuplicates, NothingLost, Held
<1>. QED
  BY <1>4, <1>7, <1>8 DEF IInv

LEMMA RetryStep ==
  ASSUME IInv, NEW t \in Tab, Retry(t)
  PROVE  IInv'
<1>. DEFINE s == Begin(shown[t])
<1>1. /\ sync[t] = NoSync /\ shown[t] \in Account /\ sync' = [sync EXCEPT ![t] = s] /\ error' = error \ {t}
      /\ UNCHANGED <<device, clock, cookie, shown, wire, copies, owed>>
  BY DEF Retry
<1>2. /\ s \in Migration \cup {NoSync} /\ OnePer(s.payload) /\ s.step # "confirmed"
      /\ s # NoSync => s.owner = shown[t]
  BY <1>1, Begun
<1>. HIDE DEF s
<1>3. Replaces(t, s)
  <2>1. sync[t].step # "posted"
    BY <1>1 DEF NoSync
  <2>. QED
    BY <1>1, <2>1, NothingOut
<1>4. SyncOK' /\ WireOK' /\ Synced' /\ Wired' /\ sync'[t] = s /\ \A v \in Tab \ {t} : sync'[v] = sync[v]
  BY <1>1, <1>2, <1>3, SyncReplaced
<1>5. OwnOK'
  BY <1>1, <1>2, <1>4, TypeParts DEF IInv, OwnOK
<1>6. TypeOK'
  BY <1>1, <1>4, <1>5, TypeParts DEF IInv, DeviceOK, ShownOK, CopiesOK
<1>7. OnePer(device)' /\ NoDuplicates' /\ NothingLost'
  BY <1>1 DEF IInv, OnePer, NoDuplicates, NothingLost, Held
<1>. QED
  BY <1>4, <1>6, <1>7 DEF IInv

\* A sync is over: the tab, its error and the device may change as they do then.
LEMMA EndStep ==
  ASSUME IInv, NEW t \in Tab, Replaces(t, NoSync), ShownOK', UNCHANGED <<clock, copies, owed>>,
         \A v \in Tab \ {t} : shown'[v] = shown[v],
         device' \subseteq device, \A i \in device \ device' : SomeHas(i)
  PROVE  IInv'
<1>1. SyncOK' /\ WireOK' /\ Synced' /\ Wired' /\ sync'[t] = NoSync /\ \A v \in Tab \ {t} : sync'[v] = sync[v]
  BY Ended, SyncReplaced
<1>2. OwnOK'
  BY <1>1, TypeParts DEF IInv, OwnOK
<1>3. TypeOK'
  BY <1>1, <1>2, TypeParts DEF IInv, DeviceOK, CopiesOK
<1>4. OnePer(device)' /\ NoDuplicates'
  BY DEF IInv, OnePer, NoDuplicates
<1>5. NothingLost'
  BY DEF IInv, NothingLost, SomeHas, Held
<1>. QED
  BY <1>1, <1>3, <1>4, <1>5 DEF IInv

LEMMA FailStep ==
  ASSUME IInv, NEW t \in Tab, Fail(t)
  PROVE  IInv'
<1>1. UNCHANGED <<device, clock, cookie, shown, copies, owed>> /\ error' = error \cup {t}
  BY DEF Fail
<1>2. Replaces(t, NoSync)
  BY Orphans, TypeParts DEF IInv, Fail, Replaces
<1>3. ShownOK'
  BY <1>1, TypeParts DEF IInv, ShownOK
<1>. QED
  BY <1>1, <1>2, <1>3, EndStep

LEMMA CloseStep ==
  ASSUME IInv, NEW t \in Tab, Close(t)
  PROVE  IInv'
<1>1. UNCHANGED <<device, clock, cookie, copies, owed>> /\ shown' = [shown EXCEPT ![t] = Closed] /\ error' = error \ {t}
  BY DEF Close
<1>2. Replaces(t, NoSync)
  BY Orphans, TypeParts DEF IInv, Close, Replaces
<1>3. ShownOK' /\ \A v \in Tab \ {t} : shown'[v] = shown[v]
  BY <1>1, TypeParts DEF IInv, ShownOK
<1>. QED
  BY <1>1, <1>2, <1>3, EndStep

LEMMA FinishStep ==
  ASSUME IInv, NEW t \in Tab, Finish(t)
  PROVE  IInv'
<1>1. /\ sync[t].step = "confirmed" /\ ClearConfirmed(t) /\ sync' = [sync EXCEPT ![t] = NoSync]
      /\ UNCHANGED <<clock, cookie, shown, wire, copies, owed>>
  BY DEF Finish
<1>2. Replaces(t, NoSync)
  BY <1>1, NothingOut
<1>3. device' \subseteq device /\ \A i \in device \ device' : SomeHas(i)
  BY <1>1 DEF IInv, Synced, ClearConfirmed
<1>4. ShownOK'
  BY <1>1, TypeParts DEF IInv, ShownOK, ClearConfirmed
<1>. QED
  BY <1>1, <1>2, <1>3, <1>4, EndStep

LEMMA CloseClearingStep ==
  ASSUME IInv, NEW t \in Tab, CloseClearing(t)
  PROVE  IInv'
<1>1. /\ sync[t].step = "confirmed" /\ device = sync[t].payload /\ device' = {i \in device : i.kind = "favourite"}
      /\ sync' = [sync EXCEPT ![t] = NoSync] /\ shown' = [shown EXCEPT ![t] = Closed]
      /\ UNCHANGED <<clock, cookie, error, wire, copies, owed>>
  BY DEF CloseClearing
<1>2. Replaces(t, NoSync)
  BY <1>1, NothingOut
<1>3. device' \subseteq device /\ \A i \in device \ device' : SomeHas(i)
  BY <1>1 DEF IInv, Synced
<1>4. ShownOK' /\ \A v \in Tab \ {t} : shown'[v] = shown[v]
  BY <1>1, TypeParts DEF IInv, ShownOK
<1>. QED
  BY <1>1, <1>2, <1>3, <1>4, EndStep

LEMMA PostStep ==
  ASSUME IInv, NEW t \in Tab, Post(t)
  PROVE  IInv'
<1>. DEFINE p == [tab |-> t, account |-> cookie, payload |-> sync[t].payload]
<1>1. /\ sync[t].step = "token" /\ cookie \in Account /\ sync' = [sync EXCEPT ![t].step = "posted"]
      /\ wire' = wire \cup {p}
      /\ UNCHANGED <<device, clock, cookie, shown, error, copies, owed>>
  BY DEF Post
<1>2. sync[t] \in Migration
  BY <1>1, TypeParts DEF IInv, SyncOK, NoSync
<1>3. sync'[t] = [owner |-> sync[t].owner, payload |-> sync[t].payload, step |-> "posted"] /\ \A v \in Tab \ {t} : sync'[v] = sync[v]
  BY <1>1, <1>2, TypeParts DEF IInv, SyncOK, Migration
<1>4. p \in Posts /\ p.tab = t /\ p.payload = sync[t].payload /\ OnePer(p.payload)
  BY <1>1, <1>2 DEF Posts, Migration, IInv, Synced
<1>. HIDE DEF p
<1>5. SyncOK'
  <2>1. sync'[t] \in Migration
    BY <1>2, <1>3 DEF Migration
  <2>2. sync' = [v \in Tab |-> sync'[v]]
    BY <1>1, TypeParts DEF IInv, SyncOK
  <2>3. \A v \in Tab : sync'[v] \in Migration \cup {NoSync}
    BY <1>3, <2>1, TypeParts DEF IInv, SyncOK
  <2>. QED
    BY <2>2, <2>3 DEF SyncOK
<1>6. WireOK' /\ OwnOK'
  <2>1. WireOK'
    BY <1>1, <1>4, TypeParts DEF IInv, WireOK
  <2>2. sync[t].owner = shown[t]
    BY <1>2, Names, TypeParts DEF IInv, OwnOK
  <2>3. OwnOK'
    BY <1>1, <1>3, <2>2, TypeParts DEF IInv, OwnOK
  <2>. QED
    BY <2>1, <2>3
<1>7. TypeOK'
  BY <1>1, <1>5, <1>6, TypeParts DEF IInv, DeviceOK, ShownOK, CopiesOK
<1>8. Synced'
  <2>1. ASSUME NEW v \in Tab
        PROVE  OnePer(sync'[v].payload) /\ (sync'[v].step = "confirmed" => \A i \in sync'[v].payload : SomeHas(i)')
    <3>1. CASE v = t
      BY <1>3, <1>4, <3>1
    <3>2. CASE v # t
      BY <1>1, <1>3, <3>2 DEF IInv, Synced, SomeHas, Held
    <3>. QED
      BY <3>1, <3>2
  <2>. QED
    BY <2>1 DEF Synced, OnePer
<1>9. \A q \in wire : q.tab # t
  BY <1>1, Names DEF IInv, Wired
<1>10. Wired'
  <2>1. ASSUME NEW q \in wire'
        PROVE  OnePer(q.payload) /\ (q.tab # None => sync'[q.tab].step = "posted" /\ sync'[q.tab].payload = q.payload)
    <3>1. CASE q = p
      BY <1>3, <1>4, <3>1
    <3>2. CASE q # p
      <4>1. q \in wire /\ q.tab # t /\ q.tab \in Tab \cup {None}
        BY <1>1, <1>9, <3>2, TypeParts DEF IInv, WireOK, Posts
      <4>. QED
        BY <1>3, <4>1 DEF IInv, Wired
    <3>. QED
      BY <3>1, <3>2
  <2>2. ASSUME NEW q \in wire', NEW r \in wire', q.tab = r.tab, q.tab # None PROVE q = r
    BY <1>1, <1>4, <1>9, <2>2 DEF IInv, Wired
  <2>. QED
    BY <2>1, <2>2 DEF Wired
<1>11. OnePer(device)' /\ NoDuplicates' /\ NothingLost'
  BY <1>1 DEF IInv, OnePer, NoDuplicates, NothingLost, Held
<1>. QED
  BY <1>7, <1>8, <1>10, <1>11 DEF IInv

--------------------------------------------------------------------------------
(* The guest, the browser and the server *)

\* A step that leaves syncs, posts and accounts alone.
LEMMA DeviceStep ==
  ASSUME IInv, DeviceOK', ShownOK', OnePer(device)', UNCHANGED <<sync, wire, copies>>, OwnOK',
         \A i \in owed' : i \in device' \/ SomeHas(i)
  PROVE  IInv'
<1>1. TypeOK'
  BY TypeParts DEF IInv, SyncOK, WireOK, CopiesOK
<1>2. Synced' /\ Wired' /\ NoDuplicates'
  BY DEF IInv, Synced, Wired, NoDuplicates, OnePer, SomeHas, Held
<1>3. NothingLost'
  BY DEF NothingLost, SomeHas, Held
<1>. QED
  BY <1>1, <1>2, <1>3 DEF IInv

LEMMA RecordScanStep ==
  ASSUME IInv, NEW b \in Barcode, RecordScan(b)
  PROVE  IInv'
<1>. DEFINE n == [kind |-> "scan", barcode |-> b, at |-> clock + 1]
<1>1. /\ clock < MaxAt /\ clock' = clock + 1
      /\ device' = (device \ Same(n)) \cup {n} /\ owed' = (owed \ Same(n)) \cup {n}
      /\ UNCHANGED <<cookie, shown, sync, error, wire, copies>>
  BY DEF RecordScan
<1>2. clock' \in 0..MaxAt /\ n \in Item /\ n.kind = "scan"
  BY <1>1, TypeParts DEF IInv, DeviceOK, Item
<1>. HIDE DEF n
<1>3. DeviceOK' /\ ShownOK' /\ OwnOK'
  BY <1>1, <1>2, TypeParts DEF IInv, DeviceOK, ShownOK, OwnOK
<1>4. OnePer(device)'
  BY <1>1, <1>2 DEF IInv, OnePer
<1>5. \A i \in owed' : i \in device' \/ SomeHas(i)
  BY <1>1 DEF IInv, NothingLost, SomeHas
<1>. QED
  BY <1>1, <1>3, <1>4, <1>5, DeviceStep

LEMMA ToggleFavouriteStep ==
  ASSUME IInv, NEW b \in Barcode, ToggleFavourite(b)
  PROVE  IInv'
<1>. DEFINE n == [kind |-> "favourite", barcode |-> b, at |-> clock + 1]
<1>1. /\ clock < MaxAt /\ clock' = clock + 1
      /\ device' = IF Same(n) = {} THEN device \cup {n} ELSE device \ Same(n)
      /\ owed' = IF Same(n) = {} THEN owed \cup {n} ELSE owed \ Same(n)
      /\ UNCHANGED <<cookie, shown, sync, error, wire, copies>>
  BY DEF ToggleFavourite
<1>2. clock' \in 0..MaxAt /\ n \in Item /\ n.kind = "favourite"
  BY <1>1, TypeParts DEF IInv, DeviceOK, Item
<1>. HIDE DEF n
<1>3. DeviceOK' /\ ShownOK' /\ OwnOK'
  BY <1>1, <1>2, TypeParts DEF IInv, DeviceOK, ShownOK, OwnOK
<1>4. OnePer(device)'
  <2>1. CASE Same(n) = {}
    <3>1. \A i \in device : ~(i.kind = "favourite" /\ i.barcode = n.barcode)
      BY <1>2, <2>1 DEF Same
    <3>. QED
      BY <1>1, <2>1, <3>1 DEF IInv, OnePer
  <2>2. CASE Same(n) # {}
    BY <1>1, <2>2 DEF IInv, OnePer
  <2>. QED
    BY <2>1, <2>2
<1>5. \A i \in owed' : i \in device' \/ SomeHas(i)
  BY <1>1 DEF IInv, NothingLost, SomeHas
<1>. QED
  BY <1>1, <1>3, <1>4, <1>5, DeviceStep

LEMMA OpenStep ==
  ASSUME IInv, NEW t \in Tab, Open(t)
  PROVE  IInv'
<1>1. /\ shown[t] = Closed /\ shown' = [shown EXCEPT ![t] = Loading]
      /\ UNCHANGED <<device, clock, cookie, sync, error, wire, copies, owed>>
  BY DEF Open
<1>2. DeviceOK' /\ ShownOK' /\ OnePer(device)'
  BY <1>1, TypeParts DEF IInv, DeviceOK, ShownOK, OnePer
<1>3. sync[t] = NoSync
  BY <1>1, TypeParts DEF IInv, OwnOK, SyncOK, Migration
<1>4. OwnOK'
  BY <1>1, <1>3, TypeParts DEF IInv, OwnOK, ShownOK
<1>5. \A i \in owed' : i \in device' \/ SomeHas(i)
  BY <1>1 DEF IInv, NothingLost, SomeHas
<1>. QED
  BY <1>1, <1>2, <1>4, <1>5, DeviceStep

LEMMA SwitchAccountStep ==
  ASSUME IInv, NEW o \in Account \cup {Guest}, SwitchAccount(o)
  PROVE  IInv'
<1>1. cookie' = o /\ UNCHANGED <<device, clock, shown, sync, error, wire, copies, owed>>
  BY DEF SwitchAccount
<1>2. DeviceOK' /\ ShownOK' /\ OwnOK' /\ OnePer(device)'
  BY <1>1, TypeParts DEF IInv, DeviceOK, ShownOK, OwnOK, OnePer
<1>3. \A i \in owed' : i \in device' \/ SomeHas(i)
  BY <1>1 DEF IInv, NothingLost, SomeHas
<1>. QED
  BY <1>1, <1>2, <1>3, DeviceStep

LEMMA DropStep ==
  ASSUME IInv, NEW p \in wire, Drop(p)
  PROVE  IInv'
<1>1. wire' = wire \ {p} /\ UNCHANGED <<device, clock, cookie, shown, sync, error, copies, owed>>
  BY DEF Drop
<1>2. TypeOK'
  BY <1>1, TypeParts DEF IInv, DeviceOK, ShownOK, SyncOK, WireOK, CopiesOK, OwnOK
<1>3. OnePer(device)' /\ NoDuplicates' /\ NothingLost'
  BY <1>1 DEF IInv, OnePer, NoDuplicates, NothingLost, Held
<1>4. Synced'
  BY <1>1 DEF IInv, Synced, OnePer, SomeHas, Held
<1>5. Wired'
  BY <1>1 DEF IInv, Wired, OnePer
<1>. QED
  BY <1>2, <1>3, <1>4, <1>5 DEF IInv

HasIn(rows, i) ==
  IF i.kind = "scan" THEN rows[i] > 0
  ELSE \E j \in Item : j.kind = "favourite" /\ j.barcode = i.barcode /\ rows[j] > 0

SingleIn(rows) ==
  \A i, j \in Item :
    /\ rows[i] <= 1
    /\ i.kind = "favourite" /\ j.kind = "favourite" /\ i.barcode = j.barcode /\ rows[i] > 0 /\ rows[j] > 0 => i = j

\* migrateGuestData keeps what the account had, adds what was posted, and adds
\* nothing twice.
LEMMA MigratedRows ==
  ASSUME NEW rows \in [Item -> Nat], NEW payload \in SUBSET Item, OnePer(payload), SingleIn(rows)
  PROVE  LET after == Migrated(rows, payload) IN
         /\ after \in [Item -> Nat]
         /\ SingleIn(after)
         /\ \A i \in Item : HasIn(rows, i) \/ i \in payload => HasIn(after, i)
<1>. DEFINE after == Migrated(rows, payload)
            newest(i) == {j \in payload : j.kind = "favourite" /\ j.barcode = i.barcode}
<1>0. \A i \in Item : i.kind \in {"scan", "favourite"}
  BY DEF Item
<1>1. ASSUME NEW i \in Item, i.kind = "scan"
      PROVE  after[i] = IF i \in payload /\ rows[i] = 0 THEN 1 ELSE rows[i]
  BY <1>1 DEF Migrated
<1>2. ASSUME NEW i \in Item, i.kind = "favourite"
      PROVE  after[i] = IF newest(i) = {} THEN rows[i] ELSE IF i \in payload THEN 1 ELSE 0
  BY <1>2 DEF Migrated
<1>3. after \in [Item -> Nat]
  BY DEF Migrated
<1>. HIDE DEF after
<1>4. SingleIn(after)
  <2>1. ASSUME NEW i \in Item PROVE after[i] <= 1
    BY <1>0, <1>1, <1>2 DEF SingleIn
  <2>2. ASSUME NEW i \in Item, NEW j \in Item, i.kind = "favourite", j.kind = "favourite", i.barcode = j.barcode,
               after[i] > 0, after[j] > 0
        PROVE  i = j
    <3>1. newest(i) = newest(j)
      BY <2>2
    <3>2. CASE newest(i) = {}
      <4>1. after[i] = rows[i] /\ after[j] = rows[j]
        BY <1>2, <2>2, <3>1, <3>2
      <4>. QED
        BY <2>2, <4>1 DEF SingleIn
    <3>3. CASE newest(i) # {}
      <4>1. i \in payload /\ j \in payload
        BY <1>2, <2>2, <3>1, <3>3
      <4>. QED
        BY <2>2, <4>1 DEF OnePer
    <3>. QED
      BY <3>2, <3>3
  <2>. QED
    BY <2>1, <2>2 DEF SingleIn
<1>5. ASSUME NEW i \in Item, HasIn(rows, i) \/ i \in payload PROVE HasIn(after, i)
  <2>1. CASE i.kind = "scan"
    <3>1. rows[i] \in Nat
      OBVIOUS
    <3>. QED
      BY <1>1, <1>5, <2>1, <3>1 DEF HasIn
  <2>2. CASE i.kind = "favourite"
    <3>1. CASE newest(i) = {}
      <4>1. i \notin payload
        BY <2>2, <3>1
      <4>2. PICK j \in Item : j.kind = "favourite" /\ j.barcode = i.barcode /\ rows[j] > 0
        BY <1>5, <2>2, <4>1 DEF HasIn
      <4>3. after[j] = rows[j]
        BY <1>2, <3>1, <4>2
      <4>. QED
        BY <2>2, <4>2, <4>3 DEF HasIn
    <3>2. CASE newest(i) # {}
      <4>1. PICK j \in payload : j.kind = "favourite" /\ j.barcode = i.barcode
        BY <3>2
      <4>2. j \in Item /\ j \in newest(j)
        BY <4>1
      <4>3. after[j] = 1
        BY <1>2, <4>1, <4>2
      <4>. QED
        BY <2>2, <4>1, <4>2, <4>3 DEF HasIn
    <3>. QED
      BY <3>1, <3>2
  <2>. QED
    BY <1>0, <2>1, <2>2
<1>. QED
  BY <1>3, <1>4, <1>5 DEF after

LEMMA DeliverStep ==
  ASSUME IInv, NEW p \in wire, Deliver(p)
  PROVE  IInv'
<1>. DEFINE a == p.account
<1>1. /\ wire' = wire \ {p} /\ copies' = [copies EXCEPT ![a] = Migrated(copies[a], p.payload)] /\ sync' = Confirm(p)
      /\ UNCHANGED <<device, clock, cookie, shown, error, owed>>
  BY DEF Deliver
<1>2. p \in Posts /\ a \in Account /\ p.payload \in SUBSET Item /\ p.tab \in Tab \cup {None} /\ OnePer(p.payload)
  BY TypeParts DEF IInv, WireOK, Posts, Wired
<1>3. \A c \in Account : copies[c] \in [Item -> Nat] /\ SingleIn(copies[c])
  BY TypeParts DEF IInv, CopiesOK, NoDuplicates, SingleIn
<1>4. /\ \A c \in Account : copies'[c] \in [Item -> Nat] /\ SingleIn(copies'[c])
      /\ \A c \in Account, i \in Item : HasIn(copies[c], i) => HasIn(copies'[c], i)
      /\ \A i \in p.payload : HasIn(copies'[a], i)
  <2>1. copies'[a] = Migrated(copies[a], p.payload) /\ \A c \in Account \ {a} : copies'[c] = copies[c]
    BY <1>1, <1>2, TypeParts DEF IInv, CopiesOK
  <2>2. /\ copies'[a] \in [Item -> Nat] /\ SingleIn(copies'[a])
        /\ \A i \in Item : HasIn(copies[a], i) \/ i \in p.payload => HasIn(copies'[a], i)
    BY <1>2, <1>3, <2>1, MigratedRows
  <2>. QED
    BY <1>2, <1>3, <2>1, <2>2
<1>5. CopiesOK'
  <2>1. copies' = [c \in Account |-> copies'[c]]
    BY <1>1, TypeParts DEF IInv, CopiesOK
  <2>. QED
    BY <1>4, <2>1 DEF CopiesOK
<1>6. \A c \in Account, i \in Item : (Held(c, i) <=> HasIn(copies[c], i)) /\ (Held(c, i)' <=> HasIn(copies'[c], i))
  BY DEF Held, HasIn
<1>7. (\A i \in Item : SomeHas(i) => SomeHas(i)') /\ \A i \in p.payload : SomeHas(i)'
  BY <1>2, <1>4, <1>6 DEF SomeHas
<1>8. /\ \A v \in Tab : sync'[v].payload = sync[v].payload /\ sync'[v].owner = sync[v].owner
      /\ \A v \in Tab : v # p.tab => sync'[v] = sync[v]
      /\ p.tab # None => sync'[p.tab].step = "confirmed" /\ sync[p.tab].step = "posted" /\ sync[p.tab].payload = p.payload
      /\ SyncOK'
      /\ \A v \in Tab : sync'[v] # NoSync => sync[v] # NoSync
  <2>1. CASE p.tab = None
    <3>1. sync' = sync
      BY <1>1, <2>1 DEF Confirm
    <3>. QED
      BY <2>1, <3>1, TypeParts DEF IInv, SyncOK
  <2>2. CASE p.tab # None
    <3>. DEFINE t == p.tab
    <3>1. t \in Tab /\ sync' = [sync EXCEPT ![t].step = "confirmed"] /\ sync[t].step = "posted" /\ sync[t].payload = p.payload
      BY <1>1, <1>2, <2>2 DEF Confirm, IInv, Wired
    <3>. HIDE DEF t
    <3>2. sync[t] \in Migration
      BY <3>1, TypeParts DEF IInv, SyncOK, NoSync
    <3>3. /\ sync'[t] = [owner |-> sync[t].owner, payload |-> sync[t].payload, step |-> "confirmed"]
          /\ \A v \in Tab \ {t} : sync'[v] = sync[v]
      BY <3>1, <3>2, TypeParts DEF IInv, SyncOK, Migration
    <3>4. sync'[t] \in Migration
      BY <3>2, <3>3 DEF Migration
    <3>5. SyncOK'
      <4>1. sync' = [v \in Tab |-> sync'[v]]
        BY <3>1, TypeParts DEF IInv, SyncOK
      <4>2. \A v \in Tab : sync'[v] \in Migration \cup {NoSync}
        BY <3>3, <3>4, TypeParts DEF IInv, SyncOK
      <4>. QED
        BY <4>1, <4>2 DEF SyncOK
    <3>6. sync[t] # NoSync
      BY <3>2, Names
    <3>7. sync'[t].step = "confirmed" /\ sync'[t].owner = sync[t].owner /\ sync'[t].payload = sync[t].payload
      BY <3>3
    <3>. QED
      BY <3>1, <3>3, <3>5, <3>6, <3>7 DEF t
  <2>. QED
    BY <2>1, <2>2
<1>9. TypeOK'
  <2>1. WireOK'
    BY <1>1, TypeParts DEF IInv, WireOK
  <2>2. OwnOK'
    BY <1>1, <1>8, TypeParts DEF IInv, OwnOK
  <2>. QED
    BY <1>1, <1>5, <1>8, <2>1, <2>2, TypeParts DEF IInv, DeviceOK, ShownOK
<1>10. Synced'
  <2>1. ASSUME NEW v \in Tab
        PROVE  OnePer(sync'[v].payload) /\ (sync'[v].step = "confirmed" => \A i \in sync'[v].payload : SomeHas(i)')
    <3>1. OnePer(sync'[v].payload)
      BY <1>8 DEF IInv, Synced
    <3>2. sync[v].payload \subseteq Item
      BY TypeParts DEF IInv, SyncOK, Migration, NoSync
    <3>3. CASE v = p.tab
      BY <1>2, <1>7, <1>8, <3>1, <3>3, Names
    <3>4. CASE v # p.tab
      BY <1>7, <1>8, <3>1, <3>2, <3>4 DEF IInv, Synced
    <3>. QED
      BY <3>3, <3>4
  <2>. QED
    BY <2>1 DEF Synced, OnePer
<1>11. Wired'
  <2>1. ASSUME NEW q \in wire'
        PROVE  OnePer(q.payload) /\ (q.tab # None => sync'[q.tab].step = "posted" /\ sync'[q.tab].payload = q.payload)
    <3>1. q \in wire /\ q # p /\ q.tab \in Tab \cup {None}
      BY <1>1, TypeParts DEF IInv, WireOK, Posts
    <3>2. q.tab # None => q.tab # p.tab
      BY <3>1 DEF IInv, Wired
    <3>. QED
      BY <1>8, <3>1, <3>2 DEF IInv, Wired
  <2>2. ASSUME NEW q \in wire', NEW r \in wire', q.tab = r.tab, q.tab # None PROVE q = r
    BY <1>1, <2>2 DEF IInv, Wired
  <2>. QED
    BY <2>1, <2>2 DEF Wired
<1>12. NoDuplicates'
  BY <1>4 DEF NoDuplicates, SingleIn
<1>13. NothingLost'
  <2>1. \A i \in owed : i \in Item /\ (i \in device \/ SomeHas(i))
    BY TypeParts DEF IInv, DeviceOK, NothingLost, SomeHas
  <2>. QED
    BY <1>1, <1>7, <2>1 DEF NothingLost, SomeHas
<1>14. OnePer(device)'
  BY <1>1 DEF IInv, OnePer
<1>. QED
  BY <1>9, <1>10, <1>11, <1>12, <1>13, <1>14 DEF IInv

LEMMA NextIInv == IInv /\ [Next]_vars => IInv'
<1>. SUFFICES ASSUME IInv, [Next]_vars PROVE IInv'
  OBVIOUS
<1>1. CASE UNCHANGED vars
  <2>1. TypeOK'
    BY <1>1, TypeParts DEF IInv, DeviceOK, ShownOK, SyncOK, WireOK, CopiesOK, OwnOK, vars
  <2>2. OnePer(device)' /\ NoDuplicates' /\ NothingLost'
    BY <1>1 DEF IInv, OnePer, NoDuplicates, NothingLost, Held, vars
  <2>3. Synced' /\ Wired'
    BY <1>1 DEF IInv, Synced, Wired, OnePer, SomeHas, Held, vars
  <2>. QED
    BY <2>1, <2>2, <2>3 DEF IInv
<1>2. ASSUME NEW b \in Barcode, RecordScan(b) \/ ToggleFavourite(b) PROVE IInv'
  BY <1>2, RecordScanStep, ToggleFavouriteStep
<1>3. ASSUME NEW t \in Tab, Retry(t) \/ Close(t) \/ CloseClearing(t) \/ Open(t) PROVE IInv'
  BY <1>3, RetryStep, CloseStep, CloseClearingStep, OpenStep
<1>4. ASSUME NEW t \in Tab, NEW o \in Account \cup {Guest, Loading}, See(t, o) PROVE IInv'
  BY <1>4, SeeStep
<1>5. ASSUME NEW o \in Account \cup {Guest}, SwitchAccount(o) PROVE IInv'
  BY <1>5, SwitchAccountStep
<1>6. ASSUME NEW t \in Tab, Steps(t) PROVE IInv'
  BY <1>6, PostStep, FailStep, FinishStep DEF Steps
<1>7. ASSUME NEW p \in wire, Deliver(p) \/ Drop(p) PROVE IInv'
  BY <1>7, DeliverStep, DropStep
<1>. QED
  BY <1>1, <1>2, <1>3, <1>4, <1>5, <1>6, <1>7 DEF Next, User

LEMMA Invariant == Spec => []IInv
BY InitIInv, NextIInv, PTL DEF Spec

--------------------------------------------------------------------------------
(* Theorems *)

\* Every variable keeps its type, and a sync is the one of the account its tab
\* shows.
THEOREM TypeCorrect == Spec => []TypeOK
<1>1. IInv => TypeOK
  BY DEF IInv
<1>. QED
  BY <1>1, Invariant, PTL

\* What a guest still wants is on the device or in an account, however many
\* tabs, accounts and late posts there are: guest-data-sync.tsx clears the
\* device only when the server has confirmed all that it holds.
THEOREM GuestsLoseNothing == Spec => []NothingLost
<1>1. IInv => NothingLost
  BY DEF IInv
<1>. QED
  BY <1>1, Invariant, PTL

\* However often an item is posted, an account has it once: migrateGuestData of
\* src/db.js.
THEOREM ItemsMigrateOnce == Spec => []NoDuplicates
<1>1. IInv => NoDuplicates
  BY DEF IInv
<1>. QED
  BY <1>1, Invariant, PTL

\* What a guest did is kept, once: guest-data-sync.tsx and migrateGuestData.
THEOREM GuestDataStays == Spec => []GuestDataIsKept
BY TypeCorrect, GuestsLoseNothing, ItemsMigrateOnce, PTL DEF GuestDataIsKept

--------------------------------------------------------------------------------
(* The scans of the queue. *)

\* The candidate's owner is the first, unless the user asked.
CandidateIsFirst ==
  \A i \in Barcode : candidate[i] # None /\ i \notin retried => candidate[i] = first[i]

\* So is the owner of a save.
SavesAreOwned ==
  \A i \in Barcode : saving[i] = Scans!NoSave \/
    /\ saving[i].owner \in Account /\ saving[i].step # "none"
    /\ i \in scanned
    /\ saving[i].owner = first[i] \/ i \in retried

\* What is not scanned yet is nowhere, so that a scan may set its first owner.
EverythingScanned ==
  /\ \A i \in Barcode : row[i] # "absent" \/ stored.row[i] # "absent" => i \in scanned
  /\ \A w \in scanWire \cup history : w[1] \in scanned

ClosedIsEmpty == ~alive => scanShown = Loading /\ \A i \in Barcode : candidate[i] = None /\ saving[i] = Scans!NoSave

ScansInv ==
  /\ Scans!TypeOK /\ CandidateIsFirst /\ SavesAreOwned /\ EverythingScanned /\ ClosedIsEmpty
  /\ Scans!SavedForFirstOwner /\ Scans!RecordedIsInHistory

USE DEF Scans!Assumptions, Scans!Owner, Scans!NoSave, Scans!Empty, Scans!Rows, Scans!rowVars, Scans!saveVars

LEMMA ScanAddKeeps ==
  ASSUME Scans!Assumptions, ScansInv, NEW i \in Barcode, Scans!Add(i)
  PROVE  ScansInv'
<1>1. Scans!TypeOK'
  BY DEF ScansInv, Scans!TypeOK, Scans!Add
<1>2. CandidateIsFirst' /\ ClosedIsEmpty'
  BY DEF ScansInv, Scans!TypeOK, CandidateIsFirst, ClosedIsEmpty, Scans!Add
<1>3. SavesAreOwned' /\ EverythingScanned'
  BY DEF ScansInv, SavesAreOwned, EverythingScanned, Scans!Add
<1>4. Scans!SavedForFirstOwner'
  <2> SUFFICES ASSUME NEW w \in (scanWire \cup history)' PROVE w[2] = first'[w[1]] \/ w[1] \in retried'
    BY DEF Scans!SavedForFirstOwner
  <2>1. CASE w \in scanWire \cup history
    <3>1. w[1] \in scanned /\ w[1] \in Barcode /\ (w[2] = first[w[1]] \/ w[1] \in retried)
      BY <2>1 DEF ScansInv, Scans!TypeOK, EverythingScanned, Scans!SavedForFirstOwner
    <3> QED
      BY <3>1 DEF Scans!Add
  <2>2. CASE w \notin scanWire \cup history
    BY <2>2 DEF Scans!Add
  <2> QED
    BY <2>1, <2>2
<1>5. Scans!RecordedIsInHistory'
  BY DEF ScansInv, Scans!RecordedIsInHistory, Scans!Add
<1> QED
  BY <1>1, <1>2, <1>3, <1>4, <1>5 DEF ScansInv

LEMMA ScanComparedKeeps ==
  ASSUME Scans!Assumptions, ScansInv, NEW i \in Barcode, Scans!Compared(i)
  PROVE  ScansInv'
<1>1. Scans!TypeOK'
  BY DEF ScansInv, Scans!TypeOK, Scans!Compared
<1>2. CandidateIsFirst' /\ ClosedIsEmpty'
  BY DEF ScansInv, CandidateIsFirst, ClosedIsEmpty, Scans!Compared
<1>3. SavesAreOwned' /\ EverythingScanned'
  BY DEF ScansInv, SavesAreOwned, EverythingScanned, Scans!Compared
<1>4. Scans!SavedForFirstOwner' /\ Scans!RecordedIsInHistory'
  BY DEF ScansInv, Scans!SavedForFirstOwner, Scans!RecordedIsInHistory, Scans!Compared
<1> QED
  BY <1>1, <1>2, <1>3, <1>4 DEF ScansInv

LEMMA ScanRetryHistoryKeeps ==
  ASSUME Scans!Assumptions, ScansInv, NEW i \in Barcode, Scans!RetryHistory(i)
  PROVE  ScansInv'
<1>1. Scans!TypeOK'
  BY DEF ScansInv, Scans!TypeOK, Scans!RetryHistory
<1>2. CandidateIsFirst' /\ ClosedIsEmpty'
  BY DEF ScansInv, CandidateIsFirst, ClosedIsEmpty, Scans!RetryHistory
<1>3. SavesAreOwned' /\ EverythingScanned'
  BY DEF ScansInv, SavesAreOwned, EverythingScanned, Scans!RetryHistory
<1>4. Scans!SavedForFirstOwner' /\ Scans!RecordedIsInHistory'
  BY DEF ScansInv, Scans!SavedForFirstOwner, Scans!RecordedIsInHistory, Scans!RetryHistory
<1> QED
  BY <1>1, <1>2, <1>3, <1>4 DEF ScansInv

LEMMA ScanStartSaveKeeps ==
  ASSUME Scans!Assumptions, ScansInv, NEW i \in Barcode, Scans!StartSave(i)
  PROVE  ScansInv'
<1>1. Scans!TypeOK'
  BY DEF ScansInv, Scans!TypeOK, Scans!StartSave
<1>2. CandidateIsFirst' /\ ClosedIsEmpty'
  BY DEF ScansInv, CandidateIsFirst, ClosedIsEmpty, Scans!StartSave
<1>3. SavesAreOwned' /\ EverythingScanned'
  BY DEF ScansInv, CandidateIsFirst, SavesAreOwned, EverythingScanned, Scans!StartSave, Scans!Savable
<1>4. Scans!SavedForFirstOwner' /\ Scans!RecordedIsInHistory'
  BY DEF ScansInv, Scans!SavedForFirstOwner, Scans!RecordedIsInHistory, Scans!StartSave
<1> QED
  BY <1>1, <1>2, <1>3, <1>4 DEF ScansInv

LEMMA ScanSaveOnDeviceKeeps ==
  ASSUME Scans!Assumptions, ScansInv, NEW i \in Barcode, Scans!SaveOnDevice(i)
  PROVE  ScansInv'
<1>1. Scans!TypeOK'
  BY DEF ScansInv, Scans!TypeOK, Scans!SaveOnDevice
<1>2. CandidateIsFirst' /\ ClosedIsEmpty'
  BY DEF ScansInv, Scans!TypeOK, CandidateIsFirst, ClosedIsEmpty, Scans!SaveOnDevice
<1>3. SavesAreOwned' /\ EverythingScanned'
  BY DEF ScansInv, SavesAreOwned, EverythingScanned, Scans!SaveOnDevice, Scans!Savable
<1>4. Scans!SavedForFirstOwner'
  <2> SUFFICES ASSUME NEW w \in (scanWire \cup history)' PROVE w[2] = first'[w[1]] \/ w[1] \in retried'
    BY DEF Scans!SavedForFirstOwner
  <2>1. CASE w \in scanWire \cup history
    <3>1. w[1] \in scanned /\ w[1] \in Barcode /\ (w[2] = first[w[1]] \/ w[1] \in retried)
      BY <2>1 DEF ScansInv, Scans!TypeOK, EverythingScanned, Scans!SavedForFirstOwner
    <3> QED
      BY <3>1 DEF Scans!SaveOnDevice
  <2>2. CASE w \notin scanWire \cup history
    BY <2>2 DEF ScansInv, CandidateIsFirst, Scans!SaveOnDevice, Scans!Savable
  <2> QED
    BY <2>1, <2>2
<1>5. Scans!RecordedIsInHistory'
  BY DEF ScansInv, Scans!RecordedIsInHistory, Scans!SaveOnDevice
<1> QED
  BY <1>1, <1>2, <1>3, <1>4, <1>5 DEF ScansInv

LEMMA ScanGetTokenKeeps ==
  ASSUME Scans!Assumptions, ScansInv, NEW i \in Barcode, Scans!GetToken(i)
  PROVE  ScansInv'
<1>1. Scans!TypeOK'
  BY DEF ScansInv, Scans!TypeOK, Scans!GetToken
<1>2. CandidateIsFirst' /\ ClosedIsEmpty'
  BY DEF ScansInv, CandidateIsFirst, ClosedIsEmpty, Scans!GetToken
<1>3. SavesAreOwned' /\ EverythingScanned'
  BY DEF ScansInv, SavesAreOwned, EverythingScanned, Scans!GetToken
<1>4. Scans!SavedForFirstOwner' /\ Scans!RecordedIsInHistory'
  BY DEF ScansInv, Scans!SavedForFirstOwner, Scans!RecordedIsInHistory, Scans!GetToken
<1> QED
  BY <1>1, <1>2, <1>3, <1>4 DEF ScansInv

LEMMA ScanPostKeeps ==
  ASSUME Scans!Assumptions, ScansInv, NEW i \in Barcode, Scans!PostScan(i)
  PROVE  ScansInv'
<1>1. Scans!TypeOK'
  BY DEF ScansInv, Scans!TypeOK, Scans!PostScan, Scans!ShouldProceed
<1>2. CandidateIsFirst' /\ ClosedIsEmpty'
  BY DEF ScansInv, CandidateIsFirst, ClosedIsEmpty, Scans!PostScan
<1>3. SavesAreOwned' /\ EverythingScanned'
  BY DEF ScansInv, SavesAreOwned, EverythingScanned, Scans!PostScan
<1>4. Scans!SavedForFirstOwner'
  <2> SUFFICES ASSUME NEW w \in (scanWire \cup history)' PROVE w[2] = first'[w[1]] \/ w[1] \in retried'
    BY DEF Scans!SavedForFirstOwner
  <2>1. CASE w \in scanWire \cup history
    <3>1. w[1] \in scanned /\ w[1] \in Barcode /\ (w[2] = first[w[1]] \/ w[1] \in retried)
      BY <2>1 DEF ScansInv, Scans!TypeOK, EverythingScanned, Scans!SavedForFirstOwner
    <3> QED
      BY <3>1 DEF Scans!PostScan
  <2>2. CASE w \notin scanWire \cup history
    BY <2>2 DEF ScansInv, Scans!TypeOK, CandidateIsFirst, Scans!PostScan, Scans!ShouldProceed
  <2> QED
    BY <2>1, <2>2
<1>5. Scans!RecordedIsInHistory'
  BY DEF ScansInv, Scans!RecordedIsInHistory, Scans!PostScan
<1> QED
  BY <1>1, <1>2, <1>3, <1>4, <1>5 DEF ScansInv

LEMMA ScanConfirmSaveKeeps ==
  ASSUME Scans!Assumptions, ScansInv, NEW i \in Barcode, Scans!ConfirmSave(i)
  PROVE  ScansInv'
<1>1. Scans!TypeOK'
  BY DEF ScansInv, Scans!TypeOK, SavesAreOwned, Scans!ConfirmSave
<1>2. CandidateIsFirst' /\ ClosedIsEmpty'
  BY DEF ScansInv, Scans!TypeOK, CandidateIsFirst, ClosedIsEmpty, Scans!ConfirmSave
<1>3. SavesAreOwned' /\ EverythingScanned'
  BY DEF ScansInv, SavesAreOwned, EverythingScanned, Scans!ConfirmSave
<1>4. Scans!SavedForFirstOwner'
  <2> SUFFICES ASSUME NEW w \in (scanWire \cup history)' PROVE w[2] = first'[w[1]] \/ w[1] \in retried'
    BY DEF Scans!SavedForFirstOwner
  <2>1. CASE w \in scanWire \cup history
    <3>1. w[1] \in scanned /\ w[1] \in Barcode /\ (w[2] = first[w[1]] \/ w[1] \in retried)
      BY <2>1 DEF ScansInv, Scans!TypeOK, EverythingScanned, Scans!SavedForFirstOwner
    <3> QED
      BY <3>1 DEF Scans!ConfirmSave
  <2>2. CASE w \notin scanWire \cup history
    BY <2>2 DEF Scans!ConfirmSave
  <2> QED
    BY <2>1, <2>2
<1>5. Scans!RecordedIsInHistory'
  <2>1. recorded' \cup stored'.recorded \subseteq recorded \cup stored.recorded \cup {i} /\ history' = history
    BY DEF Scans!ConfirmSave
  <2>2. saving[i].owner \in Scans!Owner /\ <<i, saving[i].owner>> \in history
    BY DEF ScansInv, SavesAreOwned, Scans!ConfirmSave
  <2> QED
    BY <2>1, <2>2 DEF ScansInv, Scans!RecordedIsInHistory
<1> QED
  BY <1>1, <1>2, <1>3, <1>4, <1>5 DEF ScansInv

LEMMA ScanFailSaveKeeps ==
  ASSUME Scans!Assumptions, ScansInv, NEW i \in Barcode, Scans!FailSave(i)
  PROVE  ScansInv'
<1>1. Scans!TypeOK'
  BY DEF ScansInv, Scans!TypeOK, Scans!FailSave
<1>2. CandidateIsFirst' /\ ClosedIsEmpty'
  BY DEF ScansInv, CandidateIsFirst, ClosedIsEmpty, Scans!FailSave
<1>3. SavesAreOwned' /\ EverythingScanned'
  BY DEF ScansInv, SavesAreOwned, EverythingScanned, Scans!FailSave
<1>4. Scans!SavedForFirstOwner' /\ Scans!RecordedIsInHistory'
  BY DEF ScansInv, Scans!SavedForFirstOwner, Scans!RecordedIsInHistory, Scans!FailSave
<1> QED
  BY <1>1, <1>2, <1>3, <1>4 DEF ScansInv

LEMMA ScanRemoveKeeps ==
  ASSUME Scans!Assumptions, ScansInv, NEW items \in SUBSET Barcode, Scans!Remove(items)
  PROVE  ScansInv'
<1>1. Scans!TypeOK'
  BY DEF ScansInv, Scans!TypeOK, Scans!Remove
<1>2. CandidateIsFirst' /\ ClosedIsEmpty'
  BY DEF ScansInv, CandidateIsFirst, ClosedIsEmpty, Scans!Remove
<1>3. SavesAreOwned' /\ EverythingScanned'
  BY DEF ScansInv, SavesAreOwned, EverythingScanned, Scans!Remove
<1>4. Scans!SavedForFirstOwner' /\ Scans!RecordedIsInHistory'
  BY DEF ScansInv, Scans!SavedForFirstOwner, Scans!RecordedIsInHistory, Scans!Remove
<1> QED
  BY <1>1, <1>2, <1>3, <1>4 DEF ScansInv

LEMMA ScanSeeKeeps ==
  ASSUME Scans!Assumptions, ScansInv, NEW o \in Scans!Owner \cup {Loading}, Scans!See(o)
  PROVE  ScansInv'
<1>1. Scans!TypeOK'
  BY DEF ScansInv, Scans!TypeOK, Scans!See, Scans!Settled
<1>2. CandidateIsFirst' /\ ClosedIsEmpty'
  BY DEF ScansInv, CandidateIsFirst, ClosedIsEmpty, Scans!See, Scans!Settled
<1>3. SavesAreOwned' /\ EverythingScanned'
  BY DEF ScansInv, SavesAreOwned, EverythingScanned, Scans!See
<1>4. Scans!SavedForFirstOwner' /\ Scans!RecordedIsInHistory'
  BY DEF ScansInv, Scans!TypeOK, SavesAreOwned, Scans!SavedForFirstOwner, Scans!RecordedIsInHistory, Scans!See
<1> QED
  BY <1>1, <1>2, <1>3, <1>4 DEF ScansInv

LEMMA ScanSwitchAccountKeeps ==
  ASSUME Scans!Assumptions, ScansInv, NEW o \in Scans!Owner, Scans!SwitchAccount(o)
  PROVE  ScansInv'
<1>1. Scans!TypeOK'
  BY DEF ScansInv, Scans!TypeOK, Scans!SwitchAccount
<1>2. CandidateIsFirst' /\ ClosedIsEmpty'
  BY DEF ScansInv, CandidateIsFirst, ClosedIsEmpty, Scans!SwitchAccount
<1>3. SavesAreOwned' /\ EverythingScanned'
  BY DEF ScansInv, SavesAreOwned, EverythingScanned, Scans!SwitchAccount
<1>4. Scans!SavedForFirstOwner' /\ Scans!RecordedIsInHistory'
  BY DEF ScansInv, Scans!SavedForFirstOwner, Scans!RecordedIsInHistory, Scans!SwitchAccount
<1> QED
  BY <1>1, <1>2, <1>3, <1>4 DEF ScansInv

LEMMA ScanDeliverKeeps ==
  ASSUME Scans!Assumptions, ScansInv, NEW w \in scanWire, Scans!Deliver(w)
  PROVE  ScansInv'
<1>1. Scans!TypeOK'
  BY DEF ScansInv, Scans!TypeOK, Scans!Deliver
<1>2. CandidateIsFirst' /\ ClosedIsEmpty'
  BY DEF ScansInv, CandidateIsFirst, ClosedIsEmpty, Scans!Deliver
<1>3. SavesAreOwned' /\ EverythingScanned'
  BY DEF ScansInv, SavesAreOwned, EverythingScanned, Scans!Deliver
<1>4. Scans!SavedForFirstOwner' /\ Scans!RecordedIsInHistory'
  BY DEF ScansInv, Scans!SavedForFirstOwner, Scans!RecordedIsInHistory, Scans!Deliver
<1> QED
  BY <1>1, <1>2, <1>3, <1>4 DEF ScansInv

LEMMA ScanCloseKeeps ==
  ASSUME Scans!Assumptions, ScansInv, Scans!Close
  PROVE  ScansInv'
<1>1. Scans!TypeOK'
  <2>1. stored' \in [row : [Barcode -> {"absent", "waiting", "compared"}], recorded : SUBSET Barcode]
    BY DEF ScansInv, Scans!TypeOK, Scans!Close
  <2>2. saving' \in [Barcode -> [owner : Account \cup {None}, step : {"none", "token", "checked", "posted"}]]
    BY DEF Scans!Close
  <2> QED
    BY <2>1, <2>2 DEF ScansInv, Scans!TypeOK, Scans!Close
<1>2. CandidateIsFirst' /\ ClosedIsEmpty'
  BY DEF CandidateIsFirst, ClosedIsEmpty, Scans!Close
<1>3. SavesAreOwned' /\ EverythingScanned'
  BY DEF ScansInv, SavesAreOwned, EverythingScanned, Scans!Close
<1>4. Scans!SavedForFirstOwner'
  <2> SUFFICES ASSUME NEW w \in (scanWire \cup history)' PROVE w[2] = first'[w[1]] \/ w[1] \in retried'
    BY DEF Scans!SavedForFirstOwner
  <2>1. CASE w \in scanWire \cup history
    <3>1. w[1] \in scanned /\ w[1] \in Barcode /\ (w[2] = first[w[1]] \/ w[1] \in retried)
      BY <2>1 DEF ScansInv, Scans!TypeOK, EverythingScanned, Scans!SavedForFirstOwner
    <3> QED
      BY <3>1 DEF Scans!Close
  <2>2. CASE w \notin scanWire \cup history
    BY <2>2 DEF Scans!Close
  <2> QED
    BY <2>1, <2>2
<1>5. Scans!RecordedIsInHistory'
  <2>1. recorded' \cup stored'.recorded \subseteq recorded \cup stored.recorded /\ history' = history
    BY DEF Scans!Close
  <2> QED
    BY <2>1 DEF ScansInv, Scans!RecordedIsInHistory
<1> QED
  BY <1>1, <1>2, <1>3, <1>4, <1>5 DEF ScansInv

LEMMA ScanOpenKeeps ==
  ASSUME Scans!Assumptions, ScansInv, Scans!Open
  PROVE  ScansInv'
<1>1. Scans!TypeOK'
  BY DEF ScansInv, Scans!TypeOK, ClosedIsEmpty, Scans!Open
<1>2. CandidateIsFirst' /\ ClosedIsEmpty'
  BY DEF ScansInv, CandidateIsFirst, ClosedIsEmpty, Scans!Open
<1>3. SavesAreOwned' /\ EverythingScanned'
  BY DEF ScansInv, SavesAreOwned, EverythingScanned, Scans!Open
<1>4. Scans!SavedForFirstOwner' /\ Scans!RecordedIsInHistory'
  BY DEF ScansInv, Scans!SavedForFirstOwner, Scans!RecordedIsInHistory, Scans!Open
<1> QED
  BY <1>1, <1>2, <1>3, <1>4 DEF ScansInv

LEMMA ScansInitHolds == ASSUME Scans!Assumptions, Scans!Init PROVE ScansInv
  BY DEF Scans!Init, ScansInv, Scans!TypeOK, CandidateIsFirst, SavesAreOwned, EverythingScanned, ClosedIsEmpty,
         Scans!SavedForFirstOwner, Scans!RecordedIsInHistory

LEMMA ScansStutterKeeps == ASSUME ScansInv, UNCHANGED Scans!vars PROVE ScansInv'
  BY DEF Scans!vars, ScansInv, Scans!TypeOK, CandidateIsFirst, SavesAreOwned, EverythingScanned, ClosedIsEmpty,
         Scans!SavedForFirstOwner, Scans!RecordedIsInHistory

LEMMA ScansNextKeeps ==
  ASSUME Scans!Assumptions, ScansInv, [Scans!Next]_(Scans!vars)
  PROVE  ScansInv'
<1>1. ASSUME NEW i \in Barcode, Scans!Add(i) \/ Scans!Compared(i) \/ Scans!RetryHistory(i) PROVE ScansInv'
  BY <1>1, ScanAddKeeps, ScanComparedKeeps, ScanRetryHistoryKeeps
<1>2. ASSUME NEW i \in Barcode,
             Scans!StartSave(i) \/ Scans!SaveOnDevice(i) \/ Scans!GetToken(i) \/ Scans!PostScan(i) \/ Scans!ConfirmSave(i) \/ Scans!FailSave(i)
      PROVE  ScansInv'
  BY <1>2, ScanStartSaveKeeps, ScanSaveOnDeviceKeeps, ScanGetTokenKeeps, ScanPostKeeps, ScanConfirmSaveKeeps, ScanFailSaveKeeps
<1>3. ASSUME NEW items \in {Scans!Rows} \cup {{i} : i \in Scans!Rows}, Scans!Remove(items) PROVE ScansInv'
  <2>1. items \in SUBSET Barcode
    BY <1>3
  <2> QED
    BY <1>3, <2>1, ScanRemoveKeeps
<1>4. ASSUME NEW o \in Scans!Owner \cup {Loading}, Scans!See(o) PROVE ScansInv'
  BY <1>4, ScanSeeKeeps
<1>5. ASSUME NEW o \in Scans!Owner, Scans!SwitchAccount(o) PROVE ScansInv'
  BY <1>5, ScanSwitchAccountKeeps
<1>6. ASSUME NEW w \in scanWire, Scans!Deliver(w) PROVE ScansInv'
  BY <1>6, ScanDeliverKeeps
<1>7. CASE Scans!Close \/ Scans!Open
  BY <1>7, ScanCloseKeeps, ScanOpenKeeps
<1> QED
  BY <1>1, <1>2, <1>3, <1>4, <1>5, <1>6, <1>7, ScansStutterKeeps DEF Scans!Next

HIDE DEF Scans!Assumptions, Scans!Owner, Scans!NoSave, Scans!Empty, Scans!Rows, Scans!rowVars, Scans!saveVars

--------------------------------------------------------------------------------
(* The scan of a result page. *)

\* The owner has no scan, and none is on its way.
Without(o) == o \notin resultHistory /\ (o # Guest => resultWire[o] = 0)

\* Before the first attempt nobody has the scan.
NothingYet ==
  resultCandidate = None \/ ~resultCandidate.attempted => consented = {} /\ \A o \in Result!Settled : Without(o)

\* A save nobody asked for is the first owner's only one.
AttemptIsFirst ==
  attempt # None =>
    /\ attempt.owner.who # Loading /\ (attempt.step = "device" <=> attempt.owner.who = Guest)
    /\ attempt.step = "answered" => attempt.owner.who \in resultHistory
    /\ attempt.owner.who \notin consented =>
         /\ resultFirst # None /\ attempt.owner.who = resultFirst.who
         /\ attempt.step \in {"device", "token"} => Without(attempt.owner.who)

\* Who is first while the comparison is under way, and while its scan has no owner.
FirstIsKnown ==
  /\ resultCandidate = None /\ loading # None =>
       /\ loading.who # Loading => resultFirst = loading
       /\ loading.who = Loading =>
            /\ owner.rev >= loading.rev
            /\ owner.rev = loading.rev => owner = loading /\ resultFirst = None
            /\ owner.rev = loading.rev + 1 => owner.who # Loading /\ resultFirst = owner
  /\ resultCandidate # None /\ resultCandidate.owner = None => owner.who = Loading /\ resultFirst = None

ResultInv ==
  /\ Result!TypeOK /\ NothingYet /\ AttemptIsFirst /\ FirstIsKnown
  /\ Result!SavedForFirstOwner /\ Result!SavedIsInHistory

\* The parts of Result!TypeOK.
ResultPlainTyped ==
  /\ owner \in Result!Owner /\ resultCookie \in Result!Settled /\ loading \in Result!Owner \cup {None}
  /\ phase \in Result!Phases \cup {Result!NoPhase}
  /\ resultHistory \subseteq Result!Settled /\ resultFirst \in Result!Owner \cup {None} /\ consented \subseteq Result!Settled
ResultWireTyped == resultWire \in [Account -> 0..MaxPosts]
ResultScanTyped ==
  /\ resultCandidate \in Result!Candidates \cup {None} /\ attempt \in Result!Attempts \cup {None}
  /\ resultCandidate # None => (resultCandidate.attempted => resultCandidate.owner # None)
  /\ attempt # None => resultCandidate # None /\ resultCandidate.attempted

LEMMA ResultTypeParts == Result!TypeOK <=> ResultPlainTyped /\ ResultWireTyped /\ ResultScanTyped
BY DEF Result!TypeOK, ResultPlainTyped, ResultWireTyped, ResultScanTyped

USE DEF Result!Assumptions, Result!Owner, Result!Settled, Result!loadVars, Result!saveVars

\* An attempt for o has begun with the scan c.
AttemptBegun(c, o) ==
  /\ resultCandidate' \in Result!Candidates /\ resultCandidate' # None
  /\ resultCandidate'.owner = o /\ resultCandidate'.attempted /\ resultCandidate'.recorded = c.recorded
  /\ attempt' \in Result!Attempts /\ attempt' # None
  /\ attempt'.owner = o /\ attempt'.step \in {"device", "token"}
  /\ attempt'.step = "device" <=> o.who = Guest
  /\ phase' \in Result!Phases /\ phase'.phase = "saving"

LEMMA AttemptBegins ==
  ASSUME Result!Assumptions, NEW c \in Result!Candidates, NEW o \in Result!Owner,
         resultCandidate' = Result!Stamped(c, o), attempt' = Result!Attempt(o), phase' = Result!Saving(o)
  PROVE  AttemptBegun(c, o)
<1>1. resultCandidate' = [owner |-> o, attempted |-> TRUE, recorded |-> c.recorded]
  BY DEF Result!Stamped, Result!Candidates
<1>2. resultCandidate' \in Result!Candidates /\ resultCandidate' # None
  <2>1. c.recorded \in SUBSET Result!Settled
    BY DEF Result!Candidates
  <2>2. resultCandidate' \in Result!Candidates
    BY <1>1, <2>1 DEF Result!Candidates
  <2> QED
    BY <2>2
<1>3. attempt' \in Result!Attempts /\ attempt' # None
  <2>1. attempt' \in Result!Attempts
    BY DEF Result!Attempt, Result!Attempts
  <2> QED
    BY <2>1
<1>4. attempt'.step \in {"device", "token"} /\ (attempt'.step = "device" <=> o.who = Guest) /\ attempt'.owner = o
  BY DEF Result!Attempt
<1>5. phase' \in Result!Phases /\ phase'.phase = "saving"
  BY DEF Result!Saving, Result!Phases
<1> QED
  BY <1>1, <1>2, <1>3, <1>4, <1>5 DEF AttemptBegun

\* An automatic save begins, or nothing does.
LEMMA ResultAutoSaves ==
  ASSUME Result!Assumptions, NEW c \in Result!Candidates \cup {None}, NEW o \in Result!Owner, Result!AutoSave(c, o)
  PROVE  \/ Result!MayAutoSave(c, o) /\ AttemptBegun(c, o)
         \/ ~Result!MayAutoSave(c, o) /\ resultCandidate' = c /\ UNCHANGED <<attempt, phase>>
<1>1. CASE Result!MayAutoSave(c, o)
  <2>1. c \in Result!Candidates
    BY <1>1 DEF Result!MayAutoSave
  <2> QED
    BY <1>1, <2>1, AttemptBegins DEF Result!AutoSave
<1> QED
  BY <1>1 DEF Result!AutoSave

\* A save that is confirmed to the page it was made for.
LEMMA ResultConfirms ==
  ASSUME Result!Assumptions, ResultScanTyped, attempt # None, attempt.owner.who # Loading, Result!Confirmed
  PROVE  \/ /\ resultCandidate' \in Result!Candidates /\ resultCandidate' # None
            /\ resultCandidate'.owner = resultCandidate.owner /\ resultCandidate'.attempted
            /\ resultCandidate'.recorded = resultCandidate.recorded \cup {attempt.owner.who}
            /\ phase' = [owner |-> attempt.owner, phase |-> "saved"] /\ owner = attempt.owner
         \/ UNCHANGED <<resultCandidate, phase>>
<1>1. ASSUME Result!Current
      PROVE  resultCandidate' = [owner |-> resultCandidate.owner, attempted |-> TRUE, recorded |-> resultCandidate.recorded \cup {attempt.owner.who}]
  BY <1>1 DEF ResultScanTyped, Result!Candidates, Result!Confirmed
<1>2. ASSUME Result!Current, attempt.owner.who # Loading PROVE resultCandidate' \in Result!Candidates
  <2>1. attempt.owner.who \in Result!Settled
    BY <1>2 DEF ResultScanTyped, Result!Attempts
  <2>2. resultCandidate.owner \in Result!Owner \cup {None} /\ resultCandidate.recorded \in SUBSET Result!Settled
    BY DEF ResultScanTyped, Result!Candidates
  <2>3. resultCandidate.recorded \cup {attempt.owner.who} \in SUBSET Result!Settled
    BY <2>1, <2>2
  <2>4. resultCandidate' = [owner |-> resultCandidate.owner, attempted |-> TRUE, recorded |-> resultCandidate.recorded \cup {attempt.owner.who}]
    BY <1>1, <1>2
  <2>. HIDE DEF Result!Assumptions, Result!Owner, Result!Settled
  <2> QED
    BY <2>2, <2>3, <2>4 DEF Result!Candidates
<1> QED
  BY <1>1, <1>2 DEF Result!Confirmed, Result!Current

LEMMA ResultRetryKeeps ==
  ASSUME Result!Assumptions, ResultInv, Result!Retry
  PROVE  ResultInv'
<1>. ResultPlainTyped /\ ResultWireTyped /\ ResultScanTyped
  BY ResultTypeParts DEF ResultInv
<1>0. \/ /\ owner.who \in resultCandidate.recorded /\ phase' = [owner |-> owner, phase |-> "saved"]
         /\ UNCHANGED <<resultCandidate, attempt, consented>>
      \/ AttemptBegun(resultCandidate, owner) /\ consented' = consented \cup {owner.who}
  BY AttemptBegins DEF ResultPlainTyped, ResultScanTyped, Result!Retry
<1>1. ResultPlainTyped'
  BY <1>0 DEF ResultPlainTyped, Result!Phases, Result!Retry, AttemptBegun
<1>2. ResultWireTyped'
  BY <1>0 DEF ResultWireTyped, Result!Retry
<1>3. ResultScanTyped'
  BY <1>0 DEF ResultScanTyped, Result!Attempts, Result!Retry, AttemptBegun
<1>4. NothingYet'
  BY <1>0 DEF ResultInv, NothingYet, Without, Result!Retry, AttemptBegun
<1>5. AttemptIsFirst'
  BY <1>0 DEF AttemptIsFirst, Result!Retry, AttemptBegun
<1>6. FirstIsKnown'
  BY <1>0 DEF ResultInv, ResultPlainTyped, FirstIsKnown, Result!Retry, AttemptBegun
<1>7. Result!SavedForFirstOwner'
  BY <1>0 DEF ResultInv, Result!SavedForFirstOwner, Result!Retry
<1>8. Result!SavedIsInHistory'
  BY <1>0 DEF ResultInv, Result!SavedIsInHistory, Result!Retry, AttemptBegun
<1>9. Result!TypeOK'
  BY <1>1, <1>2, <1>3 DEF Result!TypeOK, ResultPlainTyped, ResultWireTyped, ResultScanTyped
<1> QED
  BY <1>4, <1>5, <1>6, <1>7, <1>8, <1>9 DEF ResultInv

LEMMA ResultGetTokenKeeps ==
  ASSUME Result!Assumptions, ResultInv, Result!GetToken
  PROVE  ResultInv'
<1>. ResultPlainTyped /\ ResultWireTyped /\ ResultScanTyped
  BY ResultTypeParts DEF ResultInv
<1>1. ResultPlainTyped'
  BY DEF ResultPlainTyped, Result!Phases, Result!GetToken
<1>2. ResultWireTyped'
  BY DEF ResultWireTyped, Result!GetToken
<1>3. ResultScanTyped'
  BY DEF ResultScanTyped, Result!Attempts, Result!GetToken
<1>4. NothingYet'
  BY DEF ResultScanTyped, NothingYet, Result!GetToken
<1>5. AttemptIsFirst'
  BY DEF ResultInv, ResultScanTyped, Result!Attempts, AttemptIsFirst, Result!GetToken
<1>6. FirstIsKnown'
  BY DEF ResultInv, FirstIsKnown, Result!GetToken
<1>7. Result!SavedForFirstOwner'
  BY DEF ResultInv, ResultWireTyped, AttemptIsFirst, Result!SavedForFirstOwner, Without, Result!GetToken
<1>8. Result!SavedIsInHistory'
  BY DEF ResultInv, Result!SavedIsInHistory, Result!GetToken
<1>9. Result!TypeOK'
  BY <1>1, <1>2, <1>3 DEF Result!TypeOK, ResultPlainTyped, ResultWireTyped, ResultScanTyped
<1> QED
  BY <1>4, <1>5, <1>6, <1>7, <1>8, <1>9 DEF ResultInv

LEMMA ResultDeliverKeeps ==
  ASSUME Result!Assumptions, ResultInv, NEW a \in Account, Result!Deliver(a)
  PROVE  ResultInv'
<1>. ResultPlainTyped /\ ResultWireTyped /\ ResultScanTyped
  BY ResultTypeParts DEF ResultInv
<1>1. ResultPlainTyped'
  BY DEF ResultPlainTyped, Result!Deliver
<1>2. ResultWireTyped'
  BY DEF ResultWireTyped, Result!Deliver
<1>3. ResultScanTyped'
  BY DEF ResultScanTyped, Result!Attempts, Result!Deliver
<1>4. NothingYet'
  BY DEF ResultInv, NothingYet, Without, Result!Deliver
<1>5. AttemptIsFirst'
  BY DEF ResultInv, ResultScanTyped, Result!Attempts, AttemptIsFirst, Without, Result!Deliver
<1>6. FirstIsKnown'
  BY DEF ResultInv, FirstIsKnown, Result!Deliver
<1>7. Result!SavedForFirstOwner'
  BY DEF ResultInv, ResultWireTyped, Result!SavedForFirstOwner, Result!Deliver
<1>8. Result!SavedIsInHistory'
  BY DEF ResultInv, Result!SavedIsInHistory, Result!Deliver
<1>9. Result!TypeOK'
  BY <1>1, <1>2, <1>3 DEF Result!TypeOK, ResultPlainTyped, ResultWireTyped, ResultScanTyped
<1> QED
  BY <1>4, <1>5, <1>6, <1>7, <1>8, <1>9 DEF ResultInv

LEMMA ResultLoseKeeps ==
  ASSUME Result!Assumptions, ResultInv, NEW a \in Account, Result!Lose(a)
  PROVE  ResultInv'
<1>. ResultPlainTyped /\ ResultWireTyped /\ ResultScanTyped
  BY ResultTypeParts DEF ResultInv
<1>1. ResultPlainTyped'
  BY DEF ResultPlainTyped, Result!Lose
<1>2. ResultWireTyped'
  BY DEF ResultWireTyped, Result!Lose
<1>3. ResultScanTyped'
  BY DEF ResultScanTyped, Result!Lose
<1>4. NothingYet'
  BY DEF ResultInv, NothingYet, Without, Result!Lose
<1>5. AttemptIsFirst'
  BY DEF ResultInv, AttemptIsFirst, Without, Result!Lose
<1>6. FirstIsKnown'
  BY DEF ResultInv, FirstIsKnown, Result!Lose
<1>7. Result!SavedForFirstOwner'
  BY DEF ResultInv, ResultWireTyped, Result!SavedForFirstOwner, Result!Lose
<1>8. Result!SavedIsInHistory'
  BY DEF ResultInv, Result!SavedIsInHistory, Result!Lose
<1>9. Result!TypeOK'
  BY <1>1, <1>2, <1>3 DEF Result!TypeOK, ResultPlainTyped, ResultWireTyped, ResultScanTyped
<1> QED
  BY <1>4, <1>5, <1>6, <1>7, <1>8, <1>9 DEF ResultInv

LEMMA ResultFailKeeps ==
  ASSUME Result!Assumptions, ResultInv, Result!Fail
  PROVE  ResultInv'
<1>. ResultPlainTyped /\ ResultWireTyped /\ ResultScanTyped
  BY ResultTypeParts DEF ResultInv
<1>1. ResultPlainTyped'
  BY DEF ResultPlainTyped, Result!Phases, Result!Fail
<1>2. ResultWireTyped'
  BY DEF ResultWireTyped, Result!Fail
<1>3. ResultScanTyped'
  BY DEF ResultScanTyped, Result!Fail
<1>4. NothingYet'
  BY DEF ResultScanTyped, NothingYet, Result!Fail
<1>5. AttemptIsFirst'
  BY DEF AttemptIsFirst, Result!Fail
<1>6. FirstIsKnown'
  BY DEF ResultInv, FirstIsKnown, Result!Fail
<1>7. Result!SavedForFirstOwner'
  BY DEF ResultInv, Result!SavedForFirstOwner, Result!Fail
<1>8. Result!SavedIsInHistory'
  BY DEF ResultInv, Result!SavedIsInHistory, Result!Fail
<1>9. Result!TypeOK'
  BY <1>1, <1>2, <1>3 DEF Result!TypeOK, ResultPlainTyped, ResultWireTyped, ResultScanTyped
<1> QED
  BY <1>4, <1>5, <1>6, <1>7, <1>8, <1>9 DEF ResultInv

LEMMA ResultConfirmKeeps ==
  ASSUME Result!Assumptions, ResultInv, Result!Confirm
  PROVE  ResultInv'
<1>. ResultPlainTyped /\ ResultWireTyped /\ ResultScanTyped
  BY ResultTypeParts DEF ResultInv
<1>0. \/ /\ resultCandidate' \in Result!Candidates /\ resultCandidate' # None
         /\ resultCandidate'.owner = resultCandidate.owner /\ resultCandidate'.attempted
         /\ resultCandidate'.recorded = resultCandidate.recorded \cup {attempt.owner.who}
         /\ phase' = [owner |-> attempt.owner, phase |-> "saved"] /\ owner = attempt.owner
      \/ UNCHANGED <<resultCandidate, phase>>
  BY ResultConfirms DEF ResultInv, AttemptIsFirst, Result!Confirm
<1>1. ResultPlainTyped'
  BY <1>0 DEF ResultPlainTyped, Result!Phases, Result!Confirm
<1>2. ResultWireTyped'
  BY <1>0 DEF ResultWireTyped, Result!Confirm
<1>3. ResultScanTyped'
  BY <1>0 DEF ResultScanTyped, Result!Confirm
<1>4. NothingYet'
  BY <1>0 DEF ResultScanTyped, NothingYet, Result!Confirm
<1>5. AttemptIsFirst'
  BY <1>0 DEF AttemptIsFirst, Result!Confirm
<1>6. FirstIsKnown'
  BY <1>0 DEF ResultScanTyped, FirstIsKnown, Result!Confirm
<1>7. Result!SavedForFirstOwner'
  BY <1>0 DEF ResultInv, Result!SavedForFirstOwner, Result!Confirm
<1>8. Result!SavedIsInHistory'
  BY <1>0 DEF ResultInv, ResultScanTyped, AttemptIsFirst, Result!SavedIsInHistory, Result!Confirm
<1>9. Result!TypeOK'
  BY <1>1, <1>2, <1>3 DEF Result!TypeOK, ResultPlainTyped, ResultWireTyped, ResultScanTyped
<1> QED
  BY <1>4, <1>5, <1>6, <1>7, <1>8, <1>9 DEF ResultInv

LEMMA ResultSaveOnDeviceKeeps ==
  ASSUME Result!Assumptions, ResultInv, Result!SaveOnDevice
  PROVE  ResultInv'
<1>. ResultPlainTyped /\ ResultWireTyped /\ ResultScanTyped
  BY ResultTypeParts DEF ResultInv
<1>0. \/ /\ resultCandidate' \in Result!Candidates /\ resultCandidate' # None
         /\ resultCandidate'.owner = resultCandidate.owner /\ resultCandidate'.attempted
         /\ resultCandidate'.recorded = resultCandidate.recorded \cup {attempt.owner.who}
         /\ phase' = [owner |-> attempt.owner, phase |-> "saved"] /\ owner = attempt.owner
      \/ UNCHANGED <<resultCandidate, phase>>
  BY ResultConfirms DEF ResultInv, AttemptIsFirst, Result!SaveOnDevice
<1>1. ResultPlainTyped'
  BY <1>0 DEF ResultPlainTyped, Result!Phases, Result!SaveOnDevice
<1>2. ResultWireTyped'
  BY <1>0 DEF ResultWireTyped, Result!SaveOnDevice
<1>3. ResultScanTyped'
  BY <1>0 DEF ResultScanTyped, Result!SaveOnDevice
<1>4. NothingYet'
  BY <1>0 DEF ResultScanTyped, NothingYet, Result!SaveOnDevice
<1>5. AttemptIsFirst'
  BY <1>0 DEF AttemptIsFirst, Result!SaveOnDevice
<1>6. FirstIsKnown'
  BY <1>0 DEF ResultScanTyped, FirstIsKnown, Result!SaveOnDevice
<1>7. Result!SavedForFirstOwner'
  BY <1>0 DEF ResultInv, AttemptIsFirst, Result!SavedForFirstOwner, Result!SaveOnDevice
<1>8. Result!SavedIsInHistory'
  BY <1>0 DEF ResultInv, ResultScanTyped, AttemptIsFirst, Result!SavedIsInHistory, Result!SaveOnDevice
<1>9. Result!TypeOK'
  BY <1>1, <1>2, <1>3 DEF Result!TypeOK, ResultPlainTyped, ResultWireTyped, ResultScanTyped
<1> QED
  BY <1>4, <1>5, <1>6, <1>7, <1>8, <1>9 DEF ResultInv

LEMMA ResultLoadKeeps ==
  ASSUME Result!Assumptions, ResultInv, Result!Load
  PROVE  ResultInv'
<1>. ResultPlainTyped /\ ResultWireTyped /\ ResultScanTyped
  BY ResultTypeParts DEF ResultInv
<1>1. ResultPlainTyped'
  BY DEF ResultPlainTyped, Result!Load
<1>2. ResultWireTyped'
  BY DEF ResultWireTyped, Result!Load
<1>3. ResultScanTyped'
  BY DEF ResultScanTyped, Result!Load
<1>4. NothingYet'
  BY DEF ResultInv, NothingYet, Without, Result!Load
<1>5. AttemptIsFirst'
  BY DEF ResultInv, ResultScanTyped, AttemptIsFirst, Without, Result!Load
<1>6. FirstIsKnown'
  BY DEF ResultInv, ResultPlainTyped, FirstIsKnown, Result!Load
<1>7. Result!SavedForFirstOwner'
  BY DEF ResultInv, NothingYet, Result!SavedForFirstOwner, Without, Result!Load
<1>8. Result!SavedIsInHistory'
  BY DEF ResultInv, Result!SavedIsInHistory, Result!Load
<1>9. Result!TypeOK'
  BY <1>1, <1>2, <1>3 DEF Result!TypeOK, ResultPlainTyped, ResultWireTyped, ResultScanTyped
<1> QED
  BY <1>4, <1>5, <1>6, <1>7, <1>8, <1>9 DEF ResultInv

LEMMA ResultAnswerKeeps ==
  ASSUME Result!Assumptions, ResultInv, Result!Answer
  PROVE  ResultInv'
<1>. ResultPlainTyped /\ ResultWireTyped /\ ResultScanTyped
  BY ResultTypeParts DEF ResultInv
<1>. DEFINE c == [owner |-> Result!OwnerOfScan, attempted |-> FALSE, recorded |-> {}]
<1>0. \/ resultCandidate # None /\ UNCHANGED <<resultCandidate, attempt, phase>>
      \/ /\ resultCandidate = None /\ c \in Result!Candidates /\ c # None
         /\ \/ Result!MayAutoSave(c, owner) /\ AttemptBegun(c, owner)
            \/ ~Result!MayAutoSave(c, owner) /\ resultCandidate' = c /\ UNCHANGED <<attempt, phase>>
  <2>1. c \in Result!Candidates
    BY DEF ResultPlainTyped, Result!Candidates, Result!OwnerOfScan, Result!Answer
  <2>2. c # None
    BY <2>1
  <2>3. CASE resultCandidate = None
    <3>1. Result!AutoSave(c, owner) /\ owner \in Result!Owner
      BY <2>3 DEF ResultPlainTyped, Result!Answer
    <3>. HIDE DEF c, Result!Assumptions, Result!Owner
    <3>2. \/ Result!MayAutoSave(c, owner) /\ AttemptBegun(c, owner)
          \/ ~Result!MayAutoSave(c, owner) /\ resultCandidate' = c /\ UNCHANGED <<attempt, phase>>
      BY <2>1, <3>1, ResultAutoSaves
    <3> QED
      BY <2>1, <2>2, <2>3, <3>2
  <2>4. CASE resultCandidate # None
    BY <2>4 DEF Result!Answer
  <2> QED
    BY <2>3, <2>4
<1>1. ResultPlainTyped'
  BY <1>0 DEF ResultPlainTyped, Result!Answer, AttemptBegun
<1>2. ResultWireTyped'
  BY <1>0 DEF ResultWireTyped, Result!Answer
<1>3. ResultScanTyped'
  <2>0. owner # None
    BY DEF ResultPlainTyped
  <2>. HIDE DEF c, Result!Assumptions, Result!Owner
  <2>1. CASE AttemptBegun(c, owner)
    BY <2>0, <2>1 DEF ResultScanTyped, AttemptBegun
  <2>2. CASE resultCandidate = None /\ resultCandidate' = c /\ UNCHANGED attempt
    <3>1. c \in Result!Candidates
      BY <2>2, <1>0
    <3>2. ~c.attempted
      BY DEF c
    <3> QED
      BY <2>2, <3>1, <3>2 DEF ResultScanTyped
  <2> QED
    BY <1>0, <2>1, <2>2 DEF ResultScanTyped
<1>4. NothingYet'
  BY <1>0 DEF ResultInv, NothingYet, Without, Result!Answer
<1>5. AttemptIsFirst'
  BY <1>0 DEF ResultInv, ResultPlainTyped, NothingYet, AttemptIsFirst, FirstIsKnown, Without, Result!Answer, Result!MayAutoSave, Result!OwnerOfScan, AttemptBegun
<1>6. FirstIsKnown'
  <2>1. CASE resultCandidate # None
    BY <1>0, <2>1 DEF ResultInv, FirstIsKnown, Result!Answer
  <2>2. CASE AttemptBegun(c, owner)
    BY <2>2 DEF ResultPlainTyped, FirstIsKnown, Result!Answer, AttemptBegun
  <2>3. CASE ~Result!MayAutoSave(c, owner) /\ resultCandidate' = c /\ resultCandidate = None /\ c # None
    <3>1. attempt = None /\ c.owner = Result!OwnerOfScan /\ ~c.attempted
      BY <2>3 DEF ResultScanTyped
    <3>. HIDE DEF c
    <3>2. ASSUME c.owner = None PROVE owner.who = Loading /\ resultFirst = None
      <4>1. loading # None /\ loading \in Result!Owner /\ loading.who = Loading /\ owner.rev <= loading.rev + 1
        BY <3>1, <3>2 DEF ResultPlainTyped, Result!Answer, Result!OwnerOfScan
      <4>2. owner.who = Loading
        BY <2>3, <3>1, <3>2 DEF Result!MayAutoSave
      <4>3. owner.rev = loading.rev \/ owner.rev = loading.rev + 1
        BY <4>1, <2>3 DEF ResultInv, ResultPlainTyped, FirstIsKnown
      <4> QED
        BY <2>3, <4>1, <4>2, <4>3 DEF ResultInv, FirstIsKnown
    <3> QED
      BY <2>3, <3>2 DEF FirstIsKnown, Result!Answer
  <2>. HIDE DEF c, Result!Assumptions, Result!Owner
  <2> QED
    BY <1>0, <2>1, <2>2, <2>3
<1>7. Result!SavedForFirstOwner'
  BY <1>0 DEF ResultInv, Result!SavedForFirstOwner, Result!Answer
<1>8. Result!SavedIsInHistory'
  BY <1>0 DEF ResultInv, Result!SavedIsInHistory, Result!Answer, AttemptBegun
<1>9. Result!TypeOK'
  BY <1>1, <1>2, <1>3 DEF Result!TypeOK, ResultPlainTyped, ResultWireTyped, ResultScanTyped
<1> QED
  BY <1>4, <1>5, <1>6, <1>7, <1>8, <1>9 DEF ResultInv

LEMMA ResultAnswerUnidentifiedKeeps ==
  ASSUME Result!Assumptions, ResultInv, Result!AnswerUnidentified
  PROVE  ResultInv'
<1>. ResultPlainTyped /\ ResultWireTyped /\ ResultScanTyped
  BY ResultTypeParts DEF ResultInv
<1>1. ResultPlainTyped'
  BY DEF ResultPlainTyped, Result!AnswerUnidentified
<1>2. ResultWireTyped'
  BY DEF ResultWireTyped, Result!AnswerUnidentified
<1>3. ResultScanTyped'
  BY DEF ResultScanTyped, Result!AnswerUnidentified
<1>4. NothingYet'
  BY DEF ResultInv, NothingYet, Without, Result!AnswerUnidentified
<1>5. AttemptIsFirst'
  BY DEF ResultInv, AttemptIsFirst, Without, Result!AnswerUnidentified
<1>6. FirstIsKnown'
  BY DEF ResultInv, FirstIsKnown, Result!AnswerUnidentified
<1>7. Result!SavedForFirstOwner'
  BY DEF ResultInv, Result!SavedForFirstOwner, Result!AnswerUnidentified
<1>8. Result!SavedIsInHistory'
  BY DEF ResultInv, Result!SavedIsInHistory, Result!AnswerUnidentified
<1>9. Result!TypeOK'
  BY <1>1, <1>2, <1>3 DEF Result!TypeOK, ResultPlainTyped, ResultWireTyped, ResultScanTyped
<1> QED
  BY <1>4, <1>5, <1>6, <1>7, <1>8, <1>9 DEF ResultInv

LEMMA ResultSeeKeeps ==
  ASSUME Result!Assumptions, ResultInv, NEW who \in Result!Settled \cup {Loading}, Result!See(who)
  PROVE  ResultInv'
<1>. ResultPlainTyped /\ ResultWireTyped /\ ResultScanTyped
  BY ResultTypeParts DEF ResultInv
<1>0. \/ /\ resultCandidate # None /\ resultCandidate.owner = None
         /\ \/ Result!MayAutoSave(resultCandidate, owner') /\ AttemptBegun(resultCandidate, owner')
            \/ ~Result!MayAutoSave(resultCandidate, owner') /\ UNCHANGED <<resultCandidate, attempt, phase>>
      \/ /\ resultCandidate = None \/ resultCandidate.owner # None
         /\ attempt' = IF attempt = None THEN None ELSE [attempt EXCEPT !.aborted = TRUE]
         /\ UNCHANGED <<resultCandidate, phase>>
  <2>1. owner' \in Result!Owner
    BY DEF ResultPlainTyped, Result!See
  <2> QED
    BY <2>1, ResultAutoSaves DEF ResultScanTyped, Result!See
<1>1. ResultPlainTyped'
  BY <1>0 DEF ResultPlainTyped, Result!See, AttemptBegun
<1>2. ResultWireTyped'
  BY <1>0 DEF ResultWireTyped, Result!See
<1>3. ResultScanTyped'
  <2>1. CASE AttemptBegun(resultCandidate, owner')
    BY <2>1 DEF ResultPlainTyped, ResultScanTyped, Result!See, AttemptBegun
  <2>2. CASE UNCHANGED <<resultCandidate, attempt>>
    BY <2>2 DEF ResultScanTyped
  <2>3. ASSUME attempt # None, attempt' = [attempt EXCEPT !.aborted = TRUE], UNCHANGED resultCandidate PROVE ResultScanTyped'
    <3>1. attempt' \in Result!Attempts
      BY <2>3 DEF ResultScanTyped, Result!Attempts
    <3> QED
      BY <2>3, <3>1 DEF ResultScanTyped
  <2> QED
    BY <1>0, <2>1, <2>2, <2>3
<1>4. NothingYet'
  BY <1>0 DEF ResultInv, ResultScanTyped, NothingYet, Without, Result!See
<1>5. AttemptIsFirst'
  BY <1>0 DEF ResultInv, ResultScanTyped, Result!Attempts, NothingYet, AttemptIsFirst, FirstIsKnown, Without, Result!See, AttemptBegun
<1>6. FirstIsKnown'
  BY <1>0 DEF ResultInv, ResultPlainTyped, ResultScanTyped, FirstIsKnown, Result!See, Result!MayAutoSave, AttemptBegun
<1>7. Result!SavedForFirstOwner'
  BY <1>0 DEF ResultInv, Result!SavedForFirstOwner, Result!See
<1>8. Result!SavedIsInHistory'
  BY <1>0 DEF ResultInv, Result!SavedIsInHistory, Result!See, AttemptBegun
<1>9. Result!TypeOK'
  BY <1>1, <1>2, <1>3 DEF Result!TypeOK, ResultPlainTyped, ResultWireTyped, ResultScanTyped
<1> QED
  BY <1>4, <1>5, <1>6, <1>7, <1>8, <1>9 DEF ResultInv

LEMMA ResultSwitchAccountKeeps ==
  ASSUME Result!Assumptions, ResultInv, NEW who \in Result!Settled, Result!SwitchAccount(who)
  PROVE  ResultInv'
<1>. ResultPlainTyped /\ ResultWireTyped /\ ResultScanTyped
  BY ResultTypeParts DEF ResultInv
<1>1. ResultPlainTyped'
  BY DEF ResultPlainTyped, Result!SwitchAccount
<1>2. ResultWireTyped'
  BY DEF ResultWireTyped, Result!SwitchAccount
<1>3. ResultScanTyped'
  BY DEF ResultScanTyped, Result!SwitchAccount
<1>4. NothingYet'
  BY DEF ResultInv, NothingYet, Without, Result!SwitchAccount
<1>5. AttemptIsFirst'
  BY DEF ResultInv, AttemptIsFirst, Without, Result!SwitchAccount
<1>6. FirstIsKnown'
  BY DEF ResultInv, FirstIsKnown, Result!SwitchAccount
<1>7. Result!SavedForFirstOwner'
  BY DEF ResultInv, Result!SavedForFirstOwner, Result!SwitchAccount
<1>8. Result!SavedIsInHistory'
  BY DEF ResultInv, Result!SavedIsInHistory, Result!SwitchAccount
<1>9. Result!TypeOK'
  BY <1>1, <1>2, <1>3 DEF Result!TypeOK, ResultPlainTyped, ResultWireTyped, ResultScanTyped
<1> QED
  BY <1>4, <1>5, <1>6, <1>7, <1>8, <1>9 DEF ResultInv


LEMMA ResultInitHolds == ASSUME Result!Assumptions, Result!Init PROVE ResultInv
<1>1. ResultPlainTyped /\ ResultWireTyped /\ ResultScanTyped
  BY DEF Result!Init, ResultPlainTyped, ResultWireTyped, ResultScanTyped
<1>2. NothingYet /\ AttemptIsFirst /\ FirstIsKnown
  BY DEF Result!Init, NothingYet, AttemptIsFirst, FirstIsKnown, Without
<1>3. Result!SavedForFirstOwner /\ Result!SavedIsInHistory
  BY DEF Result!Init, Result!SavedForFirstOwner, Result!SavedIsInHistory, Result!NoPhase
<1> QED
  BY <1>1, <1>2, <1>3, ResultTypeParts DEF ResultInv

LEMMA ResultStutterKeeps == ASSUME ResultInv, UNCHANGED Result!vars PROVE ResultInv'
BY DEF Result!vars, ResultInv, Result!TypeOK, NothingYet, AttemptIsFirst, FirstIsKnown, Without, Result!SavedForFirstOwner, Result!SavedIsInHistory

LEMMA ResultNextKeeps ==
  ASSUME Result!Assumptions, ResultInv, [Result!Next]_(Result!vars)
  PROVE  ResultInv'
<1>1. CASE Result!SaveOnDevice
  BY <1>1, ResultSaveOnDeviceKeeps
<1>2. CASE Result!Retry \/ Result!GetToken \/ Result!Fail \/ Result!Confirm
  BY <1>2, ResultRetryKeeps, ResultGetTokenKeeps, ResultFailKeeps, ResultConfirmKeeps
<1>3. CASE Result!Load \/ Result!Answer \/ Result!AnswerUnidentified
  BY <1>3, ResultLoadKeeps, ResultAnswerKeeps, ResultAnswerUnidentifiedKeeps
<1>4. ASSUME NEW a \in Account, Result!Deliver(a) \/ Result!Lose(a) PROVE ResultInv'
  BY <1>4, ResultDeliverKeeps, ResultLoseKeeps
<1>5. ASSUME NEW who \in Result!Settled \cup {Loading}, Result!See(who) PROVE ResultInv'
  BY <1>5, ResultSeeKeeps
<1>6. ASSUME NEW who \in Result!Settled, Result!SwitchAccount(who) PROVE ResultInv'
  BY <1>6, ResultSwitchAccountKeeps
<1> QED
  BY <1>1, <1>2, <1>3, <1>4, <1>5, <1>6, ResultStutterKeeps DEF Result!Next, Result!Steps

HIDE DEF Result!Assumptions, Result!Owner, Result!Settled, Result!loadVars, Result!saveVars

--------------------------------------------------------------------------------
(* Requests for products. *)

\* Requests are numbered, and each is counted at most once.
CountedOnce ==
  /\ IsFiniteSet(formWire) /\ formRow.count + Cardinality(formWire) <= sent
  /\ \A q, r \in formWire : q.n = r.n => q = r

\* Who asked is the owner, or an owner of before.
AskerIsPast == asker # None => asker.rev <= formOwner.rev /\ (asker.rev = formOwner.rev => asker = formOwner)

\* After a request of which nothing is known, the user is asked.
UnsureIsAsked == inFlight = "no" /\ unsure => Form!NeedsConfirm

\* What is said to be saved was counted.
SavedIsRow == inFlight = "saved" \/ state = "sent" => asker # None /\ formRow.count > 0

FormInv ==
  /\ Form!TypeOK /\ CountedOnce /\ AskerIsPast /\ UnsureIsAsked /\ SavedIsRow
  /\ Form!NoSilentRepeat

LEMMA FormInitHolds == ASSUME Form!Assumptions, Form!Init PROVE FormInv
<1>1. Form!TypeOK
  <2>1. formOwner \in Form!Owner /\ 0 \in 0..MaxSent /\ formRow \in [count : 0..MaxSent, hint : Hint \cup {None}]
    BY DEF Form!Init, Form!Assumptions, Form!Owner
  <2> QED
    BY <2>1 DEF Form!Init, Form!TypeOK
<1>2. CountedOnce
  BY FS_EmptySet DEF Form!Init, CountedOnce
<1>3. AskerIsPast /\ UnsureIsAsked /\ SavedIsRow /\ Form!NoSilentRepeat
  BY DEF Form!Init, AskerIsPast, UnsureIsAsked, SavedIsRow, Form!NoSilentRepeat
<1> QED
  BY <1>1, <1>2, <1>3 DEF FormInv

LEMMA FormSeeKeeps ==
  ASSUME Form!Assumptions, FormInv, NEW who \in Account \cup {Guest}, Form!See(who)
  PROVE  FormInv'
<1>1. Form!TypeOK'
  BY DEF FormInv, Form!See, Form!TypeOK, Form!Assumptions, Form!Owner
<1>2. CountedOnce' /\ SavedIsRow' /\ Form!NoSilentRepeat'
  BY DEF FormInv, Form!See, CountedOnce, SavedIsRow, Form!NoSilentRepeat
<1>3. AskerIsPast' /\ (asker # None => asker # formOwner')
  BY DEF FormInv, Form!See, AskerIsPast, Form!TypeOK, Form!Assumptions, Form!Owner
<1>4. UnsureIsAsked'
  BY <1>3 DEF FormInv, Form!See, UnsureIsAsked, Form!NeedsConfirm, Form!TypeOK
<1> QED
  BY <1>1, <1>2, <1>3, <1>4 DEF FormInv

LEMMA FormAskKeeps ==
  ASSUME Form!Assumptions, FormInv, NEW hint \in Hint \cup {None}, Form!Ask(hint)
  PROVE  FormInv'
<1> DEFINE q == [n |-> sent + 1, hint |-> hint]
<1>1. /\ sent \in Nat /\ sent' = sent + 1 /\ sent' \in 1..MaxSent /\ formWire' = formWire \cup {q}
      /\ \A r \in formWire : r.n \in 1..sent
      /\ formRow' = formRow /\ formRow.count \in Nat
  BY DEF FormInv, Form!Ask, Form!TypeOK, Form!Assumptions
<1>2. q \notin formWire
  BY <1>1
<1>3. Form!TypeOK'
  <2>1. formWire' \subseteq [n : 1..sent', hint : Hint \cup {None}]
    BY <1>1 DEF FormInv, Form!TypeOK
  <2> QED
    BY <1>1, <2>1 DEF FormInv, Form!Ask, Form!TypeOK, Form!Assumptions
<1>4. CountedOnce'
  <2>1. IsFiniteSet(formWire') /\ Cardinality(formWire') = Cardinality(formWire) + 1 /\ Cardinality(formWire) \in Nat
    BY <1>1, <1>2, FS_AddElement, FS_CardinalityType DEF FormInv, CountedOnce
  <2>2. \A r, s \in formWire' : r.n = s.n => r = s
    BY <1>1 DEF FormInv, CountedOnce
  <2> QED
    BY <1>1, <2>1, <2>2 DEF FormInv, CountedOnce
<1>5. AskerIsPast' /\ UnsureIsAsked'
  BY DEF Form!Ask, AskerIsPast, UnsureIsAsked, FormInv, Form!TypeOK, Form!Owner
<1>6. SavedIsRow' /\ Form!NoSilentRepeat'
  BY DEF FormInv, Form!Ask, SavedIsRow, Form!NoSilentRepeat, UnsureIsAsked
<1> QED
  BY <1>3, <1>4, <1>5, <1>6 DEF FormInv

LEMMA FormDeliverKeeps ==
  ASSUME Form!Assumptions, FormInv, NEW q \in formWire, Form!Deliver(q)
  PROVE  FormInv'
<1>1. /\ sent \in Nat /\ sent <= MaxSent /\ formWire' = formWire \ {q} /\ formRow'.count = formRow.count + 1 /\ formRow.count \in Nat
      /\ MaxSent \in Nat
  BY DEF FormInv, Form!Deliver, Form!TypeOK, Form!Assumptions
<1>2. CountedOnce' /\ formRow'.count <= MaxSent
  <2>1. IsFiniteSet(formWire') /\ Cardinality(formWire') = Cardinality(formWire) - 1 /\ Cardinality(formWire) \in Nat /\ Cardinality(formWire') \in Nat
    BY <1>1, FS_RemoveElement, FS_CardinalityType DEF FormInv, CountedOnce
  <2>2. \A r, s \in formWire' : r.n = s.n => r = s
    BY <1>1 DEF FormInv, CountedOnce
  <2>3. sent' = sent /\ formRow.count + Cardinality(formWire) <= sent
    BY DEF Form!Deliver, FormInv, CountedOnce
  <2> QED
    BY <1>1, <2>1, <2>2, <2>3 DEF CountedOnce
<1>3. Form!TypeOK'
  <2>1. formRow' \in [count : 0..MaxSent, hint : Hint \cup {None}]
    BY <1>1, <1>2 DEF FormInv, Form!Deliver, Form!TypeOK
  <2>2. inFlight' = "saved" => \A r \in formWire' : r.n # sent
    BY DEF FormInv, Form!Deliver, Form!TypeOK, CountedOnce
  <2> QED
    BY <2>1, <2>2 DEF FormInv, Form!Deliver, Form!TypeOK
<1>4. AskerIsPast' /\ UnsureIsAsked' /\ Form!NoSilentRepeat'
  BY DEF FormInv, Form!Deliver, AskerIsPast, UnsureIsAsked, Form!NeedsConfirm, Form!NoSilentRepeat, Form!TypeOK
<1>5. SavedIsRow'
  BY <1>1 DEF FormInv, Form!Deliver, SavedIsRow, Form!TypeOK
<1> QED
  BY <1>2, <1>3, <1>4, <1>5 DEF FormInv

LEMMA FormRefuseKeeps ==
  ASSUME Form!Assumptions, FormInv, Form!Refuse
  PROVE  FormInv'
<1>1. Form!TypeOK'
  BY DEF FormInv, Form!Refuse, Form!TypeOK
<1>2. CountedOnce' /\ AskerIsPast' /\ Form!NoSilentRepeat'
  BY DEF FormInv, Form!Refuse, CountedOnce, AskerIsPast, Form!NoSilentRepeat
<1>3. UnsureIsAsked' /\ SavedIsRow'
  BY DEF FormInv, Form!Refuse, UnsureIsAsked, SavedIsRow
<1> QED
  BY <1>1, <1>2, <1>3 DEF FormInv

LEMMA FormAnsweredKeeps ==
  ASSUME Form!Assumptions, FormInv, Form!Answered
  PROVE  FormInv'
<1>1. Form!TypeOK'
  BY DEF FormInv, Form!Answered, Form!TypeOK, Form!Told
<1>2. CountedOnce' /\ AskerIsPast' /\ Form!NoSilentRepeat'
  BY DEF FormInv, Form!Answered, CountedOnce, AskerIsPast, Form!NoSilentRepeat
<1>3. UnsureIsAsked'
  BY DEF FormInv, Form!Answered, UnsureIsAsked, Form!NeedsConfirm, Form!Told, Form!TypeOK
<1>4. SavedIsRow'
  BY DEF FormInv, Form!Answered, SavedIsRow, Form!Told, Form!TypeOK
<1> QED
  BY <1>1, <1>2, <1>3, <1>4 DEF FormInv

LEMMA FormStutterKeeps == ASSUME FormInv, UNCHANGED Form!vars PROVE FormInv'
BY DEF Form!vars, FormInv, Form!TypeOK, CountedOnce, AskerIsPast, UnsureIsAsked, Form!NeedsConfirm, SavedIsRow, Form!NoSilentRepeat

LEMMA FormNextKeeps == ASSUME Form!Assumptions, FormInv, [Form!Next]_(Form!vars) PROVE FormInv'
BY FormSeeKeeps, FormAskKeeps, FormDeliverKeeps, FormRefuseKeeps, FormAnsweredKeeps, FormStutterKeeps DEF Form!Next

LEMMA FormImplied == FormInv => Form!TypeOK /\ Form!NoSilentRepeat /\ Form!SavedIsCounted
BY DEF FormInv, Form!SavedIsCounted, SavedIsRow, Form!Visible

--------------------------------------------------------------------------------
(* Notes from a label. *)

\* The box is ticked only while the page is open, and for entries the user has checked.
TickIsMeant == confirmed => open /\ (fields = watched => checked)

NotesInv ==
  /\ Notes!TypeOK /\ TickIsMeant /\ watched # Notes!Empty
  /\ Notes!NotesWereChecked /\ Notes!WordIsKept

USE DEF Notes!Entries, Notes!Notes, Notes!Empty

LEMMA NotesInitHolds == ASSUME Notes!Init PROVE NotesInv
BY DEF Notes!Init, NotesInv, Notes!TypeOK, TickIsMeant, Notes!NotesWereChecked, Notes!WordIsKept

LEMMA NotesOpenKeeps == ASSUME NotesInv, Notes!Open PROVE NotesInv'
<1>1. Notes!TypeOK'
  BY DEF NotesInv, Notes!TypeOK, Notes!Open
<1>2. TickIsMeant' /\ watched' # Notes!Empty /\ Notes!NotesWereChecked' /\ Notes!WordIsKept'
  BY DEF NotesInv, Notes!Open, TickIsMeant, Notes!NotesWereChecked, Notes!WordIsKept
<1> QED
  BY <1>1, <1>2 DEF NotesInv

LEMMA NotesCloseKeeps == ASSUME NotesInv, Notes!Close PROVE NotesInv'
<1>1. Notes!TypeOK'
  BY DEF NotesInv, Notes!TypeOK, Notes!Close
<1>2. TickIsMeant' /\ watched' # Notes!Empty /\ Notes!NotesWereChecked' /\ Notes!WordIsKept'
  BY DEF NotesInv, Notes!Close, TickIsMeant, Notes!NotesWereChecked, Notes!WordIsKept
<1> QED
  BY <1>1, <1>2 DEF NotesInv

LEMMA NotesEditKeeps ==
  ASSUME NotesInv, NEW f \in Field, NEW value \in Value \cup {Blank, NoAmount}, Notes!Edit(f, value)
  PROVE  NotesInv'
<1>1. Notes!TypeOK'
  BY DEF NotesInv, Notes!TypeOK, Notes!Edit
<1>2. TickIsMeant' /\ watched' # Notes!Empty /\ Notes!NotesWereChecked' /\ Notes!WordIsKept'
  BY DEF NotesInv, Notes!Edit, TickIsMeant, Notes!NotesWereChecked, Notes!WordIsKept
<1> QED
  BY <1>1, <1>2 DEF NotesInv

LEMMA NotesConfirmKeeps == ASSUME NotesInv, Notes!Confirm PROVE NotesInv'
<1>1. Notes!TypeOK'
  BY DEF NotesInv, Notes!TypeOK, Notes!Confirm
<1>2. TickIsMeant'
  BY DEF NotesInv, Notes!TypeOK, Notes!Confirm, TickIsMeant
<1>3. watched' # Notes!Empty /\ Notes!NotesWereChecked' /\ Notes!WordIsKept'
  BY DEF NotesInv, Notes!Confirm, Notes!NotesWereChecked, Notes!WordIsKept
<1> QED
  BY <1>1, <1>2, <1>3 DEF NotesInv

LEMMA NotesSaveKeeps == ASSUME NotesInv, Notes!Save PROVE NotesInv'
<1>1. Notes!TypeOK'
  BY DEF NotesInv, Notes!TypeOK, Notes!Save, Notes!Valid
<1>2. TickIsMeant' /\ watched' # Notes!Empty
  BY DEF NotesInv, Notes!Save, TickIsMeant
<1>3. Notes!NotesWereChecked'
  BY DEF NotesInv, Notes!Save, TickIsMeant, Notes!NotesWereChecked
<1>4. Notes!WordIsKept'
  BY DEF Notes!Save, Notes!Valid, Notes!WordIsKept
<1> QED
  BY <1>1, <1>2, <1>3, <1>4 DEF NotesInv

LEMMA NotesClearKeeps == ASSUME NotesInv, Notes!Clear PROVE NotesInv'
<1>1. Notes!TypeOK'
  BY DEF NotesInv, Notes!TypeOK, Notes!Clear
<1>2. TickIsMeant' /\ watched' # Notes!Empty /\ Notes!NotesWereChecked' /\ Notes!WordIsKept'
  BY DEF NotesInv, Notes!Clear, TickIsMeant, Notes!NotesWereChecked, Notes!WordIsKept
<1> QED
  BY <1>1, <1>2 DEF NotesInv

LEMMA NotesStutterKeeps == ASSUME NotesInv, UNCHANGED Notes!vars PROVE NotesInv'
BY DEF Notes!vars, NotesInv, Notes!TypeOK, TickIsMeant, Notes!NotesWereChecked, Notes!WordIsKept

LEMMA NotesNextKeeps == ASSUME NotesInv, [Notes!Next]_(Notes!vars) PROVE NotesInv'
BY NotesOpenKeeps, NotesCloseKeeps, NotesEditKeeps, NotesConfirmKeeps, NotesSaveKeeps, NotesClearKeeps, NotesStutterKeeps DEF Notes!Next

LEMMA NotesImplied == NotesInv => Notes!TypeOK /\ Notes!NotesWereChecked /\ Notes!WordIsKept
BY DEF NotesInv

HIDE DEF Notes!Entries, Notes!Notes, Notes!Empty

--------------------------------------------------------------------------------
(* Copies for when the network fails. *)

\* What is about to be kept, or might be, is a response the server gave.
ResponsesAreGiven ==
  /\ responses \in 1..MaxResponses
  /\ response \in [Request -> Offline!Response \cup {None}] /\ answer \in [Request -> Offline!Answers \cup {None}]
  /\ \A q \in Request : pc[q] \in {"deciding", "keeping"} =>
       response[q] # None /\ response[q].n <= responses /\ response[q].kind # "error"

\* A copy of an earlier cache that has been carried over is in the new one, and all are
\* before the earlier caches are deleted.
OldIsSafe ==
  /\ \A c \in Carried : old[c] # None => old[c] = [n |-> 1, kind |-> "facts"]
  /\ worker = "copying" => \A c \in Carried \ todo : old[c] = None \/ runtime # None
  /\ worker = "deleting" => \A c \in Carried : old[c] = None \/ runtime # None

\* Requests are handled once the worker is active.
ActiveFirst == \A q \in Request : pc[q] # "idle" => worker = "active"

OfflineInv == Offline!TypeOK /\ ResponsesAreGiven /\ OldIsSafe /\ ActiveFirst /\ Offline!NothingLostByUpdate

\* What may be kept when that is decided may be kept when it is, unless another was kept
\* in between.
DecidedRight == \A q \in Request : pc[q] = "keeping" => q \in passed \/ Offline!MayKeep(q)

LEMMA OfflineInitHolds == ASSUME Offline!Assumptions, Offline!Init PROVE OfflineInv /\ DecidedRight
<1>1. Offline!TypeOK /\ ResponsesAreGiven
  BY DEF Offline!Init, Offline!TypeOK, ResponsesAreGiven, Offline!Assumptions, Offline!Response, Offline!Kind, Offline!Earlier
<1>2. OldIsSafe /\ ActiveFirst /\ Offline!NothingLostByUpdate /\ DecidedRight
  BY DEF Offline!Init, OldIsSafe, ActiveFirst, Offline!NothingLostByUpdate, DecidedRight, Offline!Earlier
<1> QED
  BY <1>1, <1>2 DEF OfflineInv

LEMMA OfflineUpdatingKeeps == ASSUME Offline!Assumptions, OfflineInv, Offline!Updating PROVE OfflineInv'
<1> USE DEF Offline!asks
<1>1. ResponsesAreGiven' /\ UNCHANGED <<responses, pc, response, answer, passed, had>>
  BY DEF OfflineInv, ResponsesAreGiven, Offline!Updating, Offline!Activate, Offline!Carry, Offline!CarryFails, Offline!Carries, Offline!DeleteOld
<1>2. ActiveFirst'
  BY <1>1 DEF OfflineInv, ActiveFirst, Offline!Updating, Offline!Activate, Offline!Carry, Offline!CarryFails, Offline!Carries, Offline!DeleteOld
<1>3. CASE Offline!Activate \/ Offline!CarryFails \/ Offline!Carries
  <2>1. UNCHANGED <<old, runtime>> /\ worker' \in {"copying", "active", "deleting"} /\ todo' \subseteq Carried
        /\ (worker' = "copying" => todo' = Carried) /\ (worker' = "deleting" => worker = "copying" /\ todo = {})
    BY <1>3 DEF Offline!Activate, Offline!CarryFails, Offline!Carries, OfflineInv, Offline!TypeOK
  <2>2. OldIsSafe' /\ Offline!NothingLostByUpdate'
    BY <1>1, <2>1 DEF OfflineInv, OldIsSafe, Offline!NothingLostByUpdate
  <2>3. Offline!TypeOK'
    BY <1>1, <2>1 DEF OfflineInv, Offline!TypeOK
  <2> QED
    BY <1>1, <1>2, <2>2, <2>3 DEF OfflineInv
<1>4. ASSUME NEW c \in Carried, Offline!Carry(c) PROVE OfflineInv'
  <2>1. /\ UNCHANGED <<worker, old>> /\ worker = "copying" /\ todo' = todo \ {c}
        /\ runtime' = IF runtime = None THEN old[c] ELSE runtime
    BY <1>4 DEF Offline!Carry
  <2>2. runtime' # None => runtime' \in Offline!Response /\ runtime'.n <= responses /\ runtime'.kind # "error"
    BY <2>1 DEF OfflineInv, Offline!TypeOK, ResponsesAreGiven, OldIsSafe, Offline!Response, Offline!Kind, Offline!Assumptions
  <2>3. OldIsSafe' /\ Offline!NothingLostByUpdate'
    BY <1>1, <2>1 DEF OfflineInv, OldIsSafe, Offline!NothingLostByUpdate
  <2>4. Offline!TypeOK'
    BY <1>1, <2>1, <2>2 DEF OfflineInv, Offline!TypeOK
  <2> QED
    BY <1>1, <1>2, <2>3, <2>4 DEF OfflineInv
<1>5. CASE Offline!DeleteOld
  <2>1. /\ worker = "deleting" /\ worker' = "active" /\ UNCHANGED <<todo, runtime>>
        /\ old' \in [Carried \cup Dropped -> Offline!Response \cup {None}]
        /\ \A c \in Carried \cup Dropped : old'[c] \in {None, old[c]}
    BY <1>5 DEF Offline!DeleteOld, OfflineInv, Offline!TypeOK
  <2>2. OldIsSafe' /\ Offline!NothingLostByUpdate'
    BY <1>1, <2>1 DEF OfflineInv, OldIsSafe, Offline!NothingLostByUpdate
  <2>3. Offline!TypeOK'
    BY <1>1, <2>1 DEF OfflineInv, Offline!TypeOK
  <2> QED
    BY <1>1, <1>2, <2>2, <2>3 DEF OfflineInv
<1> QED
  BY <1>3, <1>4, <1>5 DEF Offline!Updating

\* A step of a request touches neither the update nor, unless it keeps, the copy.
LEMMA OfflineRequestKeeps ==
  ASSUME Offline!Assumptions, OfflineInv, UNCHANGED Offline!update, runtime' = runtime, Offline!TypeOK', ResponsesAreGiven', ActiveFirst'
  PROVE  OfflineInv'
BY DEF OfflineInv, Offline!update, OldIsSafe, Offline!NothingLostByUpdate

LEMMA OfflineAnswerIs ==
  ASSUME Offline!Assumptions, NEW r \in Offline!Response \cup {None}, NEW s \in BOOLEAN
  PROVE  [response |-> r, stale |-> s] \in Offline!Answers /\ [response |-> r, stale |-> s] # None
<1>1. [response |-> r, stale |-> s] \in Offline!Answers
  BY DEF Offline!Answers
<1>2. None \notin Offline!Answers
  BY DEF Offline!Assumptions
<1> QED
  BY <1>1, <1>2

LEMMA OfflineAskKeeps == ASSUME Offline!Assumptions, OfflineInv, NEW q \in Request, Offline!Ask(q) PROVE OfflineInv'
<1>1. Offline!TypeOK' /\ ActiveFirst'
  BY DEF OfflineInv, Offline!TypeOK, ActiveFirst, Offline!Ask, Offline!update
<1>2. ResponsesAreGiven'
  BY DEF OfflineInv, ResponsesAreGiven, Offline!TypeOK, Offline!Ask, Offline!update
<1> QED
  BY <1>1, <1>2, OfflineRequestKeeps DEF Offline!Ask

LEMMA OfflineRespondKeeps ==
  ASSUME Offline!Assumptions, OfflineInv, NEW q \in Request, NEW kind \in Offline!Kind, Offline!Respond(q, kind)
  PROVE  OfflineInv'
<1> DEFINE r == [n |-> responses + 1, kind |-> kind]
<1>1. r \in Offline!Response /\ r # None /\ responses' \in 1..MaxResponses /\ responses \in Nat /\ responses' = responses + 1
      /\ response' = [response EXCEPT ![q] = r] /\ response'[q] = r
  BY DEF OfflineInv, ResponsesAreGiven, Offline!Respond, Offline!Response, Offline!Assumptions
<1>2. [response |-> r, stale |-> FALSE] \in Offline!Answers /\ [response |-> r, stale |-> FALSE] # None
  BY <1>1, OfflineAnswerIs
<1>3. /\ pc' = [pc EXCEPT ![q] = IF kind = "error" THEN "answered" ELSE "deciding"]
      /\ kind = "error" => answer' = [answer EXCEPT ![q] = [response |-> r, stale |-> FALSE]]
      /\ kind # "error" => answer' = answer
      /\ UNCHANGED <<worker, todo, old, had, runtime, passed>> /\ pc[q] = "asking"
  BY <1>1 DEF Offline!Respond, Offline!update
<1> HIDE DEF r
<1>4. Offline!TypeOK'
  BY <1>1, <1>2, <1>3 DEF OfflineInv, ResponsesAreGiven, Offline!TypeOK, Offline!Response
<1>5. ActiveFirst'
  BY <1>3 DEF OfflineInv, Offline!TypeOK, ActiveFirst
<1>6. ResponsesAreGiven'
  <2>1. r.n = responses + 1 /\ r.kind = kind
    BY DEF r
  <2>2. response' \in [Request -> Offline!Response \cup {None}] /\ answer' \in [Request -> Offline!Answers \cup {None}]
    BY <1>1, <1>2, <1>3 DEF OfflineInv, ResponsesAreGiven
  <2>3. ASSUME NEW p \in Request, pc'[p] \in {"deciding", "keeping"}
        PROVE  response'[p] # None /\ response'[p].n <= responses' /\ response'[p].kind # "error"
    <3>1. CASE p = q
      BY <1>1, <1>3, <2>1, <2>3, <3>1 DEF OfflineInv, ResponsesAreGiven, Offline!TypeOK
    <3>2. CASE p # q
      BY <1>1, <1>3, <2>3, <3>2 DEF OfflineInv, ResponsesAreGiven, Offline!TypeOK, Offline!Response
    <3> QED
      BY <3>1, <3>2
  <2> QED
    BY <1>1, <2>2, <2>3 DEF ResponsesAreGiven
<1> QED
  BY <1>3, <1>4, <1>5, <1>6, OfflineRequestKeeps DEF Offline!update

LEMMA OfflineDecideKeeps == ASSUME Offline!Assumptions, OfflineInv, NEW q \in Request, Offline!Decide(q) PROVE OfflineInv'
<1>1. [response |-> response[q], stale |-> FALSE] \in Offline!Answers /\ [response |-> response[q], stale |-> FALSE] # None
  BY OfflineAnswerIs DEF OfflineInv, ResponsesAreGiven
<1>2. Offline!TypeOK' /\ ActiveFirst'
  BY <1>1 DEF OfflineInv, ResponsesAreGiven, Offline!TypeOK, ActiveFirst, Offline!Decide, Offline!update
<1>3. ResponsesAreGiven'
  BY <1>1 DEF OfflineInv, ResponsesAreGiven, Offline!TypeOK, Offline!Decide, Offline!update
<1> QED
  BY <1>2, <1>3, OfflineRequestKeeps DEF Offline!Decide

LEMMA OfflineKeepKeeps == ASSUME Offline!Assumptions, OfflineInv, NEW q \in Request, Offline!Keep(q) PROVE OfflineInv'
<1>1. [response |-> response[q], stale |-> FALSE] \in Offline!Answers /\ [response |-> response[q], stale |-> FALSE] # None
  BY OfflineAnswerIs DEF OfflineInv, ResponsesAreGiven
<1>2. /\ runtime' \in Offline!Response /\ runtime' # None /\ runtime'.n <= responses /\ runtime'.kind # "error"
      /\ UNCHANGED <<worker, todo, old, had, responses, response>> /\ passed' \subseteq {r \in Request : pc[r] = "keeping"} \ {q}
      /\ pc' = [pc EXCEPT ![q] = "answered"] /\ answer' = [answer EXCEPT ![q] = [response |-> response[q], stale |-> FALSE]]
  BY DEF OfflineInv, ResponsesAreGiven, Offline!Keep, Offline!update
<1>3. Offline!TypeOK' /\ ActiveFirst'
  BY <1>1, <1>2 DEF OfflineInv, ResponsesAreGiven, Offline!TypeOK, ActiveFirst, Offline!Keep
<1>4. ResponsesAreGiven'
  BY <1>1, <1>2 DEF OfflineInv, ResponsesAreGiven, Offline!TypeOK
<1>5. OldIsSafe' /\ Offline!NothingLostByUpdate'
  BY <1>2 DEF OfflineInv, OldIsSafe, Offline!NothingLostByUpdate
<1> QED
  BY <1>3, <1>4, <1>5 DEF OfflineInv

LEMMA OfflineFailsKeeps ==
  ASSUME Offline!Assumptions, OfflineInv, NEW q \in Request, Offline!KeepFails(q) \/ Offline!NetworkFails(q)
  PROVE  OfflineInv'
<1>1. Offline!TypeOK' /\ ActiveFirst'
  BY DEF OfflineInv, Offline!TypeOK, ActiveFirst, Offline!KeepFails, Offline!NetworkFails, Offline!update
<1>2. ResponsesAreGiven'
  BY DEF OfflineInv, ResponsesAreGiven, Offline!TypeOK, Offline!KeepFails, Offline!NetworkFails
<1> QED
  BY <1>1, <1>2, OfflineRequestKeeps DEF Offline!KeepFails, Offline!NetworkFails

LEMMA OfflineAnswerCopyKeeps == ASSUME Offline!Assumptions, OfflineInv, NEW q \in Request, Offline!AnswerCopy(q) PROVE OfflineInv'
<1>1. Offline!Stale(runtime) \in Offline!Answers /\ Offline!Stale(runtime) # None
  BY OfflineAnswerIs DEF OfflineInv, Offline!TypeOK, Offline!Stale
<1>2. Offline!TypeOK' /\ ActiveFirst'
  BY <1>1 DEF OfflineInv, ResponsesAreGiven, Offline!TypeOK, ActiveFirst, Offline!AnswerCopy, Offline!update
<1>3. ResponsesAreGiven'
  BY <1>1 DEF OfflineInv, ResponsesAreGiven, Offline!TypeOK, Offline!AnswerCopy
<1> QED
  BY <1>2, <1>3, OfflineRequestKeeps DEF Offline!AnswerCopy

LEMMA OfflineDoneKeeps == ASSUME Offline!Assumptions, OfflineInv, NEW q \in Request, Offline!Done(q) PROVE OfflineInv'
<1>1. Offline!TypeOK' /\ ActiveFirst'
  BY DEF OfflineInv, Offline!TypeOK, ActiveFirst, Offline!Done, Offline!update
<1>2. ResponsesAreGiven'
  BY DEF OfflineInv, ResponsesAreGiven, Offline!TypeOK, Offline!Done
<1> QED
  BY <1>1, <1>2, OfflineRequestKeeps DEF Offline!Done

LEMMA OfflineStutterKeeps == ASSUME OfflineInv, UNCHANGED Offline!vars PROVE OfflineInv'
BY DEF Offline!vars, Offline!update, Offline!asks, OfflineInv, Offline!TypeOK, ResponsesAreGiven, OldIsSafe, ActiveFirst, Offline!NothingLostByUpdate

LEMMA OfflineNextKeeps == ASSUME Offline!Assumptions, OfflineInv, [Offline!Next]_(Offline!vars) PROVE OfflineInv'
BY OfflineUpdatingKeeps, OfflineAskKeeps, OfflineRespondKeeps, OfflineDecideKeeps, OfflineKeepKeeps, OfflineFailsKeeps, OfflineAnswerCopyKeeps, OfflineDoneKeeps,
   OfflineStutterKeeps DEF Offline!Next

\* The steps of a request that keep nothing and decide nothing.
LEMMA OfflineOthers ==
  ASSUME OfflineInv, [Offline!Next]_(Offline!vars), \A q \in Request : ~Offline!Decide(q) /\ ~Offline!Keep(q)
  PROVE  /\ runtime' # runtime => ~Offline!HasFacts(runtime) /\ worker # "active"
         /\ \A q \in Request : pc'[q] = "keeping" =>
              pc[q] = "keeping" /\ response'[q] = response[q] /\ (q \in passed => q \in passed')
<1> USE DEF Offline!HasFacts, Offline!update, Offline!asks
<1>1. CASE Offline!Updating
  BY <1>1 DEF Offline!Updating, Offline!Activate, Offline!Carry, Offline!CarryFails, Offline!Carries, Offline!DeleteOld
<1>2. CASE UNCHANGED Offline!vars
  BY <1>2 DEF Offline!vars
<1>3. ASSUME NEW q \in Request, NEW kind \in Offline!Kind, Offline!Respond(q, kind)
      PROVE  runtime' = runtime /\ \A r \in Request : pc'[r] = "keeping" => pc[r] = "keeping" /\ response'[r] = response[r] /\ passed' = passed
  BY <1>3 DEF Offline!Respond, OfflineInv, Offline!TypeOK, ResponsesAreGiven
<1>4. ASSUME NEW q \in Request, Offline!Ask(q) \/ Offline!KeepFails(q) \/ Offline!NetworkFails(q) \/ Offline!AnswerCopy(q) \/ Offline!Done(q)
      PROVE  runtime' = runtime /\ \A r \in Request : pc'[r] = "keeping" => pc[r] = "keeping" /\ response'[r] = response[r] /\ (r \in passed => r \in passed')
  BY <1>4 DEF Offline!Ask, Offline!KeepFails, Offline!NetworkFails, Offline!AnswerCopy, Offline!Done, OfflineInv, Offline!TypeOK, ResponsesAreGiven
<1> QED
  BY <1>1, <1>2, <1>3, <1>4 DEF Offline!Next

LEMMA OfflineDecidedRightKeeps ==
  ASSUME OfflineInv, DecidedRight, [Offline!Next]_(Offline!vars)
  PROVE  DecidedRight'
<1>1. ASSUME NEW r \in Request, Offline!Decide(r) PROVE DecidedRight'
  BY <1>1 DEF OfflineInv, Offline!TypeOK, DecidedRight, Offline!Decide, Offline!MayKeep
<1>2. ASSUME NEW r \in Request, Offline!Keep(r) PROVE DecidedRight'
  BY <1>2 DEF OfflineInv, Offline!TypeOK, DecidedRight, Offline!Keep
<1>3. CASE \A r \in Request : ~Offline!Decide(r) /\ ~Offline!Keep(r)
  <2>1. ASSUME NEW q \in Request, pc'[q] = "keeping" PROVE q \in passed' \/ Offline!MayKeep(q)'
    <3>1. pc[q] = "keeping" /\ response'[q] = response[q] /\ (q \in passed => q \in passed') /\ (runtime' # runtime => worker # "active")
      BY <1>3, <2>1, OfflineOthers
    <3>2. worker = "active"
      BY <3>1 DEF OfflineInv, ActiveFirst
    <3> QED
      BY <3>1, <3>2 DEF DecidedRight, Offline!MayKeep
  <2> QED
    BY <2>1 DEF DecidedRight
<1> QED
  BY <1>1, <1>2, <1>3

LEMMA OfflineOutageKept ==
  ASSUME OfflineInv, DecidedRight, [Offline!Next]_(Offline!vars), Offline!HasFacts(runtime), runtime' # runtime, runtime'.kind = "outage"
  PROVE  \E q \in passed : response[q] = runtime'
<1>1. \E q \in Request : Offline!Keep(q)
  BY OfflineOthers DEF Offline!Decide
<1>2. PICK q \in Request : Offline!Keep(q)
  BY <1>1
<1>3. q \in passed /\ response[q] = runtime'
  BY <1>2 DEF Offline!Keep, DecidedRight, Offline!MayKeep
<1> QED
  BY <1>3

LEMMA OfflineImplied == OfflineInv => Offline!TypeOK /\ Offline!NothingLostByUpdate
BY DEF OfflineInv

--------------------------------------------------------------------------------
(* Together. *)

LEMMA PartsStep ==
  ASSUME [NextParts]_everything
  PROVE  /\ [Next]_vars /\ [Scans!Next]_(Scans!vars) /\ [Result!Next]_(Result!vars)
         /\ [Form!Next]_(Form!vars) /\ [Notes!Next]_(Notes!vars) /\ [Offline!Next]_(Offline!vars)
<1>1. [Next]_vars
  BY DEF NextParts, everything
<1>2. [Scans!Next]_(Scans!vars)
  BY DEF NextParts, everything, scanVars, Scans!vars, Scans!rowVars, Scans!saveVars
<1>3. [Result!Next]_(Result!vars)
  BY DEF NextParts, everything, resultVars, Result!vars, Result!loadVars, Result!saveVars
<1>4. [Form!Next]_(Form!vars)
  BY DEF NextParts, everything, formVars, Form!vars
<1>5. [Notes!Next]_(Notes!vars)
  BY DEF NextParts, everything, noteVars, Notes!vars
<1>6. [Offline!Next]_(Offline!vars)
  BY DEF NextParts, everything, offlineVars, Offline!vars, Offline!update, Offline!asks
<1> QED
  BY <1>1, <1>2, <1>3, <1>4, <1>5, <1>6

\* Unless it is asked for again, a scan goes to the first owner who was settled, and a row or
\* a page that says the scan is saved is right (scan-queue.tsx, recordSuccessfulScan of
\* result/page.tsx): for any rows, accounts, changes of the session and late or lost answers.
THEOREM ScansStayWithTheirOwners == SpecParts => []ScansBelong
<1>1. Scans!Assumptions /\ Result!Assumptions
  BY PartsAssumption
<1>2. InitParts => ScansInv /\ ResultInv
  BY <1>1, ScansInitHolds, ResultInitHolds DEF InitParts
<1>3. ScansInv /\ ResultInv /\ [NextParts]_everything => ScansInv' /\ ResultInv'
  BY <1>1, ScansNextKeeps, ResultNextKeeps, PartsStep
<1>4. ScansInv /\ ResultInv => ScansBelong
  BY DEF ScansInv, ResultInv, ScansBelong
<1> QED
  BY <1>2, <1>3, <1>4, PTL DEF SpecParts

\* A request that may have been saved is not sent again unasked, one that is said to be saved
\* was counted (result/page.tsx, recordProductRequest of db.js); notes that are shown or stored
\* were checked by the user, and what was said of the device is so (label-data-input.tsx): for
\* any sessions, hints and fields.
THEOREM SaidStaysTrue == SpecParts => []SaidIsTrue
<1>1. Form!Assumptions
  BY PartsAssumption
<1>2. InitParts => FormInv /\ NotesInv
  BY <1>1, FormInitHolds, NotesInitHolds DEF InitParts
<1>3. FormInv /\ NotesInv /\ [NextParts]_everything => FormInv' /\ NotesInv'
  BY <1>1, FormNextKeeps, NotesNextKeeps, PartsStep
<1>4. FormInv /\ NotesInv => SaidIsTrue
  BY FormImplied, NotesImplied DEF SaidIsTrue
<1> QED
  BY <1>2, <1>3, <1>4, PTL DEF SpecParts

\* An update of the service worker never loses the copies of the caches it carries over, and
\* an outage evicts no facts but those kept after it was decided on: for any requests at the
\* same time, any earlier caches, whatever fails and however often the server answers (sw.js).
THEOREM OfflineStaysKept == SpecParts => OfflineIsKept
<1>1. Offline!Assumptions
  BY PartsAssumption
<1>2. InitParts => OfflineInv /\ DecidedRight
  BY <1>1, OfflineInitHolds DEF InitParts
<1>3. OfflineInv /\ DecidedRight /\ [NextParts]_everything => OfflineInv' /\ DecidedRight'
  BY <1>1, OfflineNextKeeps, OfflineDecidedRightKeeps, PartsStep
<1>4. OfflineInv => (part = "offline" => Offline!TypeOK /\ Offline!NothingLostByUpdate)
  BY OfflineImplied
<1>5. OfflineInv /\ DecidedRight /\ [NextParts]_everything =>
        [Offline!HasFacts(runtime) /\ runtime' # runtime /\ runtime'.kind = "outage" =>
           \E q \in passed : response[q] = runtime']_(Offline!vars)
  BY OfflineOutageKept, PartsStep
<1> QED
  BY <1>2, <1>3, <1>4, <1>5, PTL DEF SpecParts, OfflineIsKept, Offline!OutageKeepsFacts

\* The guest's part is GuestSync with some of its tabs and accounts, so what holds of all of
\* them holds of it.
THEOREM GuestDataStaysInParts == SpecParts => []GuestDataIsKept
<1>1. InitParts => IInv
  BY InitIInv DEF InitParts
<1>2. IInv /\ [NextParts]_everything => IInv'
  BY NextIInv, PartsStep
<1>3. IInv => GuestDataIsKept
  BY DEF IInv, GuestDataIsKept
<1> QED
  BY <1>1, <1>2, <1>3, PTL DEF SpecParts
================================================================================
