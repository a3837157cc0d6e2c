------------------------------ MODULE PagesProofs ------------------------------
(***************************************************************************)
(* Proofs about pages and controls of the PWA, for any constants of the    *)
(* parts of MCPages that are proved about here: the history, the alerts,   *)
(* the star, the camera and the panel.                                     *)
(*                                                                         *)
(* History: the page may hold the history of another while it does not     *)
(* show it, and a request of before may be under way while its answer is   *)
(* not taken; HistoryIs and LoadsAre say what those of the present owner   *)
(* are.                                                                    *)
(*                                                                         *)
(* Camera: a start that is given up as the current one finds out when what *)
(* it awaits has come.  HeldIsCurrent says which start the picture and the *)
(* decoder belong to, CurrentIsAsked what the page says meanwhile, and     *)
(* ResultsCounted how many results there may be.                           *)
(*                                                                         *)
(* Alerts: what a page at rest lists follows only from what a load has     *)
(* found and which removals are answered (ListFollows); a page whose load  *)
(* has failed lists nothing, so that no removal clears its error.          *)
(*                                                                         *)
(* Star: unless a check or a change is overtaken, or a request got the     *)
(* token of another account (OwnTokens), a context has one of them at most *)
(* (LiveCheck, ChangesAreSafe); a star that is busy has no check under way *)
(* (BusyIsReady).                                                          *)
(*                                                                         *)
(* Panel: what is shown was told whatever page it is of, and what is saved *)
(* is of the product it is saved for (ShownWasTold, StoredWasTold).        *)
(***************************************************************************)
EXTENDS MCPages, FiniteSetTheorems, TLAPS

Entry == [of : Principal, scan : Int]

StateSet == [owner : Nat, scans : SUBSET Entry, loading : BOOLEAN, failed : BOOLEAN]
LoadSet  == [owner : Nat, whose : SUBSET Account, entries : SUBSET Entry, read : BOOLEAN]

Shapes == history \in StateSet /\ loads \subseteq LoadSet /\ owner \in Nat /\ effect \in Nat

HistoryIs ==
  history.owner = owner =>
    /\ ~strayed => \A e \in history.scans : e.of = session
    /\ ~history.loading => effect = owner
    /\ session = Guest /\ ~history.loading /\ ~history.failed => history.scans = Entries(Guest, scans[Guest])

LoadsAre ==
  \A load \in loads : load.owner = owner =>
    /\ session # Guest
    /\ ~strayed => (\A p \in load.whose : p = session) /\ (\A e \in load.entries : e.of = session)

IInv == TypeOK /\ Shapes /\ HistoryIs /\ LoadsAre

USE HistoryAssumption DEF Principal

LEMMA Nothing == {} \in SUBSET Entry /\ TRUE \in BOOLEAN
OBVIOUS

LEMMA EntriesOK ==
  ASSUME NEW p \in Principal, NEW n \in Nat
  PROVE  Entries(p, n) \in SUBSET Entry /\ \A e \in Entries(p, n) : e.of = p
BY DEF Entries, Entry

LEMMA StateOK ==
  ASSUME NEW o \in Nat, NEW entries \in SUBSET Entry, NEW waits \in BOOLEAN, NEW fails \in BOOLEAN
  PROVE  /\ State(o, entries, waits, fails) \in StateSet
         /\ State(o, entries, waits, fails).owner = o
         /\ State(o, entries, waits, fails).scans = entries
         /\ State(o, entries, waits, fails).loading = waits
         /\ State(o, entries, waits, fails).failed = fails
BY DEF State, StateSet

\* What the device's history looks like on the page.
LEMMA DeviceState ==
  ASSUME IInv, NEW n \in Nat, NEW h \in Device(n)
  PROVE  /\ h \in StateSet /\ h.owner = owner /\ ~h.loading
         /\ \A e \in h.scans : e.of = Guest
         /\ ~h.failed => h.scans = Entries(Guest, n)
<1>1. Entries(Guest, n) \in SUBSET Entry /\ \A e \in Entries(Guest, n) : e.of = Guest
  BY EntriesOK
<1>2. owner \in Nat /\ {} \in SUBSET Entry
  BY DEF IInv, Shapes
<1>3. CASE h = State(owner, Entries(Guest, n), FALSE, FALSE)
  BY <1>1, <1>2, <1>3, StateOK
<1>4. CASE h = State(owner, {}, FALSE, TRUE)
  BY <1>2, <1>4, StateOK
<1>. QED
  BY <1>3, <1>4 DEF Device

LEMMA InitIInv == Init => IInv
<1>. SUFFICES ASSUME Init PROVE IInv
  OBVIOUS
<1>1. history \in StateSet /\ history.owner = 1 /\ history.scans = {} /\ history.loading
  BY DEF Init, State, StateSet
<1>2. Shapes /\ HistoryIs /\ LoadsAre
  BY <1>1 DEF Init, Shapes, HistoryIs, LoadsAre
<1>3. TypeOK
  <2>1. scans \in [Principal -> 0..MaxScans] /\ changes \in 0..MaxChanges
    BY DEF Init
  <2>2. {cookie, session} \subseteq Principal /\ effect \in 0..owner /\ history.owner \in 1..owner
    <3>1. cookie \in Principal /\ session = cookie /\ owner = 1 /\ effect = 0
      BY DEF Init
    <3>. QED
      BY <1>1, <3>1
  <2>. QED
    BY <2>1, <2>2 DEF Init, TypeOK
<1>. QED
  BY <1>2, <1>3 DEF IInv

LEMMA SignInStep ==
  ASSUME IInv, NEW p \in Principal, SignIn(p)
  PROVE  IInv'
<1>1. TypeOK'
  BY DEF IInv, TypeOK, SignIn
<1>2. Shapes' /\ HistoryIs' /\ LoadsAre'
  BY DEF IInv, Shapes, HistoryIs, LoadsAre, SignIn
<1>. QED
  BY <1>1, <1>2 DEF IInv

LEMMA RenderStep ==
  ASSUME IInv, Render
  PROVE  IInv'
<1>1. /\ session' = cookie /\ owner' = owner + 1 /\ UNCHANGED <<cookie, effect, history, loads, scans, changes, strayed>>
  BY DEF Render
<1>2. owner \in Nat /\ effect \in Nat /\ effect <= owner /\ history.owner \in Nat /\ history.owner <= owner
  BY DEF IInv, TypeOK, Shapes, StateSet
<1>3. \A load \in loads : load.owner \in Nat /\ load.owner <= owner
  BY <1>2 DEF IInv, TypeOK, Shapes, LoadSet
<1>4. HistoryIs' /\ LoadsAre'
  BY <1>1, <1>2, <1>3 DEF HistoryIs, LoadsAre
<1>5. Shapes' /\ TypeOK'
  BY <1>1, <1>2 DEF IInv, TypeOK, Shapes
<1>. QED
  BY <1>4, <1>5 DEF IInv

LEMMA ScanStep ==
  ASSUME IInv, NEW p \in Principal, Scan(p)
  PROVE  IInv'
<1>1. /\ scans[p] < MaxScans /\ scans' = [scans EXCEPT ![p] = scans[p] + 1]
      /\ UNCHANGED <<cookie, session, owner, effect, loads, changes, strayed>>
  BY DEF Scan
<1>2. scans' \in [Principal -> 0..MaxScans] /\ \A q \in Principal \ {p} : scans'[q] = scans[q]
  BY <1>1 DEF IInv, TypeOK
<1>3. CASE p = Guest /\ session = Guest /\ effect = owner
  <2>1. history' \in Device(scans'[Guest]) /\ scans'[Guest] \in Nat
    BY <1>2, <1>3 DEF Scan
  <2>2. /\ history' \in StateSet /\ history'.owner = owner /\ ~history'.loading
        /\ \A e \in history'.scans : e.of = Guest
        /\ ~history'.failed => history'.scans = Entries(Guest, scans'[Guest])
    BY <2>1, DeviceState
  <2>3. HistoryIs' /\ LoadsAre' /\ Shapes'
    BY <1>1, <1>3, <2>2 DEF IInv, HistoryIs, LoadsAre, Shapes
  <2>4. TypeOK'
    BY <1>1, <1>2, <2>2 DEF IInv, TypeOK, Shapes
  <2>. QED
    BY <2>3, <2>4 DEF IInv
<1>4. CASE ~(p = Guest /\ session = Guest /\ effect = owner)
  <2>1. history' = history
    BY <1>4 DEF Scan
  <2>2. HistoryIs' /\ LoadsAre' /\ Shapes'
    BY <1>1, <1>2, <1>4, <2>1 DEF IInv, HistoryIs, LoadsAre, Shapes
  <2>3. TypeOK'
    BY <1>1, <1>2, <2>1 DEF IInv, TypeOK
  <2>. QED
    BY <2>2, <2>3 DEF IInv
<1>. QED
  BY <1>3, <1>4

LEMMA EffectStep ==
  ASSUME IInv, Effect
  PROVE  IInv'
<1>1. effect' = owner /\ UNCHANGED <<cookie, session, owner, scans, changes, strayed>> /\ owner \in Nat /\ effect <= owner /\ effect \in Nat
  BY DEF IInv, TypeOK, Shapes, Effect
<1>2. owner \in 1..owner
  BY <1>1 DEF IInv, TypeOK, Shapes, StateSet
<1>3. \A load \in loads : load.owner \in Nat /\ load.owner <= owner
  BY <1>1 DEF IInv, TypeOK, Shapes, LoadSet
<1>4. CASE session = Guest
  <2>1. history' \in Device(scans[Guest]) /\ loads' = loads /\ scans[Guest] \in Nat
    BY <1>4 DEF IInv, TypeOK, Effect
  <2>2. /\ history' \in StateSet /\ history'.owner = owner /\ ~history'.loading
        /\ \A e \in history'.scans : e.of = Guest
        /\ ~history'.failed => history'.scans = Entries(Guest, scans[Guest])
    BY <2>1, DeviceState
  <2>3. HistoryIs' /\ LoadsAre' /\ Shapes'
    BY <1>1, <1>4, <2>1, <2>2 DEF IInv, HistoryIs, LoadsAre, Shapes
  <2>4. TypeOK'
    BY <1>1, <1>2, <1>3, <2>1, <2>2 DEF IInv, TypeOK
  <2>. QED
    BY <2>3, <2>4 DEF IInv
<1>5. CASE session # Guest
  <2>. DEFINE new == [owner |-> owner, whose |-> {}, entries |-> {}, read |-> FALSE]
  <2>1. history' = State(owner, {}, TRUE, FALSE) /\ loads' = loads \cup {new}
    BY <1>5 DEF Effect
  <2>2. history' \in StateSet /\ history'.owner = owner /\ history'.scans = {} /\ history'.loading
    BY <1>1, <2>1 DEF State, StateSet
  <2>3. new \in LoadSet /\ new.owner = owner /\ new.whose = {} /\ new.entries = {}
    BY <1>1 DEF LoadSet
  <2>. HIDE DEF new
  <2>4. HistoryIs'
    BY <1>1, <1>5, <2>2 DEF HistoryIs
  <2>5. LoadsAre'
    BY <1>1, <1>5, <2>1, <2>3 DEF IInv, LoadsAre
  <2>6. Shapes' /\ TypeOK'
    <3>1. \A load \in loads' : load.owner <= owner
      BY <1>1, <1>3, <2>1, <2>3
    <3>2. effect' \in 0..owner'
      BY <1>1
    <3>. QED
      BY <1>1, <1>2, <2>1, <2>2, <2>3, <3>1, <3>2 DEF IInv, Shapes, TypeOK
  <2>. QED
    BY <2>4, <2>5, <2>6 DEF IInv
<1>. QED
  BY <1>4, <1>5

\* A request becomes another of the same owner.
LEMMA BecomesStep ==
  ASSUME IInv, NEW load \in loads, NEW next \in LoadSet, Becomes(load, next), next.owner = load.owner, strayed' \in BOOLEAN,
         strayed => strayed', UNCHANGED <<cookie, session, owner, effect, history, scans, changes>>,
         next.owner = owner /\ ~strayed' => (\A p \in next.whose : p = session) /\ (\A e \in next.entries : e.of = session)
  PROVE  IInv'
<1>1. loads' = (loads \ {load}) \cup {next}
  BY DEF Becomes
<1>2. HistoryIs'
  BY DEF IInv, HistoryIs
<1>3. LoadsAre'
  BY <1>1 DEF IInv, LoadsAre
<1>4. Shapes' /\ TypeOK'
  BY <1>1 DEF IInv, Shapes, TypeOK
<1>. QED
  BY <1>2, <1>3, <1>4 DEF IInv

LEMMA TokenStep ==
  ASSUME IInv, NEW load \in loads, Token(load)
  PROVE  IInv'
<1>. DEFINE next == [load EXCEPT !.whose = {cookie}]
<1>1. /\ Becomes(load, next) /\ cookie # Guest /\ UNCHANGED <<cookie, session, owner, effect, history, scans, changes>>
      /\ strayed' = (strayed \/ (load.owner = owner /\ cookie # session))
  BY DEF Token
<1>2. load \in LoadSet /\ cookie \in Account
  BY <1>1 DEF IInv, Shapes, TypeOK
<1>3. next \in LoadSet /\ next.owner = load.owner /\ next.whose = {cookie} /\ next.entries = load.entries
  BY <1>2 DEF LoadSet
<1>. HIDE DEF next
<1>4. strayed' \in BOOLEAN
  BY <1>1
<1>5. next.owner = owner /\ ~strayed' => (\A p \in next.whose : p = session) /\ (\A e \in next.entries : e.of = session)
  BY <1>1, <1>3 DEF IInv, LoadsAre
<1>6. strayed => strayed'
  BY <1>1
<1>. QED
  BY <1>1, <1>3, <1>4, <1>5, <1>6, BecomesStep

LEMMA ReadStep ==
  ASSUME IInv, NEW load \in loads, Read(load)
  PROVE  IInv'
<1>1. PICK p \in load.whose : Becomes(load, [load EXCEPT !.entries = Entries(p, scans[p]), !.read = TRUE])
  BY DEF Read
<1>. DEFINE next == [load EXCEPT !.entries = Entries(p, scans[p]), !.read = TRUE]
<1>2. UNCHANGED <<cookie, session, owner, effect, history, scans, changes, strayed>>
  BY DEF Read
<1>3. load \in LoadSet /\ p \in Account
  BY DEF IInv, Shapes, LoadSet
<1>4. scans[p] \in Nat
  BY <1>3 DEF IInv, TypeOK
<1>5. Entries(p, scans[p]) \in SUBSET Entry /\ \A e \in Entries(p, scans[p]) : e.of = p
  BY <1>3, <1>4, EntriesOK
<1>6. next \in LoadSet /\ next.owner = load.owner /\ next.whose = load.whose /\ next.entries = Entries(p, scans[p])
  BY <1>3, <1>5 DEF LoadSet
<1>7. Becomes(load, next)
  BY <1>1
<1>. HIDE DEF next
<1>8. next.owner = owner /\ ~strayed => (\A q \in next.whose : q = session) /\ (\A e \in next.entries : e.of = session)
  BY <1>5, <1>6 DEF IInv, LoadsAre
<1>9. strayed' \in BOOLEAN /\ (strayed => strayed')
  BY <1>2 DEF IInv, TypeOK
<1>. QED
  BY <1>2, <1>6, <1>7, <1>8, <1>9, BecomesStep

\* A request is over, and the page shows what it says only if it is the one of
\* the present owner.
LEMMA OverStep ==
  ASSUME IInv, NEW load \in loads, loads' = loads \ {load}, UNCHANGED <<cookie, session, owner, effect, scans, changes, strayed>>,
         NEW entries \in SUBSET Entry, NEW fails \in BOOLEAN, entries \subseteq load.entries,
         history' = IF Current(load) THEN State(load.owner, entries, FALSE, fails) ELSE history
  PROVE  IInv'
<1>1. LoadsAre'
  BY DEF IInv, LoadsAre
<1>2. CASE Current(load)
  <2>1. load.owner = owner /\ effect = owner /\ owner \in Nat
    BY <1>2 DEF IInv, Current, Shapes
  <2>2. history' \in StateSet /\ history'.owner = owner /\ history'.scans = entries
    BY <1>2, <2>1 DEF State, StateSet
  <2>3. HistoryIs'
    BY <2>1, <2>2 DEF IInv, LoadsAre, HistoryIs
  <2>4. owner \in 1..owner
    BY <2>1 DEF IInv, TypeOK, Shapes, StateSet
  <2>5. Shapes' /\ TypeOK'
    BY <2>2, <2>4 DEF IInv, Shapes, TypeOK
  <2>. QED
    BY <1>1, <2>3, <2>5 DEF IInv
<1>3. CASE ~Current(load)
  BY <1>1, <1>3 DEF IInv, HistoryIs, Shapes, TypeOK
<1>. QED
  BY <1>2, <1>3

LEMMA ReceiveStep ==
  ASSUME IInv, NEW load \in loads, Receive(load)
  PROVE  IInv'
<1>1. load.entries \in SUBSET Entry
  BY DEF IInv, Shapes, LoadSet
<1>. QED
  BY <1>1, OverStep DEF Receive

LEMMA FailStep ==
  ASSUME IInv, NEW load \in loads, Fail(load)
  PROVE  IInv'
<1>1. {} \subseteq load.entries
  OBVIOUS
<1>. QED
  BY <1>1, OverStep, Nothing DEF Fail

LEMMA NextIInv == IInv /\ [Next]_vars => IInv'
<1>. SUFFICES ASSUME IInv, [Next]_vars PROVE IInv'
  OBVIOUS
<1>1. CASE UNCHANGED vars
  BY <1>1 DEF IInv, TypeOK, Shapes, HistoryIs, LoadsAre, vars
<1>2. ASSUME NEW p \in Principal, SignIn(p) \/ Scan(p) PROVE IInv'
  BY <1>2, SignInStep, ScanStep
<1>3. ASSUME NEW load \in loads, Request(load) PROVE IInv'
  BY <1>3, TokenStep, ReadStep, ReceiveStep, FailStep DEF Request
<1>. QED
  BY <1>1, <1>2, <1>3, RenderStep, EffectStep DEF Next

LEMMA Invariant == Spec => []IInv
BY InitIInv, NextIInv, PTL DEF Spec

--------------------------------------------------------------------------------
(* Theorems *)

LEMMA HistoryImplied == ASSUME IInv PROVE TypeOK /\ ShowsOwn /\ GuestIsCurrent
<1>1. TypeOK
  BY DEF IInv
<1>2. ShowsOwn
  <2>1. ASSUME history.owner # owner PROVE Shown.scans = {}
    BY <2>1 DEF Shown, State
  <2>. QED
    BY <2>1 DEF IInv, HistoryIs, ShowsOwn, Shown
<1>3. GuestIsCurrent
  <2>1. history.owner # owner => Shown.loading
    BY DEF Shown, State
  <2>. QED
    BY <2>1 DEF IInv, HistoryIs, GuestIsCurrent, Shown
<1>. QED
  BY <1>1, <1>2, <1>3

LEMMA HistoryIgnores ==
  ASSUME IInv, [Next]_vars, NEW load \in loads
  PROVE  load \notin loads' /\ load.owner < owner => Shown' = Shown
<1>. DEFINE Ignored == load \notin loads' /\ load.owner < owner => Shown' = Shown
<1>. SUFFICES Ignored
  OBVIOUS
<1>1. CASE loads \subseteq loads'
  BY <1>1
<1>2. CASE history' = history /\ owner' = owner
  BY <1>2 DEF Shown
<1>3. ASSUME NEW x \in loads, Receive(x) \/ Fail(x) PROVE Ignored
  <2>1. owner' = owner /\ loads' = loads \ {x} /\ (~Current(x) => history' = history)
    BY <1>3 DEF Receive, Fail
  <2>2. load.owner \in Nat /\ owner \in Nat
    BY DEF IInv, Shapes, LoadSet
  <2>3. CASE x = load /\ load.owner < owner
    <3>1. ~Current(x)
      BY <2>2, <2>3 DEF Current
    <3>. QED
      BY <2>1, <3>1 DEF Shown
  <2>. QED
    BY <2>1, <2>3
<1>4. ASSUME NEW x \in loads, Token(x) \/ Read(x) PROVE history' = history /\ owner' = owner
  BY <1>4 DEF Token, Read
<1>5. loads \subseteq loads' \/ \E x \in loads : Receive(x) \/ Fail(x) \/ Token(x) \/ Read(x)
  BY DEF Next, Request, Render, Effect, SignIn, Scan, vars
<1>. HIDE DEF Ignored
<1>. QED
  BY <1>1, <1>2, <1>3, <1>4, <1>5

\* The page shows nobody the history of another, unless a token was issued to
\* another than the page was rendered for: ownerRef of history/page.tsx.
THEOREM OwnHistory == Spec => []ShowsOwn
  BY HistoryImplied, Invariant, PTL

\* A guest who sees scans sees all the device holds: the event of
\* guest-data.ts reaches a page that is shown.
THEOREM GuestSeesAll == Spec => []GuestIsCurrent
  BY HistoryImplied, Invariant, PTL

\* The answer to a request of before the last change of principals changes
\* nothing on the page, also when the principal is the same again.
THEOREM OldRequestsAreIgnored == Spec => NoOldRequest
<1>1. IInv /\ [Next]_vars => [\A load \in loads : load \notin loads' /\ load.owner < owner => Shown' = Shown]_vars
  BY HistoryIgnores
<1>. QED
  BY <1>1, Invariant, PTL DEF Spec, NoOldRequest


--------------------------------------------------------------------------------
(* The camera. *)

\* Where a start is when it holds the camera.
Places == {"playing", "importing", "frame", "detecting", "attaching", "decoding"}

\* The parts of TypeOK.
PlainTyped ==
  /\ mounted \in BOOLEAN /\ mode \in {"queue", "single"} /\ status \in {"starting", "ready", "off"}
  /\ starting \in BOOLEAN /\ navigating \in BOOLEAN
  /\ live \subseteq Camera!Start /\ decoders \subseteq Camera!Start /\ queued \subseteq Barcode
RefsTyped == starts \in 0..MaxStarts /\ {current, stream, controls, reader} \subseteq (1..starts) \cup {None}
StartsTyped ==
  /\ pc \in [Camera!Start -> Camera!Waits \cup {"none", "granted", "frame", "detecting", "decoding", "ended"}]
  /\ \A t \in Camera!Start : pc[t] = "none" <=> t > starts
StartingTyped == starting <=> current # None /\ pc[current] \in {"asking", "granted", "playing"}

\* The picture and the decoder of the page are those of the current start.
HeldIsCurrent ==
  /\ stream = IF current # None /\ pc[current] \in Places THEN current ELSE None
  /\ stream # None => stream \in live
  /\ controls # None => controls = current /\ pc[controls] = "decoding" /\ controls \in decoders

\* The page waits for the current start, and says so.
CurrentIsAsked ==
  /\ current # None => mounted /\ ~navigating /\ (pc[current] # "ended" => status # "off")
  /\ mounted /\ status = "ready" /\ ~navigating => stream # None

\* A result in view belongs to a start, and one that is still possible needs another.
ResultsCounted == pushes \in Nat /\ pushes <= starts /\ (starts > 0 /\ ~navigating => pushes < starts)

CameraInv == Camera!TypeOK /\ Camera!NothingLeaks /\ HeldIsCurrent /\ CurrentIsAsked /\ ResultsCounted

USE DEF CameraInv, Camera!TypeOK, HeldIsCurrent, CurrentIsAsked, Camera!Assumptions, Camera!Start,
        Camera!Waits, Places, Camera!reads, Camera!To, Camera!Active, Camera!NothingLeaks,
         ResultsCounted, PlainTyped, RefsTyped, StartsTyped, StartingTyped

--------------------------------------------------------------------------------
(* Each step keeps what is known of the camera. *)

LEMMA CameraBeginKeeps ==
  ASSUME Camera!Assumptions, CameraInv, Camera!Begin
  PROVE  CameraInv'
<1>1. Camera!TypeOK'
  <2>1. StartingTyped'
    BY DEF Camera!Begin
  <2>2. StartsTyped'
    BY DEF Camera!Begin
  <2>3. RefsTyped'
    BY DEF Camera!Begin
  <2>4. PlainTyped'
    BY DEF Camera!Begin
  <2> QED
    BY <2>1, <2>2, <2>3, <2>4
<1>3. Camera!NothingLeaks'
  BY DEF Camera!Begin
<1>4. HeldIsCurrent'
  BY DEF Camera!Begin
<1>2. CurrentIsAsked' /\ ResultsCounted'
  BY DEF Camera!Begin
<1> QED
  BY <1>1, <1>2, <1>3, <1>4

LEMMA CameraGrantKeeps ==
  ASSUME Camera!Assumptions, CameraInv, NEW s \in Camera!Start, Camera!Grant(s)
  PROVE  CameraInv'
<1>1. Camera!TypeOK'
  BY DEF Camera!Grant
<1>3. Camera!NothingLeaks'
  BY DEF Camera!Grant
<1>4. HeldIsCurrent'
  BY DEF Camera!Grant
<1>2. CurrentIsAsked' /\ ResultsCounted'
  BY DEF Camera!Grant
<1> QED
  BY <1>1, <1>2, <1>3, <1>4

LEMMA CameraSeeKeeps ==
  ASSUME Camera!Assumptions, CameraInv, NEW s \in Camera!Start, Camera!See(s)
  PROVE  CameraInv'
<1>1. Camera!TypeOK'
  <2>1. StartingTyped'
    BY DEF Camera!See
  <2>2. StartsTyped'
    BY DEF Camera!See
  <2>3. RefsTyped'
    BY DEF Camera!See
  <2>4. PlainTyped'
    BY DEF Camera!See
  <2> QED
    BY <2>1, <2>2, <2>3, <2>4
<1>3. ASSUME Camera!Active(s) PROVE Camera!NothingLeaks' /\ HeldIsCurrent'
  <2>1. s = current /\ s # None /\ stream = None /\ controls = None /\ s \in live \cup {s}
    BY <1>3 DEF Camera!See
  <2>2. Camera!NothingLeaks'
    BY <1>3, <2>1 DEF Camera!See
  <2>3. HeldIsCurrent'
    BY <1>3, <2>1 DEF Camera!See
  <2> QED
    BY <2>2, <2>3
<1>4. ASSUME ~Camera!Active(s) PROVE Camera!NothingLeaks' /\ HeldIsCurrent'
  <2>1. current # s
    BY <1>4
  <2>2. Camera!NothingLeaks'
    BY <1>4, <2>1 DEF Camera!See
  <2>3. HeldIsCurrent'
    BY <1>4, <2>1 DEF Camera!See
  <2> QED
    BY <2>2, <2>3
<1>2. CurrentIsAsked' /\ ResultsCounted'
  BY DEF Camera!See
<1> QED
  BY <1>1, <1>2, <1>3, <1>4

LEMMA CameraPlayKeeps ==
  ASSUME Camera!Assumptions, CameraInv, NEW s \in Camera!Start, Camera!Play(s)
  PROVE  CameraInv'
<1>1. Camera!TypeOK'
  <2>1. StartingTyped'
    BY DEF Camera!Play
  <2>2. StartsTyped'
    BY DEF Camera!Play
  <2>3. RefsTyped'
    BY DEF Camera!Play
  <2>4. PlainTyped'
    BY DEF Camera!Play
  <2> QED
    BY <2>1, <2>2, <2>3, <2>4
<1>3. Camera!NothingLeaks'
  BY DEF Camera!Play
<1>4. HeldIsCurrent'
  BY DEF Camera!Play
<1>2. CurrentIsAsked' /\ ResultsCounted'
  BY DEF Camera!Play
<1> QED
  BY <1>1, <1>2, <1>3, <1>4

LEMMA CameraImportKeeps ==
  ASSUME Camera!Assumptions, CameraInv, NEW s \in Camera!Start, Camera!Import(s)
  PROVE  CameraInv'
<1>1. Camera!TypeOK'
  <2>1. StartingTyped'
    BY DEF Camera!Import
  <2>2. StartsTyped'
    BY DEF Camera!Import
  <2>3. RefsTyped'
    BY DEF Camera!Import
  <2>4. PlainTyped'
    BY DEF Camera!Import
  <2> QED
    BY <2>1, <2>2, <2>3, <2>4
<1>3. Camera!NothingLeaks'
  BY DEF Camera!Import
<1>4. HeldIsCurrent'
  BY DEF Camera!Import
<1>2. CurrentIsAsked' /\ ResultsCounted'
  BY DEF Camera!Import
<1> QED
  BY <1>1, <1>2, <1>3, <1>4

LEMMA CameraAttachKeeps ==
  ASSUME Camera!Assumptions, CameraInv, NEW s \in Camera!Start, Camera!Attach(s)
  PROVE  CameraInv'
<1>1. Camera!TypeOK'
  <2>1. StartingTyped'
    BY DEF Camera!Attach
  <2>2. StartsTyped'
    BY DEF Camera!Attach
  <2>3. RefsTyped'
    BY DEF Camera!Attach
  <2>4. PlainTyped'
    BY DEF Camera!Attach
  <2> QED
    BY <2>1, <2>2, <2>3, <2>4
<1>3. ASSUME Camera!Active(s) PROVE Camera!NothingLeaks' /\ HeldIsCurrent'
  <2>1. s = current /\ s # None /\ stream = s /\ controls = None
    BY <1>3 DEF Camera!Attach
  <2>2. Camera!NothingLeaks'
    <3>1. pc' = [pc EXCEPT ![s] = "decoding"] /\ pc[s] = "attaching" /\ controls' = s /\ UNCHANGED <<stream, live, decoders>>
      BY <1>3 DEF Camera!Attach
    <3>2. {t \in Camera!Start : pc'[t] = "granted"} = {t \in Camera!Start : pc[t] = "granted"}
      BY <3>1
    <3>3. {t \in Camera!Start : pc'[t] = "attaching"} = {t \in Camera!Start : pc[t] = "attaching"} \ {s}
      BY <3>1
    <3>4. decoders \ {None} = {t \in Camera!Start : pc[t] = "attaching"} /\ None \notin decoders
      BY <2>1
    <3> QED
      BY <3>1, <3>2, <3>3, <3>4
  <2>3. HeldIsCurrent'
    BY <1>3, <2>1 DEF Camera!Attach
  <2> QED
    BY <2>2, <2>3
<1>4. ASSUME ~Camera!Active(s) PROVE Camera!NothingLeaks' /\ HeldIsCurrent'
  <2>1. current # s
    BY <1>4
  <2>2. Camera!NothingLeaks'
    BY <1>4, <2>1 DEF Camera!Attach
  <2>3. HeldIsCurrent'
    BY <1>4, <2>1 DEF Camera!Attach
  <2> QED
    BY <2>2, <2>3
<1>2. CurrentIsAsked' /\ ResultsCounted'
  BY DEF Camera!Attach
<1> QED
  BY <1>1, <1>2, <1>3, <1>4

LEMMA CameraRefuseKeeps ==
  ASSUME Camera!Assumptions, CameraInv, NEW s \in Camera!Start, Camera!Refuse(s)
  PROVE  CameraInv'
<1>1. Camera!TypeOK'
  <2>1. StartingTyped'
    BY DEF Camera!Refuse
  <2>2. StartsTyped'
    BY DEF Camera!Refuse
  <2>3. RefsTyped'
    BY DEF Camera!Refuse
  <2>4. PlainTyped'
    BY DEF Camera!Refuse
  <2> QED
    BY <2>1, <2>2, <2>3, <2>4
<1>3. Camera!NothingLeaks'
  BY DEF Camera!Refuse
<1>4. HeldIsCurrent'
  BY DEF Camera!Refuse
<1>2. CurrentIsAsked' /\ ResultsCounted'
  BY DEF Camera!Refuse
<1> QED
  BY <1>1, <1>2, <1>3, <1>4

LEMMA CameraFrameKeeps ==
  ASSUME Camera!Assumptions, CameraInv, NEW s \in Camera!Start, Camera!Frame(s)
  PROVE  CameraInv'
<1>1. Camera!TypeOK'
  BY DEF Camera!Frame
<1>3. Camera!NothingLeaks'
  BY DEF Camera!Frame
<1>4. HeldIsCurrent'
  BY DEF Camera!Frame
<1>2. CurrentIsAsked' /\ ResultsCounted'
  BY DEF Camera!Frame
<1> QED
  BY <1>1, <1>2, <1>3, <1>4

LEMMA CameraDetectKeeps ==
  ASSUME Camera!Assumptions, CameraInv, NEW s \in Camera!Start, Camera!Detect(s)
  PROVE  CameraInv'
<1>1. Camera!TypeOK'
  BY DEF Camera!Detect
<1>3. Camera!NothingLeaks'
  BY DEF Camera!Detect
<1>4. HeldIsCurrent'
  BY DEF Camera!Detect
<1>2. CurrentIsAsked' /\ ResultsCounted'
  BY DEF Camera!Detect
<1> QED
  BY <1>1, <1>2, <1>3, <1>4

LEMMA CameraDetectReadKeeps ==
  ASSUME Camera!Assumptions, CameraInv, NEW s \in Camera!Start, NEW found \in SUBSET Barcode, Camera!DetectRead(s, found)
  PROVE  CameraInv'
<1>1. Camera!TypeOK'
  <2>1. StartingTyped'
    BY DEF Camera!DetectRead, Camera!Submit, Camera!Stop
  <2>2. StartsTyped'
    BY DEF Camera!DetectRead, Camera!Submit, Camera!Stop
  <2>3. RefsTyped'
    <3>1. s \in 1..starts
      BY DEF Camera!DetectRead
    <3> QED
      BY <3>1 DEF Camera!DetectRead, Camera!Submit, Camera!Stop
  <2>4. PlainTyped'
    BY DEF Camera!DetectRead, Camera!Submit, Camera!Stop
  <2> QED
    BY <2>1, <2>2, <2>3, <2>4
<1>3. Camera!NothingLeaks'
  BY DEF Camera!DetectRead, Camera!Submit, Camera!Stop
<1>4. HeldIsCurrent'
  BY DEF Camera!DetectRead, Camera!Submit, Camera!Stop
<1>2. CurrentIsAsked' /\ ResultsCounted'
  BY DEF Camera!DetectRead, Camera!Submit, Camera!Stop
<1> QED
  BY <1>1, <1>2, <1>3, <1>4

LEMMA CameraDecodeKeeps ==
  ASSUME Camera!Assumptions, CameraInv, NEW s \in Camera!Start, NEW b \in Barcode, Camera!Decode(s, b)
  PROVE  CameraInv'
<1>1. Camera!TypeOK'
  <2>1. StartingTyped'
    BY DEF Camera!Decode, Camera!Submit, Camera!Stop
  <2>2. StartsTyped'
    BY DEF Camera!Decode, Camera!Submit, Camera!Stop
  <2>3. RefsTyped'
    <3>1. s \in 1..starts
      BY DEF Camera!Decode
    <3> QED
      BY <3>1 DEF Camera!Decode, Camera!Submit, Camera!Stop
  <2>4. PlainTyped'
    BY DEF Camera!Decode, Camera!Submit, Camera!Stop
  <2> QED
    BY <2>1, <2>2, <2>3, <2>4
<1>3. Camera!NothingLeaks'
  BY DEF Camera!Decode, Camera!Submit, Camera!Stop
<1>4. HeldIsCurrent'
  BY DEF Camera!Decode, Camera!Submit, Camera!Stop
<1>2. CurrentIsAsked' /\ ResultsCounted'
  BY DEF Camera!Decode, Camera!Submit, Camera!Stop
<1> QED
  BY <1>1, <1>2, <1>3, <1>4

LEMMA CameraEnterKeeps ==
  ASSUME Camera!Assumptions, CameraInv, NEW b \in Barcode, Camera!Enter(b)
  PROVE  CameraInv'
<1>1. Camera!TypeOK'
  <2>1. CASE mode = "single"
    BY <2>1 DEF Camera!Enter, Camera!Submit, Camera!Stop
  <2>2. CASE mode = "queue"
    BY <2>2 DEF Camera!Enter, Camera!Submit
  <2> QED
    BY <2>1, <2>2
<1>3. Camera!NothingLeaks'
  BY DEF Camera!Enter, Camera!Submit, Camera!Stop
<1>4. HeldIsCurrent'
  BY DEF Camera!Enter, Camera!Submit, Camera!Stop
<1>2. CurrentIsAsked' /\ ResultsCounted'
  BY DEF Camera!Enter, Camera!Submit, Camera!Stop
<1> QED
  BY <1>1, <1>2, <1>3, <1>4

LEMMA CameraChooseModeKeeps ==
  ASSUME Camera!Assumptions, CameraInv, NEW next \in {"queue", "single"}, Camera!ChooseMode(next)
  PROVE  CameraInv'
<1>1. Camera!TypeOK'
  BY DEF Camera!ChooseMode, Camera!camera
<1>3. Camera!NothingLeaks'
  BY DEF Camera!ChooseMode, Camera!camera
<1>4. HeldIsCurrent'
  BY DEF Camera!ChooseMode, Camera!camera
<1>2. CurrentIsAsked' /\ ResultsCounted'
  BY DEF Camera!ChooseMode, Camera!camera
<1> QED
  BY <1>1, <1>2, <1>3, <1>4

LEMMA CameraLeaveKeeps ==
  ASSUME Camera!Assumptions, CameraInv, Camera!Leave
  PROVE  CameraInv'
<1>1. Camera!TypeOK'
  BY DEF Camera!Leave, Camera!Stop
<1>3. Camera!NothingLeaks'
  BY DEF Camera!Leave, Camera!Stop
<1>4. HeldIsCurrent'
  BY DEF Camera!Leave, Camera!Stop
<1>2. CurrentIsAsked' /\ ResultsCounted'
  BY DEF Camera!Leave, Camera!Stop
<1> QED
  BY <1>1, <1>2, <1>3, <1>4

LEMMA CameraUnmountKeeps ==
  ASSUME Camera!Assumptions, CameraInv, Camera!Unmount
  PROVE  CameraInv'
<1>1. Camera!TypeOK'
  BY DEF Camera!Unmount, Camera!Stop
<1>3. Camera!NothingLeaks'
  BY DEF Camera!Unmount, Camera!Stop
<1>4. HeldIsCurrent'
  BY DEF Camera!Unmount, Camera!Stop
<1>2. CurrentIsAsked' /\ ResultsCounted'
  BY DEF Camera!Unmount, Camera!Stop
<1> QED
  BY <1>1, <1>2, <1>3, <1>4


LEMMA CameraInitHolds == ASSUME Camera!Assumptions, Camera!Init PROVE CameraInv
<1>1. Camera!TypeOK
  <2>1. starts \in 0..MaxStarts /\ \A s \in Camera!Start : pc[s] = "none" /\ s > starts
    BY DEF Camera!Init
  <2> QED
    BY <2>1 DEF Camera!Init
<1>2. Camera!NothingLeaks /\ HeldIsCurrent /\ CurrentIsAsked /\ ResultsCounted
  BY DEF Camera!Init
<1> QED
  BY <1>1, <1>2

LEMMA CameraStutterKeeps == ASSUME CameraInv, UNCHANGED Camera!vars PROVE CameraInv'
  BY DEF Camera!vars, Camera!camera

LEMMA CameraNextKeeps ==
  ASSUME Camera!Assumptions, CameraInv, [Camera!Next]_(Camera!vars)
  PROVE  CameraInv'
<1>1. CASE Camera!Begin \/ Camera!Leave \/ Camera!Unmount
  BY <1>1, CameraBeginKeeps, CameraLeaveKeeps, CameraUnmountKeeps
<1>2. ASSUME NEW s \in Camera!Start, Camera!Awaited(s) \/ Camera!Frame(s) \/ Camera!Detect(s) PROVE CameraInv'
  BY <1>2, CameraGrantKeeps, CameraSeeKeeps, CameraPlayKeeps, CameraImportKeeps, CameraAttachKeeps,
         CameraRefuseKeeps, CameraFrameKeeps, CameraDetectKeeps DEF Camera!Awaited
<1>3. ASSUME NEW s \in Camera!Start, NEW b \in Barcode, NEW c \in Barcode, Camera!DetectRead(s, {b, c}) PROVE CameraInv'
  BY <1>3, CameraDetectReadKeeps, {b, c} \in SUBSET Barcode
<1>4. ASSUME NEW s \in Camera!Start, NEW b \in Barcode, Camera!Decode(s, b) PROVE CameraInv'
  BY <1>4, CameraDecodeKeeps
<1>5. ASSUME NEW b \in Barcode, Camera!Enter(b) PROVE CameraInv'
  BY <1>5, CameraEnterKeeps
<1>6. ASSUME NEW next \in {"queue", "single"}, Camera!ChooseMode(next) PROVE CameraInv'
  BY <1>6, CameraChooseModeKeeps
<1> QED
  BY <1>1, <1>2, <1>3, <1>4, <1>5, <1>6, CameraStutterKeeps DEF Camera!Next

\* A step that counts a read of the camera: the read is of the camera that is on.
ReadIsLive ==
  <<queued, pushes>>' # <<queued, pushes>> /\ reader' # None =>
    mounted /\ stream = reader' /\ reader' \in live

LEMMA CameraReadsAreLive ==
  ASSUME Camera!Assumptions, CameraInv, Camera!Next
  PROVE  ReadIsLive
<1>1. ASSUME NEW s \in Camera!Start, Camera!Active(s), reader' = s, pc[s] \in Places
      PROVE  mounted /\ stream = reader' /\ reader' \in live
  BY <1>1
<1>2. CASE Camera!Begin \/ Camera!Leave \/ Camera!Unmount
  BY <1>2 DEF Camera!Begin, Camera!Leave, Camera!Unmount, ReadIsLive
<1>3. ASSUME NEW s \in Camera!Start, Camera!Awaited(s) \/ Camera!Frame(s) \/ Camera!Detect(s) PROVE UNCHANGED <<queued, pushes>>
  BY <1>3 DEF Camera!Awaited, Camera!Grant, Camera!See, Camera!Play, Camera!Import, Camera!Attach,
         Camera!Refuse, Camera!Frame, Camera!Detect
<1>4. ASSUME NEW s \in Camera!Start, NEW b \in Barcode, NEW c \in Barcode, Camera!DetectRead(s, {b, c})
      PROVE  mounted /\ stream = reader' /\ reader' \in live
  BY <1>1, <1>4 DEF Camera!DetectRead, Camera!Submit
<1>5. ASSUME NEW s \in Camera!Start, NEW b \in Barcode, Camera!Decode(s, b)
      PROVE  mounted /\ stream = reader' /\ reader' \in live
  <2>1. Camera!Active(s) /\ reader' = s /\ s \in decoders
    BY <1>5 DEF Camera!Decode, Camera!Submit
  <2>2. pc[s] \in {"attaching", "decoding"}
    BY <2>1
  <2> QED
    BY <1>1, <2>1, <2>2
<1>6. ASSUME NEW b \in Barcode, Camera!Enter(b) PROVE reader' = None
  BY <1>6 DEF Camera!Enter, Camera!Submit
<1>7. ASSUME NEW next \in {"queue", "single"}, Camera!ChooseMode(next) PROVE UNCHANGED <<queued, pushes>>
  BY <1>7 DEF Camera!ChooseMode
<1> QED
  BY <1>2, <1>3, <1>4, <1>5, <1>6, <1>7 DEF ReadIsLive, Camera!Next, Camera!Begin, Camera!Leave,
     Camera!Unmount

\* Whatever the user does while a start waits, what is known of the camera holds.
THEOREM CameraInvariant == ASSUME Camera!Assumptions PROVE Camera!Spec => []CameraInv
<1>1. Camera!Init => CameraInv
  BY CameraInitHolds
<1>2. CameraInv /\ [Camera!Next]_(Camera!vars) => CameraInv'
  BY CameraNextKeeps
<1> QED
  BY <1>1, <1>2, PTL DEF Camera!Spec

LEMMA CameraImplied ==
  ASSUME CameraInv
  PROVE  Camera!TypeOK /\ Camera!NothingLeaks /\ Camera!PauseIsOffered /\ Camera!ReadyIsLive /\ Camera!OneResult
<1>1. Camera!PauseIsOffered /\ Camera!ReadyIsLive
  BY DEF Camera!PauseIsOffered, Camera!ReadyIsLive
<1>2. Camera!OneResult
  BY DEF Camera!OneResult
<1> QED
  BY <1>1, <1>2


HIDE DEF CameraInv, Camera!TypeOK, HeldIsCurrent, CurrentIsAsked, Camera!Assumptions, Camera!Start,
         Camera!Waits, Places, Camera!reads, Camera!To, Camera!Active, Camera!NothingLeaks,
         ResultsCounted, PlainTyped, RefsTyped, StartsTyped, StartingTyped

\* A camera or a decoder that is on and that the page does not hold is one whose start will
\* still see that it has been stopped (startScanner, stopScanner of the scan page).
THEOREM CameraLeaksNothing == ASSUME Camera!Assumptions PROVE Camera!Spec => [](Camera!TypeOK /\ Camera!NothingLeaks)
<1>1. CameraInv => Camera!TypeOK /\ Camera!NothingLeaks
  BY CameraImplied
<1> QED
  BY <1>1, CameraInvariant, PTL

\* A held camera is on, and on a mounted page that can pause it; a page that says it is ready
\* shows a picture (streamRef and status of the scan page).
THEOREM CameraIsInView == ASSUME Camera!Assumptions PROVE Camera!Spec => [](Camera!PauseIsOffered /\ Camera!ReadyIsLive)
<1>1. CameraInv => Camera!PauseIsOffered /\ Camera!ReadyIsLive
  BY CameraImplied
<1> QED
  BY <1>1, CameraInvariant, PTL

\* A visit opens at most one result for each start of the camera (navigatingRef).
THEOREM OneResultPerStart == ASSUME Camera!Assumptions PROVE Camera!Spec => []Camera!OneResult
<1>1. CameraInv => Camera!OneResult
  BY CameraImplied
<1> QED
  BY <1>1, CameraInvariant, PTL

\* A read of the camera counts only while that camera is the one in view (generationRef,
\* active).
THEOREM LateReadsDoNotCount == ASSUME Camera!Assumptions PROVE Camera!Spec => Camera!NoLateRead
<1>1. CameraInv /\ [Camera!Next]_(Camera!vars) => [ReadIsLive]_(Camera!vars)
  BY CameraReadsAreLive
<1> QED
  BY <1>1, CameraInvariant, PTL DEF Camera!Spec, Camera!NoLateRead, ReadIsLive

HIDE HistoryAssumption DEF Principal

--------------------------------------------------------------------------------
(* The alerts. *)

AlertLoads == [n : Nat, live : BOOLEAN, at : {"token", "sent", "read", "prices"}, who : Account, found : SUBSET Alert]
AlertRemovals == [n : Nat, owner : Account, id : Alert, at : {"token", "sent", "done", "lost"}, who : Account]

AlertsTyped ==
  /\ of \in [Alert -> Account] /\ active \subseteq Alert /\ list \subseteq Alert /\ pending \subseteq Alert
  /\ alertsCookie \in Account \cup {Guest} /\ alertsSession \in Account \cup {Guest}
  /\ loading \in BOOLEAN /\ message \in BOOLEAN /\ alertsStrayed \in BOOLEAN /\ doubtful \in BOOLEAN
  /\ loaded \in Nat /\ removed \in Nat
  /\ alertsLoads \subseteq AlertLoads /\ removals \subseteq AlertRemovals

\* The page loads while the one load that is live is under way, and lists nothing until that
\* load has brought the alerts.
OneLoad ==
  /\ loading <=> \E l \in alertsLoads : l.live
  /\ \A l, k \in alertsLoads : l.live /\ k.live => l = k
  /\ \A l \in alertsLoads : l.live /\ l.at # "prices" => list = {}

\* Unless a token strayed, what is found and listed is of the account it was asked for, and a
\* removal is of an alert of its owner, which is not active once the server has answered.
OwnAlerts ==
  ~alertsStrayed =>
    /\ \A id \in list : of[id] = alertsSession
    /\ \A l \in alertsLoads : l.live => l.who = alertsSession /\ (l.at = "read" => \A id \in l.found : of[id] = alertsSession)
    /\ \A r \in removals : r.who = r.owner /\ of[r.id] = r.owner /\ (r.at = "done" => r.id \notin active)

\* The alerts that are removed, and listed until their answers are there.
Answered == {id \in Alert : \E r \in removals : r.id = id /\ r.at = "done"}

\* With nothing in doubt either: no removal is beside a load, and what is found or listed is
\* active, but for the removals whose answers are on their way.
ListFollows ==
  (~alertsStrayed /\ ~doubtful /\ alertsSession # Guest) =>
    /\ loading => removals = {}
    /\ \A l \in alertsLoads : l.live =>
         /\ l.at = "read" => l.found = Alerts!Mine(alertsSession)
         /\ l.at = "prices" => list = Alerts!Mine(alertsSession)
    /\ ~loading /\ (~message \/ list # {}) => list = Alerts!Mine(alertsSession) \cup Answered
    /\ \A r \in removals : r.owner = alertsSession /\ r.id \in pending /\ r.id \in list /\ r.at # "lost"
    /\ \A r, q \in removals : r.id = q.id => r = q

AlertsInv == AlertsTyped /\ OneLoad /\ OwnAlerts /\ ListFollows

LEMMA AlertsInitHolds == ASSUME Alerts!Assumptions, Alerts!Init PROVE AlertsInv
<1>1. AlertsTyped
  <2>1. alertsCookie \in Account /\ alertsSession = alertsCookie
    BY DEF Alerts!Init
  <2>2. alertsLoads \subseteq AlertLoads
    BY <2>1 DEF Alerts!Init, AlertLoads
  <2> QED
    BY <2>1, <2>2 DEF Alerts!Init, AlertsTyped
<1>2. OneLoad /\ OwnAlerts /\ ListFollows
  BY DEF Alerts!Init, OneLoad, OwnAlerts, ListFollows
<1> QED
  BY <1>1, <1>2 DEF AlertsInv

LEMMA AlertsSignInKeeps == ASSUME Alerts!Assumptions, AlertsInv, NEW a \in Account \cup {Guest}, Alerts!SignIn(a) PROVE AlertsInv'
<1>1. alertsCookie' = a /\ UNCHANGED <<of, active, alertsSession, list, loading, message, pending, alertsLoads, removals, loaded, removed, alertsStrayed, doubtful>>
  BY DEF Alerts!SignIn, Alerts!page
<1>2. AlertsTyped'
  BY <1>1 DEF AlertsInv, AlertsTyped
<1>3. OneLoad' /\ OwnAlerts'
  BY <1>1 DEF AlertsInv, OneLoad, OwnAlerts
<1>4. ListFollows'
  BY <1>1 DEF AlertsInv, ListFollows, Alerts!Mine, Answered
<1> QED
  BY <1>2, <1>3, <1>4 DEF AlertsInv

\* A load that begins.
LEMMA AlertsLoadKeeps ==
  ASSUME Alerts!Assumptions, AlertsInv, Alerts!Load, alertsSession' \in Account \cup {Guest},
         UNCHANGED <<of, active, alertsCookie, removals, removed, alertsStrayed>>
  PROVE  AlertsInv'
<1> DEFINE new == [n |-> loaded, live |-> TRUE, at |-> "token", who |-> alertsSession', found |-> {}]
           dead == {[l EXCEPT !.live = FALSE] : l \in alertsLoads}
<1>1. /\ list' = {} /\ message' = FALSE /\ pending' = {} /\ loading' = (alertsSession' # Guest) /\ loaded' = loaded + 1
      /\ alertsLoads' = dead \cup IF alertsSession' = Guest THEN {} ELSE {new}
      /\ doubtful' = (removals # {})
  BY DEF Alerts!Load
<1>2. \A l \in dead : l \in AlertLoads /\ ~l.live
  BY DEF AlertsInv, AlertsTyped, AlertLoads
<1>3. alertsSession' # Guest => new \in AlertLoads /\ new.live /\ new.at = "token" /\ new.who = alertsSession'
  BY DEF AlertsInv, AlertsTyped, AlertLoads
<1> HIDE DEF new, dead
<1>4. \A l \in alertsLoads' : l \in AlertLoads /\ (l.live => alertsSession' # Guest /\ l = new)
  BY <1>1, <1>2, <1>3
<1>5. alertsSession' # Guest => new \in alertsLoads'
  BY <1>1
<1>6. doubtful' \in BOOLEAN /\ (~doubtful' => removals' = {})
  BY <1>1
<1>7. AlertsTyped'
  <2>1. alertsLoads' \subseteq AlertLoads
    BY <1>4
  <2>2. loading' \in BOOLEAN /\ loaded' \in Nat
    BY <1>1 DEF AlertsInv, AlertsTyped
  <2> QED
    BY <1>1, <1>6, <2>1, <2>2 DEF AlertsInv, AlertsTyped
<1>8. OneLoad'
  BY <1>1, <1>3, <1>4, <1>5 DEF OneLoad
<1>9. OwnAlerts'
  BY <1>1, <1>3, <1>4 DEF AlertsInv, OwnAlerts
<1>10. ListFollows'
  BY <1>1, <1>3, <1>4, <1>6 DEF ListFollows
<1> QED
  BY <1>7, <1>8, <1>9, <1>10 DEF AlertsInv

LEMMA AlertsSwitchKeeps == ASSUME Alerts!Assumptions, AlertsInv, Alerts!Switch PROVE AlertsInv'
<1>1. alertsSession' \in Account \cup {Guest}
  BY DEF Alerts!Switch, AlertsInv, AlertsTyped
<1> QED
  BY <1>1, AlertsLoadKeeps DEF Alerts!Switch

LEMMA AlertsReloadKeeps == ASSUME Alerts!Assumptions, AlertsInv, Alerts!Reload PROVE AlertsInv'
<1>1. alertsSession' \in Account \cup {Guest}
  BY DEF Alerts!Reload, AlertsInv, AlertsTyped
<1> QED
  BY <1>1, AlertsLoadKeeps DEF Alerts!Reload

\* A load that moves on while the rest of the page stands still.
LEMMA AlertsLoadMovesKeeps ==
  ASSUME AlertsInv, NEW l \in alertsLoads, NEW next \in AlertLoads, alertsLoads' = (alertsLoads \ {l}) \cup {next},
         next.live = l.live, l.at # "prices", next.at # "prices",
         alertsStrayed' \in BOOLEAN,
         ~alertsStrayed' => ~alertsStrayed,
         ~alertsStrayed' /\ l.live => next.who = alertsSession /\ (next.at = "read" => next.found = Alerts!Mine(alertsSession)),
         UNCHANGED <<of, active, alertsSession, list, loading, message, pending, alertsCookie, removals, loaded, removed, doubtful>>
  PROVE  AlertsInv'
<1>1. AlertsTyped'
  BY DEF AlertsInv, AlertsTyped
<1>2. OneLoad'
  BY DEF AlertsInv, OneLoad
<1>3. OwnAlerts'
  BY DEF AlertsInv, OwnAlerts, Alerts!Mine
<1>4. ListFollows'
  <2>1. Alerts!Mine(alertsSession)' = Alerts!Mine(alertsSession) /\ Answered' = Answered
    BY DEF Alerts!Mine, Answered
  <2> QED
    BY <2>1 DEF AlertsInv, ListFollows
<1> QED
  BY <1>1, <1>2, <1>3, <1>4 DEF AlertsInv

LEMMA AlertsLoadTokenKeeps == ASSUME Alerts!Assumptions, AlertsInv, NEW l \in alertsLoads, Alerts!LoadToken(l) PROVE AlertsInv'
<1> DEFINE next == [l EXCEPT !.at = "sent", !.who = alertsCookie]
<1>1. /\ l.at = "token" /\ alertsCookie # Guest /\ alertsStrayed' = (alertsStrayed \/ alertsCookie # l.who) /\ alertsLoads' = (alertsLoads \ {l}) \cup {next}
      /\ UNCHANGED <<of, active, alertsSession, list, loading, message, pending, alertsCookie, removals, loaded, removed, doubtful>>
  BY DEF Alerts!LoadToken, Alerts!Stray, Alerts!page
<1>2. next \in AlertLoads /\ next.live = l.live /\ next.at = "sent" /\ next.who = alertsCookie
  BY <1>1 DEF AlertsInv, AlertsTyped, AlertLoads
<1> HIDE DEF next
<1>3. alertsStrayed' \in BOOLEAN /\ (~alertsStrayed' => ~alertsStrayed /\ alertsCookie = l.who)
  BY <1>1 DEF AlertsInv, AlertsTyped
<1>4. ~alertsStrayed' => ~alertsStrayed /\ (l.live => next.who = alertsSession)
  BY <1>2, <1>3 DEF AlertsInv, OwnAlerts
<1> QED
  BY <1>1, <1>2, <1>3, <1>4, AlertsLoadMovesKeeps

LEMMA AlertsReadKeeps == ASSUME Alerts!Assumptions, AlertsInv, NEW l \in alertsLoads, Alerts!Read(l) PROVE AlertsInv'
<1> DEFINE next == [l EXCEPT !.at = "read", !.found = Alerts!Mine(l.who)]
<1>1. /\ l.at = "sent" /\ alertsLoads' = (alertsLoads \ {l}) \cup {next}
      /\ UNCHANGED <<of, active, alertsSession, list, loading, message, pending, alertsCookie, removals, loaded, removed, alertsStrayed, doubtful>>
  BY DEF Alerts!Read, Alerts!page
<1>2. /\ next \in AlertLoads /\ next.live = l.live /\ next.at = "read" /\ next.who = l.who
      /\ next.found = Alerts!Mine(l.who)
  <2>1. Alerts!Mine(l.who) \subseteq Alert
    BY DEF Alerts!Mine, AlertsInv, AlertsTyped
  <2> QED
    BY <2>1 DEF AlertsInv, AlertsTyped, AlertLoads
<1> HIDE DEF next
<1>3. alertsStrayed' \in BOOLEAN
  BY <1>1 DEF AlertsInv, AlertsTyped
<1>4. ~alertsStrayed' => ~alertsStrayed /\ (l.live => next.who = alertsSession /\ next.found = Alerts!Mine(alertsSession))
  BY <1>1, <1>2 DEF AlertsInv, OwnAlerts
<1> QED
  BY <1>1, <1>2, <1>3, <1>4, AlertsLoadMovesKeeps

LEMMA AlertsReceiveKeeps == ASSUME Alerts!Assumptions, AlertsInv, NEW l \in alertsLoads, Alerts!Receive(l) PROVE AlertsInv'
<1> DEFINE next == [l EXCEPT !.at = "prices"]
<1>1. /\ l.at = "read" /\ alertsLoads' = (alertsLoads \ {l}) \cup {next} /\ list' = IF l.live THEN l.found ELSE list
      /\ UNCHANGED <<of, active, alertsSession, loading, message, pending, alertsCookie, removals, loaded, removed, alertsStrayed, doubtful>>
  BY DEF Alerts!Receive
<1>2. l \in AlertLoads /\ next \in AlertLoads /\ next.live = l.live /\ next.at = "prices" /\ next.who = l.who
  BY DEF AlertsInv, AlertsTyped, AlertLoads
<1> HIDE DEF next
<1>3. l.found \subseteq Alert /\ l.live \in BOOLEAN
  BY <1>2 DEF AlertLoads
<1>4. (l.live /\ list' = l.found) \/ (~l.live /\ list' = list)
  BY <1>1, <1>3
<1>5. AlertsTyped'
  BY <1>1, <1>2, <1>3, <1>4 DEF AlertsInv, AlertsTyped
<1>6. OneLoad'
  BY <1>1, <1>2, <1>4 DEF AlertsInv, OneLoad
<1>7. OwnAlerts'
  BY <1>1, <1>2, <1>4 DEF AlertsInv, OwnAlerts
<1>8. ListFollows'
  <2>1. Alerts!Mine(alertsSession)' = Alerts!Mine(alertsSession) /\ Answered' = Answered
    BY <1>1 DEF Alerts!Mine, Answered
  <2>2. l.live => loading
    BY DEF AlertsInv, OneLoad
  <2>3. \A k \in alertsLoads' : k.live /\ l.live => k = next
    BY <1>1, <1>2 DEF AlertsInv, OneLoad
  <2> QED
    BY <1>1, <1>2, <1>4, <2>1, <2>2, <2>3 DEF AlertsInv, ListFollows
<1> QED
  BY <1>5, <1>6, <1>7, <1>8 DEF AlertsInv

LEMMA AlertsEndLoadKeeps == ASSUME Alerts!Assumptions, AlertsInv, NEW l \in alertsLoads, Alerts!EndLoad(l) PROVE AlertsInv'
<1>1. /\ l.at = "prices" /\ alertsLoads' = alertsLoads \ {l} /\ loading' = (loading /\ ~l.live)
      /\ UNCHANGED <<of, active, alertsSession, list, message, pending, alertsCookie, removals, loaded, removed, alertsStrayed, doubtful>>
  BY DEF Alerts!EndLoad
<1>2. loading' \in BOOLEAN /\ (loading' <=> loading /\ ~l.live)
  BY <1>1
<1>3. AlertsTyped'
  BY <1>1, <1>2 DEF AlertsInv, AlertsTyped
<1>4. OneLoad'
  BY <1>1, <1>2 DEF AlertsInv, OneLoad
<1>5. OwnAlerts'
  BY <1>1 DEF AlertsInv, OwnAlerts
<1>6. ListFollows'
  <2>1. Alerts!Mine(alertsSession)' = Alerts!Mine(alertsSession) /\ Answered' = Answered
    BY <1>1 DEF Alerts!Mine, Answered
  <2>2. l.live => loading
    BY DEF AlertsInv, OneLoad
  <2>3. removals = {} => Answered = {}
    BY DEF Answered
  <2> QED
    BY <1>1, <1>2, <2>1, <2>2, <2>3 DEF AlertsInv, ListFollows
<1> QED
  BY <1>3, <1>4, <1>5, <1>6 DEF AlertsInv

LEMMA AlertsLoadFailsKeeps == ASSUME Alerts!Assumptions, AlertsInv, NEW l \in alertsLoads, Alerts!LoadFails(l) PROVE AlertsInv'
<1>1. /\ l.at # "prices" /\ alertsLoads' = alertsLoads \ {l} /\ loading' = (loading /\ ~l.live) /\ message' = (message \/ l.live)
      /\ UNCHANGED <<of, active, alertsSession, list, pending, alertsCookie, removals, loaded, removed, alertsStrayed, doubtful>>
  BY DEF Alerts!LoadFails
<1>2. loading' \in BOOLEAN /\ (loading' <=> loading /\ ~l.live) /\ message' \in BOOLEAN /\ (message' <=> message \/ l.live)
  BY <1>1
<1>3. AlertsTyped'
  BY <1>1, <1>2 DEF AlertsInv, AlertsTyped
<1>4. OneLoad'
  BY <1>1, <1>2 DEF AlertsInv, OneLoad
<1>5. OwnAlerts'
  BY <1>1 DEF AlertsInv, OwnAlerts
<1>6. ListFollows'
  <2>1. Alerts!Mine(alertsSession)' = Alerts!Mine(alertsSession) /\ Answered' = Answered
    BY <1>1 DEF Alerts!Mine, Answered
  <2>2. l.live => loading /\ list = {}
    BY <1>1 DEF AlertsInv, OneLoad
  <2> QED
    BY <1>1, <1>2, <2>1, <2>2 DEF AlertsInv, ListFollows
<1> QED
  BY <1>3, <1>4, <1>5, <1>6 DEF AlertsInv

LEMMA AlertsRemoveKeeps == ASSUME Alerts!Assumptions, AlertsInv, NEW id \in Alert, Alerts!Remove(id) PROVE AlertsInv'
<1> DEFINE new == [n |-> removed, owner |-> alertsSession, id |-> id, at |-> "token", who |-> alertsSession]
<1>1. /\ alertsSession # Guest /\ ~loading /\ id \in list /\ id \notin pending
      /\ pending' = pending \cup {id} /\ message' = FALSE /\ removed' = removed + 1 /\ removals' = removals \cup {new}
      /\ UNCHANGED <<of, active, alertsCookie, alertsSession, list, loading, alertsLoads, loaded, alertsStrayed, doubtful>>
  BY DEF Alerts!Remove
<1>2. new \in AlertRemovals /\ new.owner = alertsSession /\ new.who = alertsSession /\ new.id = id /\ new.at = "token"
  BY <1>1 DEF AlertsInv, AlertsTyped, AlertRemovals
<1> HIDE DEF new
<1>3. AlertsTyped'
  <2>1. removals' \subseteq AlertRemovals /\ removed' \in Nat
    BY <1>1, <1>2 DEF AlertsInv, AlertsTyped
  <2>2. pending' \subseteq Alert /\ message' \in BOOLEAN
    BY <1>1 DEF AlertsInv, AlertsTyped
  <2> QED
    BY <1>1, <2>1, <2>2 DEF AlertsInv, AlertsTyped
<1>4. OneLoad'
  BY <1>1 DEF AlertsInv, OneLoad
<1>5. OwnAlerts'
  BY <1>1, <1>2 DEF AlertsInv, OwnAlerts
<1>6. ListFollows'
  <2>1. Alerts!Mine(alertsSession)' = Alerts!Mine(alertsSession) /\ Answered' = Answered
    BY <1>1, <1>2 DEF Alerts!Mine, Answered
  <2>2. \A l \in alertsLoads : ~l.live
    BY <1>1 DEF AlertsInv, OneLoad
  <2> QED
    BY <1>1, <1>2, <2>1, <2>2 DEF AlertsInv, ListFollows
<1> QED
  BY <1>3, <1>4, <1>5, <1>6 DEF AlertsInv

LEMMA AlertsRemovalTokenKeeps == ASSUME Alerts!Assumptions, AlertsInv, NEW r \in removals, Alerts!RemovalToken(r) PROVE AlertsInv'
<1> DEFINE next == [r EXCEPT !.at = "sent", !.who = alertsCookie]
<1>1. /\ r.at = "token" /\ alertsCookie # Guest /\ alertsStrayed' = (alertsStrayed \/ alertsCookie # r.who) /\ removals' = (removals \ {r}) \cup {next}
      /\ UNCHANGED <<of, active, alertsCookie, alertsSession, list, loading, message, pending, alertsLoads, loaded, removed, doubtful>>
  BY DEF Alerts!RemovalToken, Alerts!Stray, Alerts!Moved, Alerts!page
<1>2. next \in AlertRemovals /\ next.owner = r.owner /\ next.who = alertsCookie /\ next.id = r.id /\ next.at = "sent"
  BY <1>1 DEF AlertsInv, AlertsTyped, AlertRemovals
<1> HIDE DEF next
<1>3. alertsStrayed' \in BOOLEAN /\ (~alertsStrayed' => ~alertsStrayed /\ alertsCookie = r.who)
  BY <1>1 DEF AlertsInv, AlertsTyped
<1>4. AlertsTyped'
  BY <1>1, <1>2, <1>3 DEF AlertsInv, AlertsTyped
<1>5. OneLoad'
  BY <1>1 DEF AlertsInv, OneLoad
<1>6. OwnAlerts'
  BY <1>1, <1>2, <1>3 DEF AlertsInv, OwnAlerts
<1>7. ListFollows'
  <2>1. Alerts!Mine(alertsSession)' = Alerts!Mine(alertsSession) /\ Answered' = Answered
    BY <1>1, <1>2 DEF Alerts!Mine, Answered
  <2> QED
    BY <1>1, <1>2, <1>3, <2>1 DEF AlertsInv, ListFollows
<1> QED
  BY <1>4, <1>5, <1>6, <1>7 DEF AlertsInv

LEMMA AlertsDeactivateKeeps == ASSUME Alerts!Assumptions, AlertsInv, NEW r \in removals, Alerts!Deactivate(r) PROVE AlertsInv'
<1> DEFINE next == [r EXCEPT !.at = "done"]
<1>1. /\ active' = active \ {id \in {r.id} : of[id] = r.who}
      /\ \/ r.at = "sent" /\ removals' = (removals \ {r}) \cup {next}
         \/ r.at = "lost" /\ removals' = removals \ {r}
      /\ UNCHANGED <<of, alertsCookie, alertsSession, list, loading, message, pending, alertsLoads, loaded, removed, alertsStrayed, doubtful>>
  BY DEF Alerts!Deactivate, Alerts!Moved, Alerts!page
<1>2. /\ r \in AlertRemovals /\ next \in AlertRemovals
      /\ next.owner = r.owner /\ next.who = r.who /\ next.id = r.id /\ next.at = "done"
  BY DEF AlertsInv, AlertsTyped, AlertRemovals
<1> HIDE DEF next
<1>3. active' \subseteq active /\ (~alertsStrayed => active' = active \ {r.id})
  BY <1>1 DEF AlertsInv, OwnAlerts
<1>4. AlertsTyped'
  BY <1>1, <1>2, <1>3 DEF AlertsInv, AlertsTyped
<1>5. OneLoad'
  BY <1>1 DEF AlertsInv, OneLoad
<1>6. OwnAlerts'
  BY <1>1, <1>2, <1>3 DEF AlertsInv, OwnAlerts
<1>7. ListFollows'
  <2> SUFFICES ASSUME ~alertsStrayed, ~doubtful, alertsSession # Guest PROVE ListFollows'
    BY <1>1 DEF ListFollows
  <2>1. ~loading /\ r.at = "sent" /\ r.id \in list /\ r.id \in pending /\ \A l \in alertsLoads : ~l.live
    BY <1>1 DEF AlertsInv, ListFollows, OneLoad
  <2>2. Alerts!Mine(alertsSession)' = Alerts!Mine(alertsSession) \ {r.id}
    BY <1>1, <1>3 DEF Alerts!Mine
  <2>3. Answered' = Answered \cup {r.id}
    BY <1>1, <1>2, <2>1 DEF Answered, AlertRemovals
  <2>4. \A q, p \in removals' : q.id = p.id => q = p
    BY <1>1, <1>2, <2>1 DEF AlertsInv, ListFollows
  <2> QED
    BY <1>1, <1>2, <2>1, <2>2, <2>3, <2>4 DEF AlertsInv, ListFollows
<1> QED
  BY <1>4, <1>5, <1>6, <1>7 DEF AlertsInv

LEMMA AlertsAnswerKeeps == ASSUME Alerts!Assumptions, AlertsInv, NEW r \in removals, Alerts!Answer(r) PROVE AlertsInv'
<1>1. /\ r.at = "done" /\ removals' = removals \ {r}
      /\ \/ r.owner = alertsSession /\ list' = list \ {r.id} /\ pending' = pending \ {r.id}
         \/ r.owner # alertsSession /\ UNCHANGED <<list, pending>>
      /\ UNCHANGED <<of, active, alertsCookie, alertsSession, loading, message, alertsLoads, loaded, removed, alertsStrayed, doubtful>>
  BY DEF Alerts!Answer, Alerts!Owns
<1>2. AlertsTyped'
  BY <1>1 DEF AlertsInv, AlertsTyped
<1>3. OneLoad'
  BY <1>1 DEF AlertsInv, OneLoad
<1>4. OwnAlerts'
  BY <1>1 DEF AlertsInv, OwnAlerts
<1>5. ListFollows'
  <2> SUFFICES ASSUME ~alertsStrayed, ~doubtful, alertsSession # Guest PROVE ListFollows'
    BY <1>1 DEF ListFollows
  <2>1. /\ r.owner = alertsSession /\ ~loading /\ (\A l \in alertsLoads : ~l.live) /\ r.id \in list
        /\ \A q \in removals' : q.id # r.id
    BY <1>1 DEF AlertsInv, ListFollows, OneLoad
  <2>2. Alerts!Mine(alertsSession)' = Alerts!Mine(alertsSession) /\ r.id \notin Alerts!Mine(alertsSession)
    BY <1>1 DEF AlertsInv, OwnAlerts, Alerts!Mine
  <2>3. Answered' = Answered \ {r.id}
    BY <1>1, <2>1 DEF Answered
  <2> QED
    BY <1>1, <2>1, <2>2, <2>3 DEF AlertsInv, ListFollows
<1> QED
  BY <1>2, <1>3, <1>4, <1>5 DEF AlertsInv

LEMMA AlertsRemoveFailsKeeps == ASSUME Alerts!Assumptions, AlertsInv, NEW r \in removals, Alerts!RemoveFails(r) PROVE AlertsInv'
<1> DEFINE lost == [r EXCEPT !.at = "lost"]
<1>1. /\ doubtful' = TRUE
      /\ removals' = removals \ {r} \/ removals' = (removals \ {r}) \cup {lost}
      /\ message' \in {TRUE, message} /\ pending' \subseteq pending
      /\ UNCHANGED <<of, active, alertsCookie, alertsSession, list, loading, alertsLoads, loaded, removed, alertsStrayed>>
  BY DEF Alerts!RemoveFails
<1>2. lost \in AlertRemovals /\ lost.owner = r.owner /\ lost.who = r.who /\ lost.id = r.id /\ lost.at = "lost"
  BY DEF AlertsInv, AlertsTyped, AlertRemovals
<1> HIDE DEF lost
<1>3. AlertsTyped'
  BY <1>1, <1>2 DEF AlertsInv, AlertsTyped
<1>4. OneLoad' /\ ListFollows'
  BY <1>1 DEF AlertsInv, OneLoad, ListFollows
<1>5. OwnAlerts'
  BY <1>1, <1>2 DEF AlertsInv, OwnAlerts
<1> QED
  BY <1>3, <1>4, <1>5 DEF AlertsInv

LEMMA AlertsStutterKeeps == ASSUME AlertsInv, UNCHANGED Alerts!vars PROVE AlertsInv'
BY DEF Alerts!vars, Alerts!page, AlertsInv, AlertsTyped, OneLoad, OwnAlerts, ListFollows, Alerts!Mine, Answered

LEMMA AlertsNextKeeps == ASSUME Alerts!Assumptions, AlertsInv, [Alerts!Next]_(Alerts!vars) PROVE AlertsInv'
BY AlertsSignInKeeps, AlertsSwitchKeeps, AlertsReloadKeeps, AlertsLoadTokenKeeps, AlertsReadKeeps, AlertsReceiveKeeps, AlertsEndLoadKeeps, AlertsLoadFailsKeeps, AlertsRemoveKeeps,
   AlertsRemovalTokenKeeps, AlertsDeactivateKeeps, AlertsAnswerKeeps, AlertsRemoveFailsKeeps, AlertsStutterKeeps DEF Alerts!Next, Alerts!EndLoads, Alerts!EndRemovals

LEMMA AlertsImplied == ASSUME AlertsInv PROVE Alerts!TypeOK /\ Alerts!ShowsOwn /\ Alerts!ListIsActive
<1>1. Alerts!TypeOK
  BY DEF AlertsInv, AlertsTyped, OneLoad, Alerts!TypeOK
<1>2. Alerts!ShowsOwn
  BY DEF AlertsInv, OwnAlerts, Alerts!ShowsOwn
<1>3. Alerts!ListIsActive
  BY DEF AlertsInv, AlertsTyped, OneLoad, ListFollows, Alerts!ListIsActive, Answered
<1> QED
  BY <1>1, <1>2, <1>3

\* An alert leaves the list when it is not active any more, or with the whole list.
LEMMA AlertsLeave ==
  ASSUME AlertsInv, [Alerts!Next]_(Alerts!vars), ~alertsStrayed, loaded' = loaded, NEW id \in list, id \notin list'
  PROVE  id \notin active'
<1>1. loaded \in Nat /\ loaded + 1 # loaded
  BY DEF AlertsInv, AlertsTyped
<1>2. CASE \E l \in alertsLoads : Alerts!Receive(l)
  BY <1>2 DEF Alerts!Receive, AlertsInv, OneLoad
<1>3. CASE \E r \in removals : Alerts!Answer(r)
  BY <1>3 DEF Alerts!Answer, AlertsInv, OwnAlerts
<1>4. UNCHANGED list \/ (\E l \in alertsLoads : Alerts!Receive(l)) \/ \E r \in removals : Alerts!Answer(r)
  BY <1>1 DEF Alerts!Next, Alerts!vars, Alerts!page, Alerts!EndLoads, Alerts!EndRemovals, Alerts!SignIn, Alerts!Switch, Alerts!Reload, Alerts!Load, Alerts!LoadToken, Alerts!Read, Alerts!EndLoad, Alerts!LoadFails, Alerts!Remove,
     Alerts!RemovalToken, Alerts!Deactivate, Alerts!RemoveFails
<1> QED
  BY <1>2, <1>3, <1>4

--------------------------------------------------------------------------------
(* The star. *)

LEMMA AtMostOne == ASSUME NEW S, \A a, b \in S : a = b PROVE Cardinality(S) <= 1
<1>1. CASE S = {}
  BY <1>1, FS_EmptySet
<1>2. CASE S # {}
  <2>1. PICK a \in S : S = {a}
    BY <1>2
  <2> QED
    BY <2>1, FS_Singleton
<1> QED
  BY <1>1, <1>2

\* The instances count as this module does.
LEMMA Sizes == \A S : Star!Cardinality(S) = Cardinality(S) /\ Health!Cardinality(S) = Cardinality(S)
BY DEF Star!Cardinality, Health!Cardinality, Cardinality

Changes == [n : Nat, context : [barcode : Barcode, who : Account], who : Account, next : BOOLEAN,
            at : {"token", "sent", "confirmed", "unconfirmed", "lost"}]
Checks(numbers) == [n : numbers, context : Star!Context, live : BOOLEAN, at : {"token", "sent", "read"},
                    who : Star!Principal, value : SUBSET BOOLEAN]

StarTyped ==
  /\ context \in Star!Context /\ starCookie \in Star!Principal /\ visits \in Nat /\ tries \in Nat
  /\ kept \in [Star!Context -> BOOLEAN]
  /\ saved \in BOOLEAN /\ ready \in BOOLEAN /\ failed \in BOOLEAN /\ saving \in BOOLEAN
  /\ starMessage \in {"none", "ok", "error"} /\ overtaken \in BOOLEAN /\ starStrayed \in BOOLEAN
  /\ \E numbers : checks \subseteq Checks(numbers)
  /\ toggles \subseteq Changes

Undisturbed == ~overtaken /\ ~starStrayed

\* Unless one has strayed, a request has a token of whom it was made for.
OwnTokens ==
  ~starStrayed => (\A a \in checks : a.who = a.context.who) /\ \A t \in toggles : t.who = t.context.who

\* A check that is not void is the only one, of the context that is shown, before the star is
\* ready or has failed; undisturbed, what it has read is what is kept, and no change is beside it.
LiveCheck ==
  /\ \A a \in checks : a.live => a.context = context /\ ~ready /\ ~failed
  /\ \A a, b \in checks : a.live /\ b.live => a = b
  /\ Undisturbed => \A a \in checks : a.live =>
       /\ a.at = "read" => a.value = {kept[context]}
       /\ \A t \in toggles : t.context # context

\* Undisturbed, a context has one change under way at most; one that is confirmed is what is
\* kept, and one whose answer was lost has shown an error.
ChangesAreSafe ==
  Undisturbed =>
    /\ \A t, u \in toggles : t.context = u.context => t = u
    /\ \A t \in toggles : t.at = "confirmed" => kept[t.context] = t.next
    /\ \A t \in toggles : t.at = "lost" /\ t.context = context => starMessage = "error"

\* A star that is busy was ready, and one that is ready has not failed.
BusyIsReady == (saving => ready) /\ (ready => ~failed)

\* Before the context is left, a change that is waited for keeps the star busy.
FirstVisit ==
  visits = 0 => \A t \in toggles : t.at # "lost" =>
    /\ saving /\ t.context = context
    /\ \A u \in toggles : u.at # "lost" => t = u

\* What a star that is ready shows, with no change of its context under way.
ShownInContext ==
  ready /\ starMessage # "error" /\ Undisturbed /\ (\A t \in toggles : t.context # context) => saved = kept[context]

StarInv == StarTyped /\ OwnTokens /\ LiveCheck /\ ChangesAreSafe /\ BusyIsReady /\ FirstVisit /\ ShownInContext

USE DEF Changes, Undisturbed

LEMMA StarContextIs ==
  /\ \A c \in Star!Context : c.who \in Star!Principal
  /\ \A c \in [barcode : Barcode, who : Account] : c \in Star!Context
  /\ Account \subseteq Star!Principal /\ Star!Principal \subseteq Account \cup {Guest}
BY DEF Star!Context, Star!Principal

\* What the server keeps for a request is kept for a context: its own, with its own token.
LEMMA StarForIs ==
  ASSUME NEW r, r.context \in Star!Context, r.who \in Star!Principal
  PROVE  Star!For(r) \in Star!Context /\ (r.who = r.context.who => Star!For(r) = r.context)
BY DEF Star!For, Star!Context, Star!Principal

LEMMA StarAskedIs ==
  ASSUME NEW c \in Star!Context, NEW n, NEW numbers, n \in numbers
  PROVE  /\ Star!Asked(c, n) \in Checks(numbers) /\ Star!Asked(c, n).live /\ Star!Asked(c, n).context = c
         /\ Star!Asked(c, n).who = c.who /\ Star!Asked(c, n).at = "token"
BY StarContextIs DEF Star!Asked, Checks

LEMMA StarInitHolds == ASSUME Star!Assumptions, Star!Init PROVE StarInv
<1> DEFINE asked == Star!Asked(context, 0)
<1>1. /\ context \in Star!Context /\ visits = 0 /\ starCookie = context.who /\ kept \in [Star!Context -> BOOLEAN]
      /\ ready = (context.who = Guest) /\ saved = (ready /\ kept[context]) /\ checks = IF ready THEN {} ELSE {asked}
      /\ failed = FALSE /\ saving = FALSE /\ starMessage = "none" /\ tries = 0 /\ toggles = {} /\ overtaken = FALSE /\ starStrayed = FALSE
  BY DEF Star!Init
<1>2. /\ asked \in Checks({0}) /\ asked.live /\ asked.context = context /\ asked.who = context.who /\ asked.at = "token"
  BY <1>1, StarAskedIs
<1> HIDE DEF asked
<1>3. ready \in BOOLEAN /\ saved \in BOOLEAN
  <2>1. kept[context] \in BOOLEAN /\ (context.who = Guest) \in BOOLEAN
    BY <1>1
  <2> QED
    BY <1>1, <2>1, Zenon
<1>4. checks \subseteq Checks({0}) /\ \A a \in checks : a = asked /\ ~ready
  BY <1>1, <1>2
<1>5. StarTyped
  BY <1>1, <1>3, <1>4, StarContextIs DEF StarTyped
<1>6. OwnTokens /\ LiveCheck /\ ChangesAreSafe /\ BusyIsReady /\ FirstVisit
  BY <1>1, <1>2, <1>4 DEF OwnTokens, LiveCheck, ChangesAreSafe, BusyIsReady, FirstVisit
<1>7. ready => saved = kept[context]
  <2>1. kept[context] \in BOOLEAN
    BY <1>1
  <2> QED
    BY <1>1, <2>1, Zenon
<1>8. ShownInContext
  BY <1>7 DEF ShownInContext
<1> QED
  BY <1>5, <1>6, <1>8 DEF StarInv

\* Checks that were void stay so.
LEMMA StarVoidIs ==
  ASSUME StarTyped
  PROVE  /\ \E numbers : Star!Void \subseteq Checks(numbers)
         /\ \A a \in Star!Void : ~a.live
         /\ OwnTokens => \A a \in Star!Void : ~starStrayed => a.who = a.context.who
<1>1. PICK numbers : checks \subseteq Checks(numbers)
  BY DEF StarTyped
<1>2. \A a \in Star!Void : \E check \in checks : a = [check EXCEPT !.live = FALSE]
  BY DEF Star!Void
<1>3. ASSUME NEW check \in checks
      PROVE  LET a == [check EXCEPT !.live = FALSE] IN
             a \in Checks(numbers) /\ ~a.live /\ a.who = check.who /\ a.context = check.context
  BY <1>1 DEF Checks
<1>4. \A a \in Star!Void : a \in Checks(numbers) /\ ~a.live
  BY <1>2, <1>3
<1>5. OwnTokens => \A a \in Star!Void : ~starStrayed => a.who = a.context.who
  <2>1. \A a \in Star!Void : \E check \in checks : a.who = check.who /\ a.context = check.context
    BY <1>2, <1>3
  <2>2. OwnTokens /\ ~starStrayed => \A check \in checks : check.who = check.context.who
    BY DEF OwnTokens
  <2> QED
    BY <2>1, <2>2
<1> QED
  BY <1>4, <1>5

\* What a check leaves.
LEMMA StarCheckIs ==
  ASSUME StarTyped, OwnTokens, NEW c \in Star!Context, NEW view \in BOOLEAN, Star!Check(c, view)
  PROVE  /\ saved' \in BOOLEAN /\ ready' \in BOOLEAN /\ failed' = FALSE
         /\ \E numbers : checks' \subseteq Checks(numbers)
         /\ \A a \in checks' : (~starStrayed => a.who = a.context.who) /\ (a.live => a.context = c /\ ~ready' /\ a.at = "token")
         /\ \A a, b \in checks' : a.live /\ b.live => a = b
         /\ ready' => saved' = kept[c]
<1>1. PICK numbers : Star!Void \subseteq Checks(numbers)
  BY StarVoidIs
<1>2. \A a \in Star!Void : ~a.live /\ (~starStrayed => a.who = a.context.who)
  BY StarVoidIs
<1>3. CASE c.who = Guest
  BY <1>1, <1>2, <1>3 DEF Star!Check, StarTyped
<1>4. CASE c.who # Guest
  <2> DEFINE number == Star!Cardinality(checks)
             new == Star!Asked(c, number)
  <2>1. saved' = view /\ ready' = FALSE /\ failed' = FALSE /\ checks' = Star!Void \cup {new}
    BY <1>4 DEF Star!Check
  <2>2. new \in Checks(numbers \cup {number}) /\ new.live /\ new.context = c /\ new.who = c.who /\ new.at = "token"
    BY StarAskedIs
  <2> HIDE DEF new, number
  <2>3. Checks(numbers) \subseteq Checks(numbers \cup {number})
    BY DEF Checks
  <2>4. checks' \subseteq Checks(numbers \cup {number})
    BY <1>1, <2>1, <2>2, <2>3
  <2>5. \A a \in checks' : a.live => a = new
    BY <1>2, <2>1
  <2>6. \E all : checks' \subseteq Checks(all)
    BY <2>4
  <2>7. \A a \in checks' : ~starStrayed => a.who = a.context.who
    BY <1>2, <2>1, <2>2
  <2> QED
    BY <2>1, <2>2, <2>5, <2>6, <2>7
<1> QED
  BY <1>3, <1>4

\* A step that begins a check of the context c.
LEMMA StarBeginsCheck ==
  ASSUME Star!Assumptions, StarInv, NEW c \in Star!Context, NEW view \in BOOLEAN, Star!Check(c, view), Star!Overtake(c, toggles'),
         context' = c, visits' \in Nat, visits' = 0 => c = context /\ visits = 0 /\ ~saving,
         saving' = FALSE, starMessage' \in {"none", "ok", "error"}, toggles' \subseteq toggles, UNCHANGED <<starCookie, kept, tries>>
  PROVE  StarInv'
<1>1. /\ overtaken' \in BOOLEAN /\ (~overtaken' => ~overtaken /\ \A t \in toggles' : t.context # c)
      /\ starStrayed' = starStrayed
  BY DEF Star!Overtake, StarInv, StarTyped
<1>2. StarTyped /\ OwnTokens
  BY DEF StarInv
<1>3. /\ saved' \in BOOLEAN /\ ready' \in BOOLEAN /\ failed' = FALSE
      /\ \E numbers : checks' \subseteq Checks(numbers)
      /\ \A a \in checks' : (~starStrayed => a.who = a.context.who) /\ (a.live => a.context = c /\ ~ready' /\ a.at = "token")
      /\ \A a, b \in checks' : a.live /\ b.live => a = b
      /\ ready' => saved' = kept[c]
  BY <1>2, StarCheckIs
<1>4. StarTyped'
  BY <1>1, <1>2, <1>3 DEF StarTyped
<1>5. OwnTokens'
  BY <1>1, <1>2, <1>3 DEF OwnTokens
<1>6. LiveCheck'
  BY <1>1, <1>3 DEF LiveCheck
<1>7. ChangesAreSafe'
  BY <1>1 DEF StarInv, ChangesAreSafe
<1>8. BusyIsReady' /\ FirstVisit'
  BY <1>3 DEF StarInv, BusyIsReady, FirstVisit
<1>9. ShownInContext'
  BY <1>3 DEF ShownInContext
<1> QED
  BY <1>4, <1>5, <1>6, <1>7, <1>8, <1>9 DEF StarInv

LEMMA StarShowKeeps == ASSUME Star!Assumptions, StarInv, NEW c \in Star!Context, Star!Show(c) PROVE StarInv'
<1>1. visits' = visits + 1 /\ visits \in Nat
  BY DEF Star!Show, StarInv, StarTyped
<1>2. /\ Star!Check(c, FALSE) /\ Star!Overtake(c, toggles')
      /\ context' = c /\ saving' = FALSE /\ starMessage' = "none" /\ UNCHANGED <<starCookie, kept, tries, toggles>>
  BY DEF Star!Show, Star!browser
<1>3. visits' \in Nat /\ visits' # 0
  BY <1>1
<1>4. FALSE \in BOOLEAN /\ toggles' \subseteq toggles /\ starMessage' \in {"none", "ok", "error"}
  BY <1>2
<1> QED
  BY <1>2, <1>3, <1>4, StarBeginsCheck

LEMMA StarMovesKeep ==
  ASSUME Star!Assumptions, StarInv, Star!Switch \/ \E b \in Barcode : Star!Visit(b)
  PROVE  StarInv'
<1>1. context \in Star!Context /\ starCookie \in Star!Principal
  BY DEF StarInv, StarTyped
<1>2. CASE Star!Switch
  <2>1. [context EXCEPT !.who = starCookie] \in Star!Context
    BY <1>1 DEF Star!Context
  <2> QED
    BY <1>2, <2>1, StarShowKeeps DEF Star!Switch
<1>3. ASSUME NEW b \in Barcode, Star!Visit(b) PROVE StarInv'
  <2>1. [context EXCEPT !.barcode = b] \in Star!Context
    BY <1>1 DEF Star!Context
  <2> QED
    BY <1>3, <2>1, StarShowKeeps DEF Star!Visit
<1> QED
  BY <1>2, <1>3

LEMMA StarSignInKeeps == ASSUME StarInv, NEW p \in Star!Principal, Star!SignIn(p) PROVE StarInv'
<1>1. starCookie' \in Star!Principal /\ UNCHANGED <<context, visits, kept, saved, ready, failed, saving, starMessage, checks, tries, toggles, overtaken, starStrayed>>
  BY DEF Star!SignIn, Star!page, Star!star, Star!past
<1> QED
  BY <1>1 DEF StarInv, StarTyped, OwnTokens, LiveCheck, ChangesAreSafe, BusyIsReady, FirstVisit, ShownInContext

LEMMA StarAgainKeeps == ASSUME Star!Assumptions, StarInv, Star!Retry \/ Star!Changed PROVE StarInv'
<1>1. context \in Star!Context /\ saved \in BOOLEAN /\ visits \in Nat /\ starMessage \in {"none", "ok", "error"}
  BY DEF StarInv, StarTyped
<1>2. /\ Star!Check(context, saved) /\ Star!Overtake(context, toggles') /\ context' = context /\ visits' = visits /\ saving' = saving
      /\ starMessage' \in {starMessage, "none"} /\ toggles' \subseteq toggles /\ UNCHANGED <<starCookie, kept, tries>> /\ (~saving \/ failed)
  BY DEF Star!Retry, Star!Changed, Star!page, Star!browser
<1>3. saving = FALSE
  BY <1>2 DEF StarInv, StarTyped, BusyIsReady
<1>4. visits' \in Nat /\ saving' = FALSE /\ starMessage' \in {"none", "ok", "error"} /\ ~saving
  BY <1>1, <1>2, <1>3
<1> QED
  BY <1>1, <1>2, <1>4, StarBeginsCheck

LEMMA StarCheckTokenKeeps == ASSUME StarInv, NEW check \in checks, Star!CheckToken(check) PROVE StarInv'
<1> DEFINE next == [check EXCEPT !.at = "sent", !.who = starCookie]
<1>1. PICK numbers : checks \subseteq Checks(numbers)
  BY DEF StarInv, StarTyped
<1>2. /\ check.at = "token" /\ checks' = (checks \ {check}) \cup {next} /\ Star!Stray(check)
      /\ UNCHANGED <<context, visits, kept, saved, ready, failed, saving, starMessage, tries, toggles, starCookie>>
  BY DEF Star!CheckToken, Star!Becomes, Star!star, Star!page, Star!browser
<1>3. /\ starStrayed' \in BOOLEAN /\ overtaken' = overtaken /\ (starStrayed => starStrayed')
      /\ ~starStrayed' => starCookie = check.context.who
  BY <1>2 DEF Star!Stray, StarInv, StarTyped
<1>4. next \in Checks(numbers) /\ next.context = check.context /\ next.live = check.live /\ next.at = "sent" /\ next.who = starCookie
  BY <1>1 DEF StarInv, StarTyped, Checks
<1> HIDE DEF next
<1>5. checks' \subseteq Checks(numbers)
  BY <1>1, <1>2, <1>4
<1>6. StarTyped'
  BY <1>2, <1>3, <1>5 DEF StarInv, StarTyped
<1>7. OwnTokens'
  BY <1>2, <1>3, <1>4 DEF StarInv, OwnTokens
<1>8. LiveCheck'
  BY <1>2, <1>3, <1>4 DEF StarInv, LiveCheck
<1>9. ChangesAreSafe' /\ BusyIsReady' /\ FirstVisit' /\ ShownInContext'
  BY <1>2, <1>3 DEF StarInv, ChangesAreSafe, BusyIsReady, FirstVisit, ShownInContext
<1> QED
  BY <1>6, <1>7, <1>8, <1>9 DEF StarInv

LEMMA StarReadKeeps == ASSUME StarInv, NEW check \in checks, Star!Read(check) PROVE StarInv'
<1> DEFINE next == [check EXCEPT !.at = "read", !.value = {kept[Star!For(check)]}]
<1>1. PICK numbers : checks \subseteq Checks(numbers)
  BY DEF StarInv, StarTyped
<1>2. /\ checks' = (checks \ {check}) \cup {next}
      /\ UNCHANGED <<context, visits, kept, saved, ready, failed, saving, starMessage, tries, toggles, starCookie, overtaken, starStrayed>>
  BY DEF Star!Read, Star!Becomes, Star!star, Star!page, Star!browser, Star!past
<1>3. Star!For(check) \in Star!Context /\ (check.who = check.context.who => Star!For(check) = check.context)
  BY <1>1, StarForIs DEF Checks
<1>4. kept[Star!For(check)] \in BOOLEAN
  BY <1>3 DEF StarInv, StarTyped
<1>5. /\ next \in Checks(numbers) /\ next.context = check.context /\ next.live = check.live /\ next.who = check.who
      /\ next.value = {kept[Star!For(check)]}
  BY <1>1, <1>4 DEF Checks
<1> HIDE DEF next
<1>6. checks' \subseteq Checks(numbers)
  BY <1>1, <1>2, <1>5
<1>7. StarTyped'
  BY <1>2, <1>6 DEF StarInv, StarTyped
<1>8. OwnTokens'
  BY <1>2, <1>5 DEF StarInv, OwnTokens
<1>9. LiveCheck'
  <2>1. ~starStrayed /\ check.live => next.value = {kept[context]}
    BY <1>3, <1>5 DEF StarInv, OwnTokens, LiveCheck
  <2> QED
    BY <1>2, <1>5, <2>1 DEF StarInv, LiveCheck
<1>10. ChangesAreSafe' /\ BusyIsReady' /\ FirstVisit' /\ ShownInContext'
  BY <1>2 DEF StarInv, ChangesAreSafe, BusyIsReady, FirstVisit, ShownInContext
<1> QED
  BY <1>7, <1>8, <1>9, <1>10 DEF StarInv

LEMMA StarReceiveKeeps == ASSUME StarInv, NEW check \in checks, Star!Receive(check) PROVE StarInv'
<1>1. /\ check.at = "read" /\ checks' = checks \ {check}
      /\ UNCHANGED <<context, visits, kept, failed, saving, starMessage, tries, toggles, starCookie, overtaken, starStrayed>>
      /\ \/ UNCHANGED <<saved, ready>>
         \/ check.live /\ check.context = context /\ saved' = (TRUE \in check.value) /\ ready' = TRUE
  BY DEF Star!Receive, Star!page, Star!browser, Star!past
<1>2. StarTyped'
  <2>1. saved' \in BOOLEAN /\ ready' \in BOOLEAN
    <3>1. saved \in BOOLEAN /\ ready \in BOOLEAN
      BY DEF StarInv, StarTyped
    <3>2. (TRUE \in check.value) \in BOOLEAN
      OBVIOUS
    <3> QED
      BY <1>1, <3>1, <3>2, Zenon
  <2>2. PICK numbers : checks \subseteq Checks(numbers)
    BY DEF StarInv, StarTyped
  <2>3. checks' \subseteq Checks(numbers)
    BY <1>1, <2>2
  <2> QED
    BY <1>1, <2>1, <2>3 DEF StarInv, StarTyped
<1>3. LiveCheck' /\ BusyIsReady'
  <2>1. checks' \subseteq checks /\ (UNCHANGED ready \/ (check.live /\ checks' = checks \ {check} /\ ~failed /\ ready'))
    BY <1>1 DEF StarInv, LiveCheck
  <2>2. \A a \in checks' : a.live => ~ready'
    BY <1>1, <2>1 DEF StarInv, LiveCheck
  <2> QED
    BY <1>1, <2>1, <2>2 DEF StarInv, LiveCheck, BusyIsReady
<1>4. OwnTokens' /\ ChangesAreSafe' /\ FirstVisit'
  BY <1>1 DEF StarInv, OwnTokens, ChangesAreSafe, FirstVisit
<1>5. ShownInContext'
  <2>1. kept[context] \in BOOLEAN
    BY DEF StarInv, StarTyped
  <2>2. CASE UNCHANGED <<saved, ready>>
    BY <1>1, <2>2 DEF StarInv, ShownInContext
  <2>3. CASE check.live /\ saved' = (TRUE \in check.value)
    <3>1. Undisturbed => check.value = {kept[context]}
      BY <1>1, <2>3 DEF StarInv, LiveCheck
    <3>2. (TRUE \in {kept[context]}) = kept[context]
      <4>1. CASE kept[context] = TRUE
        BY <4>1
      <4>2. CASE kept[context] = FALSE
        <5>1. {kept[context]} = {FALSE}
          BY <4>2
        <5>2. TRUE \notin {FALSE}
          OBVIOUS
        <5>3. (TRUE \in {FALSE}) = FALSE
          BY <5>2, SMT
        <5> QED
          BY <4>2, <5>1, <5>3, Zenon
      <4> QED
        BY <2>1, <4>1, <4>2
    <3>3. Undisturbed => saved' = kept[context]
      BY <2>3, <3>1, <3>2
    <3> QED
      BY <1>1, <3>3 DEF ShownInContext
  <2> QED
    BY <1>1, <2>2, <2>3
<1> QED
  BY <1>2, <1>3, <1>4, <1>5 DEF StarInv

LEMMA StarCheckFailsKeeps == ASSUME StarInv, NEW check \in checks, Star!CheckFails(check) PROVE StarInv'
<1>1. /\ checks' = checks \ {check}
      /\ \/ check.live /\ failed' = TRUE /\ starMessage' = "error"
         \/ UNCHANGED <<failed, starMessage>>
      /\ UNCHANGED <<context, visits, kept, saved, ready, saving, tries, toggles, starCookie, overtaken, starStrayed>>
  BY DEF Star!CheckFails, Star!page, Star!browser, Star!past
<1>2. PICK numbers : checks \subseteq Checks(numbers)
  BY DEF StarInv, StarTyped
<1>3. checks' \subseteq Checks(numbers)
  BY <1>1, <1>2
<1>4. StarTyped'
  BY <1>1, <1>3 DEF StarInv, StarTyped
<1>5. OwnTokens' /\ LiveCheck'
  BY <1>1 DEF StarInv, OwnTokens, LiveCheck
<1>6. ChangesAreSafe' /\ BusyIsReady' /\ FirstVisit' /\ ShownInContext'
  BY <1>1 DEF StarInv, ChangesAreSafe, BusyIsReady, FirstVisit, ShownInContext, LiveCheck
<1> QED
  BY <1>4, <1>5, <1>6 DEF StarInv

LEMMA StarToggleHereKeeps == ASSUME Star!Assumptions, StarInv, Star!ToggleHere PROVE StarInv'
<1>1. /\ checks' = Star!Void /\ context.who = Guest
      /\ UNCHANGED <<context, visits, ready, failed, saving, tries, toggles, starCookie, overtaken, starStrayed>>
      /\ \/ kept' = [kept EXCEPT ![context] = ~@] /\ saved' = kept'[context] /\ starMessage' = "ok"
         \/ UNCHANGED <<kept, saved>> /\ starMessage' = "error"
  BY DEF Star!ToggleHere, Star!page, Star!browser, Star!past
<1>2. context \in Star!Context /\ kept \in [Star!Context -> BOOLEAN] /\ kept[context] \in BOOLEAN /\ saved \in BOOLEAN
  BY DEF StarInv, StarTyped
<1>3. \A t \in toggles : t.context # context /\ kept'[t.context] = kept[t.context]
  <2>1. \A t \in toggles : t.context.who # Guest /\ t.context \in Star!Context
    BY StarContextIs DEF StarInv, StarTyped, Star!Assumptions
  <2> QED
    BY <1>1, <1>2, <2>1
<1>4. \E numbers : checks' \subseteq Checks(numbers)
  BY <1>1, StarVoidIs DEF StarInv
<1>5. (\A a \in checks' : ~a.live) /\ OwnTokens'
  BY <1>1, StarVoidIs DEF StarInv, OwnTokens
<1>6. kept' \in [Star!Context -> BOOLEAN] /\ saved' \in BOOLEAN
  BY <1>1, <1>2
<1>7. StarTyped'
  BY <1>1, <1>4, <1>6 DEF StarInv, StarTyped
<1>8. LiveCheck' /\ BusyIsReady' /\ FirstVisit'
  BY <1>1, <1>5 DEF StarInv, LiveCheck, BusyIsReady, FirstVisit
<1>9. ChangesAreSafe' /\ ShownInContext'
  BY <1>1, <1>3 DEF StarInv, ChangesAreSafe, ShownInContext
<1> QED
  BY <1>5, <1>7, <1>8, <1>9 DEF StarInv

LEMMA StarToggleKeeps == ASSUME Star!Assumptions, StarInv, Star!Toggle PROVE StarInv'
<1> DEFINE t == [n |-> tries, context |-> context, who |-> context.who, next |-> ~saved, at |-> "token"]
<1>1. /\ context.who # Guest /\ ready /\ ~saving /\ saving' = TRUE /\ starMessage' = "none" /\ checks' = Star!Void /\ tries' = tries + 1
      /\ toggles' = toggles \cup {t} /\ Star!Overtake(context, toggles)
      /\ UNCHANGED <<context, visits, kept, saved, ready, failed, starCookie>>
  BY DEF Star!Toggle, Star!page, Star!browser
<1>2. context \in [barcode : Barcode, who : Account] /\ tries \in Nat /\ saved \in BOOLEAN
  BY <1>1, StarContextIs DEF StarInv, StarTyped, Star!Context, Star!Principal
<1>3. t \in Changes /\ t.context = context /\ t.at = "token" /\ t.who = t.context.who
  BY <1>2
<1> HIDE DEF t
<1>4. /\ overtaken' \in BOOLEAN /\ (~overtaken' => ~overtaken /\ \A u \in toggles : u.context # context)
      /\ starStrayed' = starStrayed
  BY <1>1 DEF Star!Overtake, StarInv, StarTyped
<1>5. (\A a \in checks' : ~a.live) /\ (~starStrayed => \A a \in checks' : a.who = a.context.who)
  BY <1>1, StarVoidIs DEF StarInv
<1>6. StarTyped'
  <2>1. toggles' \subseteq Changes /\ tries' \in Nat
    BY <1>1, <1>2, <1>3 DEF StarInv, StarTyped
  <2>2. \E numbers : checks' \subseteq Checks(numbers)
    BY <1>1, StarVoidIs DEF StarInv
  <2> QED
    BY <1>1, <1>4, <2>1, <2>2 DEF StarInv, StarTyped
<1>7. OwnTokens' /\ LiveCheck' /\ BusyIsReady'
  BY <1>1, <1>3, <1>4, <1>5 DEF StarInv, OwnTokens, LiveCheck, BusyIsReady
<1>8. ChangesAreSafe'
  BY <1>1, <1>3, <1>4 DEF StarInv, ChangesAreSafe
<1>9. FirstVisit' /\ ShownInContext'
  BY <1>1, <1>3 DEF StarInv, FirstVisit, ShownInContext
<1> QED
  BY <1>6, <1>7, <1>8, <1>9 DEF StarInv

LEMMA StarToggleTokenKeeps == ASSUME StarInv, NEW t \in toggles, Star!ToggleToken(t) PROVE StarInv'
<1> DEFINE next == [t EXCEPT !.at = "sent", !.who = starCookie]
<1>1. /\ t.at = "token" /\ starCookie # Guest /\ toggles' = (toggles \ {t}) \cup {next} /\ Star!Stray(t)
      /\ UNCHANGED <<context, visits, kept, saved, ready, failed, saving, starMessage, checks, tries, starCookie>>
  BY DEF Star!ToggleToken, Star!Moved, Star!star, Star!page, Star!browser
<1>2. /\ starStrayed' \in BOOLEAN /\ overtaken' = overtaken /\ (starStrayed => starStrayed')
      /\ ~starStrayed' => starCookie = t.context.who
  BY <1>1 DEF Star!Stray, StarInv, StarTyped
<1>3. starCookie \in Account
  BY <1>1, StarContextIs DEF StarInv, StarTyped
<1>4. next \in Changes /\ next.context = t.context /\ next.next = t.next /\ next.at = "sent" /\ next.who = starCookie
  BY <1>3 DEF StarInv, StarTyped
<1> HIDE DEF next
<1>5. StarTyped'
  BY <1>1, <1>2, <1>4 DEF StarInv, StarTyped
<1>6. OwnTokens' /\ LiveCheck' /\ BusyIsReady'
  BY <1>1, <1>2, <1>4 DEF StarInv, OwnTokens, LiveCheck, BusyIsReady
<1>7. ChangesAreSafe'
  BY <1>1, <1>2, <1>4 DEF StarInv, ChangesAreSafe
<1>8. FirstVisit' /\ ShownInContext'
  BY <1>1, <1>2, <1>4 DEF StarInv, FirstVisit, ShownInContext
<1> QED
  BY <1>5, <1>6, <1>7, <1>8 DEF StarInv

LEMMA StarApplyKeeps == ASSUME StarInv, NEW t \in toggles, Star!Apply(t) PROVE StarInv'
<1> DEFINE for == Star!For(t)
<1>1. /\ t.at \in {"sent", "lost"} /\ kept' = [kept EXCEPT ![for] = t.next]
      /\ UNCHANGED <<context, visits, saved, ready, failed, saving, starMessage, checks, tries, starCookie, overtaken, starStrayed>>
  BY DEF Star!Apply, Star!star, Star!page, Star!browser, Star!past
<1>2. t \in Changes /\ context \in Star!Context
  BY DEF StarInv, StarTyped
<1>3. for \in Star!Context /\ (~starStrayed => for = t.context)
  <2>1. t.context \in Star!Context /\ t.who \in Star!Principal
    BY <1>2, StarContextIs
  <2> QED
    BY <2>1, StarForIs DEF StarInv, OwnTokens
<1>4. \/ t.at = "lost" /\ toggles' = toggles \ {t}
      \/ /\ t.at = "sent"
         /\ \E place \in {"confirmed", "unconfirmed"} : toggles' = (toggles \ {t}) \cup {[t EXCEPT !.at = place]}
  BY <1>1 DEF Star!Apply, Star!Moved
<1> HIDE DEF for
<1>5. /\ kept' \in [Star!Context -> BOOLEAN] /\ kept'[for] = t.next
      /\ \A c \in Star!Context : c # for => kept'[c] = kept[c]
  BY <1>1, <1>2, <1>3 DEF StarInv, StarTyped
<1>6. \A u \in toggles' : \/ u \in toggles
                          \/ t.at = "sent" /\ u \in Changes /\ u.context = t.context /\ u.next = t.next /\ u.who = t.who /\ u.at # "lost"
  BY <1>2, <1>4
<1>7. StarTyped'
  BY <1>1, <1>5, <1>6 DEF StarInv, StarTyped
<1>8. OwnTokens' /\ BusyIsReady'
  BY <1>1, <1>6 DEF StarInv, OwnTokens, BusyIsReady
<1>9. LiveCheck'
  <2>1. Undisturbed => \A a \in checks : a.live => for # context
    BY <1>3 DEF StarInv, LiveCheck
  <2> QED
    BY <1>1, <1>2, <1>5, <1>6, <2>1 DEF StarInv, LiveCheck
<1>10. Undisturbed => \A u \in toggles \ {t} : u.context # t.context /\ kept'[u.context] = kept[u.context]
  <2>1. \A u \in toggles : u.context \in Star!Context
    BY StarContextIs DEF StarInv, StarTyped
  <2> QED
    BY <1>3, <1>5, <2>1 DEF StarInv, ChangesAreSafe
<1>11. ChangesAreSafe'
  <2>1. CASE t.at = "lost" /\ toggles' = toggles \ {t}
    BY <1>1, <1>10, <2>1 DEF StarInv, ChangesAreSafe
  <2>2. ASSUME NEW place \in {"confirmed", "unconfirmed"}, toggles' = (toggles \ {t}) \cup {[t EXCEPT !.at = place]}
        PROVE  ChangesAreSafe'
    <3> DEFINE new == [t EXCEPT !.at = place]
    <3>1. new.context = t.context /\ new.next = t.next /\ new.at # "lost"
      BY <1>2
    <3> HIDE DEF new
    <3>2. toggles' = (toggles \ {t}) \cup {new}
      BY <2>2 DEF new
    <3> QED
      BY <1>1, <1>3, <1>5, <1>10, <3>1, <3>2 DEF StarInv, ChangesAreSafe
  <2> QED
    BY <1>4, <2>1, <2>2
<1>12. FirstVisit'
  <2>1. CASE toggles' = toggles \ {t}
    BY <1>1, <2>1 DEF StarInv, FirstVisit
  <2>2. ASSUME NEW place \in {"confirmed", "unconfirmed"}, toggles' = (toggles \ {t}) \cup {[t EXCEPT !.at = place]}, t.at = "sent"
        PROVE  FirstVisit'
    <3> DEFINE new == [t EXCEPT !.at = place]
    <3>1. new.context = t.context /\ new.at # "lost"
      BY <1>2
    <3> HIDE DEF new
    <3>2. toggles' = (toggles \ {t}) \cup {new}
      BY <2>2 DEF new
    <3> QED
      BY <1>1, <2>2, <3>1, <3>2 DEF StarInv, FirstVisit
  <2> QED
    BY <1>4, <2>1, <2>2
<1>13. ShownInContext'
  <2>1. CASE t.context # context
    <3>1. Undisturbed => kept'[context] = kept[context]
      BY <1>2, <1>3, <1>5, <2>1
    <3>2. (\A u \in toggles' : u.context # context) => \A u \in toggles : u.context # context
      BY <1>4, <2>1
    <3> QED
      BY <1>1, <3>1, <3>2 DEF StarInv, ShownInContext
  <2>2. CASE t.context = context /\ t.at = "lost"
    BY <1>1, <2>2 DEF StarInv, ShownInContext, ChangesAreSafe
  <2>3. CASE t.context = context /\ t.at = "sent"
    <3>1. PICK place \in {"confirmed", "unconfirmed"} : toggles' = (toggles \ {t}) \cup {[t EXCEPT !.at = place]}
      BY <1>4, <2>3
    <3>2. [t EXCEPT !.at = place] \in toggles' /\ [t EXCEPT !.at = place].context = context
      BY <1>2, <2>3, <3>1
    <3> QED
      BY <1>1, <3>2 DEF ShownInContext
  <2> QED
    BY <1>1, <2>1, <2>2, <2>3
<1> QED
  BY <1>7, <1>8, <1>9, <1>11, <1>12, <1>13 DEF StarInv

\* A change that is confirmed: the star was busy, or begins a check.
LEMMA StarConfirmKeeps == ASSUME Star!Assumptions, StarInv, NEW t \in toggles, Star!Confirm(t) PROVE StarInv'
<1> DEFINE view == IF t.context = context THEN t.next ELSE saved
<1>1. /\ t.at = "confirmed" /\ toggles' = toggles \ {t}
      /\ \/ t.context = context /\ starMessage' = "ok" /\ saving' = FALSE
         \/ t.context # context /\ UNCHANGED <<starMessage, saving>>
      /\ UNCHANGED <<context, visits, kept, tries, starCookie>>
      /\ saving => saved' = view /\ UNCHANGED <<ready, failed, checks, overtaken, starStrayed>>
      /\ ~saving => Star!Check(context, view) /\ Star!Overtake(context, toggles')
  BY DEF Star!Confirm, Star!page, Star!browser, Star!past
<1>2. /\ context \in Star!Context /\ saved \in BOOLEAN /\ t.next \in BOOLEAN /\ visits \in Nat
      /\ starMessage \in {"none", "ok", "error"} /\ saving \in BOOLEAN
  BY DEF StarInv, StarTyped
<1>3. view \in BOOLEAN /\ (t.context = context => view = t.next) /\ (t.context # context => view = saved)
  BY <1>2
<1> HIDE DEF view
<1>4. CASE saving
  <2>1. saved' = view /\ UNCHANGED <<ready, failed, checks, overtaken, starStrayed>>
    BY <1>1, <1>4
  <2>2. StarTyped'
    BY <1>1, <1>2, <1>3, <2>1 DEF StarInv, StarTyped
  <2>3. OwnTokens' /\ BusyIsReady'
    BY <1>1, <2>1 DEF StarInv, OwnTokens, BusyIsReady
  <2>4. LiveCheck' /\ FirstVisit'
    BY <1>1, <2>1 DEF StarInv, LiveCheck, FirstVisit
  <2>5. ChangesAreSafe'
    BY <1>1, <2>1 DEF StarInv, ChangesAreSafe
  <2>6. ShownInContext'
    BY <1>1, <1>3, <2>1 DEF StarInv, ShownInContext, ChangesAreSafe
  <2> QED
    BY <2>2, <2>3, <2>4, <2>5, <2>6 DEF StarInv
<1>5. CASE ~saving
  <2>1. Star!Check(context, view) /\ Star!Overtake(context, toggles')
    BY <1>1, <1>5
  <2>2. saving' = FALSE /\ starMessage' \in {"none", "ok", "error"} /\ visits' \in Nat /\ toggles' \subseteq toggles
    BY <1>1, <1>2, <1>5
  <2> QED
    BY <1>1, <1>2, <1>3, <1>5, <2>1, <2>2, StarBeginsCheck
<1> QED
  BY <1>4, <1>5

LEMMA StarToggleFailsKeeps == ASSUME StarInv, NEW t \in toggles, Star!ToggleFails(t) PROVE StarInv'
<1>1. /\ t.at # "lost"
      /\ \/ t.context = context /\ starMessage' = "error" /\ saving' = FALSE
         \/ t.context # context /\ UNCHANGED <<starMessage, saving>>
      /\ UNCHANGED <<context, visits, kept, saved, ready, failed, checks, tries, starCookie, overtaken, starStrayed>>
  BY DEF Star!ToggleFails, Star!page, Star!browser, Star!past
<1> DEFINE lost == [t EXCEPT !.at = "lost"]
<1>2. lost \in Changes /\ lost.context = t.context /\ lost.next = t.next /\ lost.at = "lost" /\ lost.who = t.who
  BY DEF StarInv, StarTyped
<1>3. toggles' = toggles \ {t} \/ toggles' = (toggles \ {t}) \cup {lost}
  BY DEF Star!ToggleFails, Star!Lose, Star!Moved
<1> HIDE DEF lost
<1>4. StarTyped'
  BY <1>1, <1>2, <1>3 DEF StarInv, StarTyped
<1>5. OwnTokens' /\ BusyIsReady'
  BY <1>1, <1>2, <1>3 DEF StarInv, OwnTokens, BusyIsReady
<1>6. LiveCheck' /\ FirstVisit'
  BY <1>1, <1>2, <1>3 DEF StarInv, LiveCheck, FirstVisit
<1>7. ChangesAreSafe'
  BY <1>1, <1>2, <1>3 DEF StarInv, ChangesAreSafe
<1>8. ShownInContext'
  BY <1>1, <1>2, <1>3 DEF StarInv, ShownInContext
<1> QED
  BY <1>4, <1>5, <1>6, <1>7, <1>8 DEF StarInv

LEMMA StarStutterKeeps == ASSUME StarInv, UNCHANGED Star!vars PROVE StarInv'
BY DEF Star!vars, Star!star, Star!browser, Star!page, Star!past, StarInv, StarTyped, OwnTokens, LiveCheck, ChangesAreSafe, BusyIsReady,
       FirstVisit, ShownInContext

LEMMA StarNextKeeps == ASSUME Star!Assumptions, StarInv, [Star!Next]_(Star!vars) PROVE StarInv'
BY StarMovesKeep, StarSignInKeeps, StarAgainKeeps, StarCheckTokenKeeps, StarReadKeeps, StarReceiveKeeps, StarCheckFailsKeeps,
   StarToggleHereKeeps, StarToggleKeeps, StarToggleTokenKeeps, StarApplyKeeps, StarConfirmKeeps, StarToggleFailsKeeps, StarStutterKeeps
   DEF Star!Next, Star!EndCheck, Star!EndToggle

LEMMA StarImplied == ASSUME StarInv PROVE Star!TypeOK /\ Star!ShownIsKept /\ Star!OneChange
<1>1. Star!TypeOK /\ Star!ShownIsKept
  BY DEF StarInv, StarTyped, LiveCheck, ShownInContext, Star!TypeOK, Star!ShownIsKept
<1>2. Star!OneChange
  <2> DEFINE awaited == {t \in toggles : t.at # "lost"}
  <2>1. visits = 0 => Cardinality(awaited) <= 1
    BY AtMostOne DEF StarInv, FirstVisit
  <2>2. visits = 0 /\ awaited # {} => \A check \in checks : ~check.live
    BY DEF StarInv, FirstVisit, BusyIsReady, LiveCheck
  <2> QED
    BY <2>1, <2>2, Sizes DEF Star!OneChange
<1> QED
  BY <1>1, <1>2

\* A change that is said to be done was done.
LEMMA StarToldIsDone ==
  ASSUME Star!Assumptions, StarInv, [Star!Next]_(Star!vars), starMessage # "ok", starMessage' = "ok", ~overtaken, ~starStrayed
  PROVE  kept'[context'] = saved'
<1>1. CASE Star!ToggleHere
  BY <1>1 DEF Star!ToggleHere, Star!page
<1>2. ASSUME NEW t \in toggles, Star!Confirm(t) PROVE kept'[context'] = saved'
  <2>1. t.context = context /\ t.at = "confirmed" /\ context' = context /\ kept' = kept
    BY <1>2 DEF Star!Confirm, Star!page
  <2>2. kept[context] = t.next
    BY <2>1 DEF StarInv, ChangesAreSafe
  <2>3. saved' = t.next
    <3>1. context.who # Guest
      BY <2>1 DEF StarInv, StarTyped, Star!Assumptions
    <3>2. saved' = t.next \/ Star!Check(context, t.next)
      BY <1>2, <2>1 DEF Star!Confirm
    <3> QED
      BY <3>1, <3>2 DEF Star!Check
  <2> QED
    BY <2>1, <2>2, <2>3
<1>3. ASSUME NEW c, Star!Show(c) PROVE FALSE
  BY <1>3 DEF Star!Show
<1>4. ~Star!Retry /\ ~Star!Changed /\ ~Star!Switch /\ ~Star!Toggle
  BY <1>3 DEF Star!Retry, Star!Changed, Star!Switch, Star!Toggle
<1>5. ~\E b \in Barcode : Star!Visit(b)
  BY <1>3 DEF Star!Visit
<1>6. ASSUME NEW check \in checks PROVE ~(Star!CheckToken(check) \/ Star!Read(check) \/ Star!Receive(check) \/ Star!CheckFails(check))
  BY DEF Star!CheckToken, Star!Read, Star!Receive, Star!CheckFails, Star!star
<1>7. ASSUME NEW t \in toggles PROVE ~(Star!ToggleToken(t) \/ Star!Apply(t) \/ Star!ToggleFails(t))
  BY DEF Star!ToggleToken, Star!Apply, Star!ToggleFails, Star!star
<1>8. (~\E p \in Star!Principal : Star!SignIn(p)) /\ ~UNCHANGED Star!vars
  BY DEF Star!SignIn, Star!vars, Star!star
<1> QED
  BY <1>1, <1>2, <1>4, <1>5, <1>6, <1>7, <1>8 DEF Star!Next, Star!EndCheck, Star!EndToggle

HIDE DEF Changes, Undisturbed

--------------------------------------------------------------------------------
(* The panel. *)

Views == [status : {"loading", "ready", "error"}, data : Health!Data \cup {None}, stale : BOOLEAN,
          refreshing : BOOLEAN, failed : BOOLEAN]
Sought == [n : Nat, barcode : Barcode, cancelled : BOOLEAN]

PanelTyped ==
  /\ now \in Health!Time /\ page \in Barcode /\ healthEffect \in BOOLEAN /\ begun \in 0..MaxLookups
  /\ shown \in Views /\ lookups \subseteq Sought
  /\ stored \in [Barcode -> Health!Copies \cup {None}] /\ confirmed \in [Barcode -> Health!Time \cup {None}]

\* At most one lookup is not cancelled; it is of the page once the effect has run, and of the
\* product of which facts are shown, if it is the page's.
OneLookup ==
  /\ \A l, k \in lookups : ~l.cancelled /\ ~k.cancelled => l = k
  /\ ~healthEffect \/ Health!Own => \A l \in lookups : ~l.cancelled => l.barcode = page

\* Facts that are shown and not outdated, whatever the page, were told, and not in the future.
ShownWasTold ==
  shown.data # None =>
    /\ shown.data.at <= now
    /\ shown.data.facts /\ ~shown.stale =>
         ~shown.data.down /\ confirmed[shown.data.barcode] # None /\ confirmed[shown.data.barcode] >= shown.data.at
    /\ shown.data.facts /\ shown.failed => shown.stale

\* So was what is saved, of the product it is saved for.
StoredWasTold ==
  \A b \in Barcode :
    /\ confirmed[b] # None => confirmed[b] <= now
    /\ stored[b] # None =>
         /\ stored[b].data.barcode = b /\ stored[b].data.at = stored[b].savedAt /\ stored[b].savedAt <= now
         /\ ~stored[b].data.down
         /\ stored[b].data.facts => confirmed[b] # None /\ confirmed[b] >= stored[b].savedAt

PanelInv == PanelTyped /\ OneLookup /\ ShownWasTold /\ StoredWasTold /\ Health!ShowsOwn

USE DEF Views, Sought, Health!Data, Health!Copies, Health!Time, Health!Own

LEMMA PanelCachedIs ==
  ASSUME Health!Assumptions, PanelTyped, StoredWasTold, NEW b \in Barcode
  PROVE  /\ Health!Cached(b) \in Health!Data \cup {None}
         /\ Health!Cached(b) # None => stored[b] # None /\ Health!Cached(b) = stored[b].data /\ now - stored[b].savedAt <= MaxAge
BY DEF Health!Cached, PanelTyped, Health!Assumptions

LEMMA PanelInitHolds == ASSUME Health!Assumptions, Health!Init PROVE PanelInv
<1>1. PanelTyped
  BY DEF Health!Init, PanelTyped, Health!LoadingView, Health!Assumptions
<1>2. OneLookup /\ ShownWasTold /\ StoredWasTold /\ Health!ShowsOwn
  BY DEF Health!Init, OneLookup, ShownWasTold, StoredWasTold, Health!ShowsOwn, Health!LoadingView
<1> QED
  BY <1>1, <1>2 DEF PanelInv

LEMMA PanelTickKeeps == ASSUME Health!Assumptions, PanelInv, Health!Tick PROVE PanelInv'
<1>1. PanelTyped'
  BY DEF PanelInv, PanelTyped, Health!Tick, Health!Assumptions
<1>2. OneLookup' /\ Health!ShowsOwn'
  BY DEF PanelInv, OneLookup, Health!ShowsOwn, Health!Tick
<1>3. ShownWasTold'
  BY DEF PanelInv, PanelTyped, ShownWasTold, Health!Tick
<1>4. StoredWasTold'
  BY DEF PanelInv, PanelTyped, StoredWasTold, Health!Tick
<1> QED
  BY <1>1, <1>2, <1>3, <1>4 DEF PanelInv

LEMMA PanelOpenKeeps == ASSUME Health!Assumptions, PanelInv, NEW b \in Barcode, Health!Open(b) PROVE PanelInv'
<1>1. PanelTyped'
  BY DEF PanelInv, PanelTyped, Health!Open
<1>2. OneLookup' /\ Health!ShowsOwn'
  BY DEF PanelInv, OneLookup, Health!ShowsOwn, Health!Open
<1>3. ShownWasTold' /\ StoredWasTold'
  BY DEF PanelInv, ShownWasTold, StoredWasTold, Health!Open
<1> QED
  BY <1>1, <1>2, <1>3 DEF PanelInv

LEMMA PanelRetryKeeps == ASSUME Health!Assumptions, PanelInv, Health!Retry PROVE PanelInv'
<1>1. PanelTyped'
  BY DEF PanelInv, PanelTyped, Health!Retry
<1>2. OneLookup' /\ Health!ShowsOwn'
  BY DEF PanelInv, OneLookup, Health!ShowsOwn, Health!Retry
<1>3. ShownWasTold' /\ StoredWasTold'
  BY DEF PanelInv, ShownWasTold, StoredWasTold, Health!Retry
<1> QED
  BY <1>1, <1>2, <1>3 DEF PanelInv

LEMMA PanelEffectKeeps == ASSUME Health!Assumptions, PanelInv, Health!Effect PROVE PanelInv'
<1> DEFINE data == IF Health!Own THEN shown.data ELSE Health!Cached(page)
<1>1. /\ data \in Health!Data \cup {None} /\ (data # None => data.barcode = page /\ data.at <= now)
      /\ Health!Own => data # None
  BY PanelCachedIs DEF PanelInv, PanelTyped, ShownWasTold, StoredWasTold
<1>2. /\ shown' \in Views /\ shown'.data = data /\ shown'.refreshing /\ ~shown'.failed
      /\ ~Health!Own => shown'.stale \/ data = None
      /\ Health!Own => shown'.stale = shown.stale
  <2>1. CASE data = None
    BY <1>1, <2>1 DEF Health!Effect, Health!LoadingView
  <2>2. CASE data # None
    <3>1. shown' = [status |-> "ready", data |-> data, stale |-> IF Health!Own THEN shown.stale ELSE TRUE, refreshing |-> TRUE, failed |-> FALSE]
      BY <2>2 DEF Health!Effect
    <3>2. (IF Health!Own THEN shown.stale ELSE TRUE) \in BOOLEAN
      BY DEF PanelInv, PanelTyped
    <3> QED
      BY <1>1, <2>2, <3>1, <3>2
  <2> QED
    BY <2>1, <2>2
<1>3. Health!Own => data = shown.data
  OBVIOUS
<1> HIDE DEF data
<1>4. /\ \A l \in lookups' : l \in Sought
      /\ \A l \in lookups' : ~l.cancelled => l = [n |-> begun, barcode |-> page, cancelled |-> FALSE]
  <2>1. lookups' = {[l EXCEPT !.cancelled = TRUE] : l \in lookups} \cup {[n |-> begun, barcode |-> page, cancelled |-> FALSE]}
    BY DEF Health!Effect
  <2>2. ASSUME NEW l \in lookups PROVE [l EXCEPT !.cancelled = TRUE] \in Sought /\ [l EXCEPT !.cancelled = TRUE].cancelled = TRUE
    BY DEF PanelInv, PanelTyped
  <2>3. [n |-> begun, barcode |-> page, cancelled |-> FALSE] \in Sought
    BY DEF PanelInv, PanelTyped, Health!Assumptions
  <2> QED
    BY <2>1, <2>2, <2>3
<1>5. PanelTyped'
  <2>1. begun' \in 0..MaxLookups
    BY DEF Health!Effect, PanelInv, PanelTyped, Health!Assumptions
  <2> QED
    BY <1>2, <1>4, <2>1 DEF Health!Effect, PanelInv, PanelTyped
<1>6. OneLookup'
  BY <1>4 DEF Health!Effect, OneLookup
<1>7. ShownWasTold'
  BY <1>1, <1>2, <1>3 DEF Health!Effect, PanelInv, ShownWasTold
<1>8. StoredWasTold' /\ Health!ShowsOwn'
  BY <1>1, <1>2 DEF Health!Effect, PanelInv, StoredWasTold, Health!ShowsOwn
<1> QED
  BY <1>5, <1>6, <1>7, <1>8 DEF PanelInv

LEMMA PanelFailKeeps == ASSUME Health!Assumptions, PanelInv, NEW l \in lookups, Health!Fail(l) PROVE PanelInv'
<1>1. CASE l.cancelled
  <2>1. PanelTyped' /\ OneLookup'
    BY <1>1 DEF PanelInv, PanelTyped, OneLookup, Health!Fail
  <2>2. ShownWasTold' /\ StoredWasTold' /\ Health!ShowsOwn'
    BY <1>1 DEF PanelInv, ShownWasTold, StoredWasTold, Health!ShowsOwn, Health!Fail
  <2> QED
    BY <2>1, <2>2 DEF PanelInv
<1>2. CASE ~l.cancelled /\ shown.data # None /\ shown.data.barcode = l.barcode
  <2>1. /\ shown' \in Views /\ shown'.data = shown.data /\ shown'.stale /\ ~shown'.refreshing
        /\ lookups' = lookups \ {l} /\ UNCHANGED <<now, page, healthEffect, begun, stored, confirmed>>
    BY <1>2 DEF PanelInv, PanelTyped, Health!Fail
  <2>2. PanelTyped' /\ OneLookup'
    BY <1>2, <2>1 DEF PanelInv, PanelTyped, OneLookup
  <2>3. ShownWasTold' /\ StoredWasTold' /\ Health!ShowsOwn'
    BY <1>2, <2>1 DEF PanelInv, ShownWasTold, StoredWasTold, Health!ShowsOwn, OneLookup
  <2> QED
    BY <2>2, <2>3 DEF PanelInv
<1>3. CASE ~l.cancelled /\ ~(shown.data # None /\ shown.data.barcode = l.barcode)
  <2>1. /\ shown' \in Views /\ shown'.data = None /\ shown'.status = "error"
        /\ lookups' = lookups \ {l} /\ UNCHANGED <<now, page, healthEffect, begun, stored, confirmed>>
    BY <1>3 DEF Health!Fail, Health!LoadingView
  <2>2. PanelTyped' /\ OneLookup'
    BY <2>1 DEF PanelInv, PanelTyped, OneLookup
  <2>3. ShownWasTold' /\ StoredWasTold' /\ Health!ShowsOwn'
    BY <2>1 DEF PanelInv, ShownWasTold, StoredWasTold, Health!ShowsOwn
  <2> QED
    BY <2>2, <2>3 DEF PanelInv
<1> QED
  BY <1>1, <1>2, <1>3

\* What an answer makes of the panel.
LEMMA PanelAfterIs ==
  ASSUME Health!Assumptions, PanelInv, NEW l \in lookups, NEW a \in Health!Answers
  PROVE  /\ Health!After(l, a) \in Views /\ ~Health!After(l, a).refreshing
         /\ Health!After(l, a).data # None /\ Health!After(l, a).data.barcode = l.barcode /\ Health!After(l, a).data.at <= now
         /\ Health!After(l, a).data.facts /\ ~Health!After(l, a).stale => a.facts /\ ~a.stale /\ ~Health!After(l, a).data.down /\ Health!After(l, a).data.at = now
         /\ Health!After(l, a).data.facts /\ Health!After(l, a).failed => Health!After(l, a).stale
         /\ shown.data # None /\ shown.data.barcode = l.barcode /\ shown.data.facts /\ Health!After(l, a).failed => Health!After(l, a).data.facts
<1>1. a \in [facts : BOOLEAN, down : BOOLEAN, stale : BOOLEAN] /\ (a.down /\ a.facts => a.stale)
  BY DEF Health!Answers, Health!Answer
<1>2. Health!Told(l, a) \in Health!Data /\ Health!Told(l, a) # None /\ Health!Told(l, a).barcode = l.barcode /\ Health!Told(l, a).facts = a.facts /\ Health!Told(l, a).down = a.down
      /\ Health!Told(l, a).at = now
  BY <1>1 DEF Health!Told, PanelInv, PanelTyped, Health!Assumptions
<1>3. CASE a.down /\ ~a.facts /\ shown.data # None /\ shown.data.barcode = l.barcode /\ shown.data.facts
  <2>1. Health!After(l, a) = [shown EXCEPT !.status = "ready", !.data.down = TRUE, !.stale = TRUE, !.refreshing = FALSE, !.failed = TRUE]
    BY <1>3 DEF Health!After
  <2>2. shown.data \in Health!Data /\ shown \in Views /\ shown.data.at <= now
    BY <1>3 DEF PanelInv, PanelTyped, ShownWasTold
  <2>3. /\ Health!After(l, a).data = [shown.data EXCEPT !.down = TRUE] /\ Health!After(l, a).status = "ready" /\ Health!After(l, a).stale = TRUE
        /\ Health!After(l, a).refreshing = FALSE /\ Health!After(l, a).failed = TRUE
    BY <2>1, <2>2
  <2>4. Health!After(l, a).data \in Health!Data /\ Health!After(l, a).data # None
    BY <2>2, <2>3 DEF Health!Assumptions
  <2>5. Health!After(l, a) \in Views
    BY <2>1, <2>2, <2>4
  <2> QED
    BY <1>3, <2>2, <2>3, <2>4, <2>5
<1>4. CASE ~(a.down /\ ~a.facts /\ shown.data # None /\ shown.data.barcode = l.barcode /\ shown.data.facts)
  <2>1. Health!After(l, a) = [status |-> "ready", data |-> Health!Told(l, a), stale |-> a.stale, refreshing |-> FALSE, failed |-> a.down]
    BY <1>4, Zenon DEF Health!After
  <2> HIDE DEF Health!Data, Health!Time
  <2>2. Health!After(l, a) \in Views
    BY <1>1, <1>2, <2>1
  <2>3. now <= now
    BY DEF PanelInv, PanelTyped, Health!Time
  <2> QED
    BY <1>1, <1>2, <1>4, <2>1, <2>2, <2>3
<1> QED
  BY <1>3, <1>4

LEMMA PanelReceiveKeeps ==
  ASSUME Health!Assumptions, PanelInv, NEW l \in lookups, NEW a \in Health!Answers, Health!Receive(l, a)
  PROVE  PanelInv'
<1>1. a \in [facts : BOOLEAN, down : BOOLEAN, stale : BOOLEAN] /\ (a.down /\ a.facts => a.stale)
  BY DEF Health!Answers, Health!Answer
<1>2. l \in Sought /\ now \in Health!Time /\ lookups' = lookups \ {l} /\ UNCHANGED <<now, page, healthEffect, begun>>
  BY DEF PanelInv, PanelTyped, Health!Receive
<1>3. Health!Told(l, a) \in Health!Data /\ Health!Told(l, a).barcode = l.barcode /\ Health!Told(l, a).facts = a.facts /\ Health!Told(l, a).down = a.down
      /\ Health!Told(l, a).at = now
  BY <1>1, <1>2 DEF Health!Told
<1>4. /\ confirmed' \in [Barcode -> Health!Time \cup {None}]
      /\ \A b \in Barcode : confirmed'[b] = confirmed[b] \/ confirmed'[b] = now
      /\ a.facts /\ ~a.stale => confirmed'[l.barcode] = now
  BY <1>2 DEF Health!Receive, PanelInv, PanelTyped
<1>5. \/ stored' = stored
      \/ ~a.stale /\ ~a.down /\ stored' = [stored EXCEPT ![l.barcode] = [data |-> Health!Told(l, a), savedAt |-> now]]
  BY DEF Health!Receive, Health!Save
<1>6. (l.cancelled /\ shown' = shown) \/ (~l.cancelled /\ shown' = Health!After(l, a))
  <2>1. l.cancelled \in BOOLEAN
    BY <1>2
  <2>2. shown' = IF l.cancelled THEN shown ELSE Health!After(l, a)
    BY DEF Health!Receive
  <2> QED
    BY <2>1, <2>2, Zenon
<1>7. shown' \in Views
  BY <1>6, PanelAfterIs DEF PanelInv, PanelTyped
<1>8. PanelTyped'
  BY <1>2, <1>3, <1>4, <1>5, <1>7 DEF PanelInv, PanelTyped
<1>9. OneLookup'
  BY <1>2, <1>6 DEF PanelInv, OneLookup
<1>10. now # None
  BY <1>2 DEF Health!Assumptions
<1> HIDE DEF Views, Health!Data, Health!Copies
<1>11. StoredWasTold'
  <2>1. ASSUME NEW b \in Barcode
        PROVE  /\ confirmed'[b] # None => confirmed'[b] <= now
               /\ confirmed[b] # None => confirmed'[b] # None
               /\ \A t \in Health!Time : t <= now /\ confirmed[b] # None /\ confirmed[b] >= t => confirmed'[b] >= t
    BY <1>2, <1>4, <1>10 DEF PanelInv, StoredWasTold
  <2>2. ASSUME NEW b \in Barcode, stored'[b] # None
        PROVE  /\ stored'[b].data.barcode = b /\ stored'[b].data.at = stored'[b].savedAt /\ stored'[b].savedAt <= now
               /\ ~stored'[b].data.down
               /\ stored'[b].data.facts => confirmed'[b] # None /\ confirmed'[b] >= stored'[b].savedAt
    <3>1. CASE stored'[b] = stored[b]
      <4>1. stored[b].savedAt \in Health!Time
        BY <2>2, <3>1 DEF PanelInv, PanelTyped, Health!Copies
      <4> QED
        BY <2>1, <2>2, <3>1, <4>1 DEF PanelInv, StoredWasTold
    <3>2. CASE stored'[b] # stored[b]
      <4>1. b = l.barcode /\ ~a.stale /\ ~a.down /\ stored'[b] = [data |-> Health!Told(l, a), savedAt |-> now]
        BY <1>5, <3>2 DEF PanelInv, PanelTyped
      <4>2. a.facts => confirmed'[b] = now
        BY <1>4, <4>1
      <4> QED
        BY <1>2, <1>3, <1>10, <4>1, <4>2
    <3> QED
      BY <3>1, <3>2
  <2> QED
    BY <1>2, <2>1, <2>2 DEF StoredWasTold
<1>12. ShownWasTold' /\ Health!ShowsOwn'
  <2>1. CASE shown' = shown /\ l.cancelled
    <3>1. Health!ShowsOwn'
      BY <1>2, <2>1 DEF PanelInv, Health!ShowsOwn
    <3>2. shown.data # None => shown.data.barcode \in Barcode /\ shown.data.at \in Health!Time
      BY DEF PanelInv, PanelTyped, Views, Health!Data
    <3>3. ShownWasTold'
      BY <1>2, <1>4, <1>10, <2>1, <3>2 DEF PanelInv, ShownWasTold
    <3> QED
      BY <3>1, <3>3
  <2>2. CASE shown' = Health!After(l, a) /\ ~l.cancelled
    <3>1. ~healthEffect => l.barcode = page
      BY <2>2 DEF PanelInv, OneLookup
    <3>2. Health!ShowsOwn'
      BY <1>2, <2>2, <3>1, PanelAfterIs DEF Health!ShowsOwn
    <3>3. ShownWasTold'
      BY <1>2, <1>4, <1>10, <2>2, PanelAfterIs DEF ShownWasTold
    <3> QED
      BY <3>2, <3>3
  <2> QED
    BY <1>6, <2>1, <2>2
<1> QED
  BY <1>8, <1>9, <1>11, <1>12 DEF PanelInv

LEMMA PanelStutterKeeps == ASSUME PanelInv, UNCHANGED Health!vars PROVE PanelInv'
BY DEF Health!vars, PanelInv, PanelTyped, OneLookup, ShownWasTold, StoredWasTold, Health!ShowsOwn

LEMMA PanelNextKeeps == ASSUME Health!Assumptions, PanelInv, [Health!Next]_(Health!vars) PROVE PanelInv'
BY PanelTickKeeps, PanelOpenKeeps, PanelRetryKeeps, PanelEffectKeeps, PanelFailKeeps, PanelReceiveKeeps, PanelStutterKeeps DEF Health!Next, Health!EndLookup

LEMMA PanelImplied ==
  ASSUME Health!Assumptions, PanelInv
  PROVE  Health!TypeOK /\ Health!ShowsOwn /\ Health!NotOutdatedIsTold /\ Health!SavedWasTold
<1>1. Health!TypeOK
  <2>1. Cardinality({l \in lookups : ~l.cancelled}) <= 1
    BY AtMostOne DEF PanelInv, OneLookup
  <2>2. \A b \in Barcode : stored[b] # None => stored[b].data \in Health!Data /\ stored[b].savedAt \in 0..now
    BY DEF PanelInv, PanelTyped, StoredWasTold
  <2>3. (shown.data = None \/ shown.data \in Health!Data) /\ shown.status \in {"loading", "ready", "error"}
    BY DEF PanelInv, PanelTyped
  <2> QED
    BY <2>1, <2>2, <2>3, Sizes DEF PanelInv, PanelTyped, Health!TypeOK
<1>2. Health!ShowsOwn /\ Health!NotOutdatedIsTold
  BY DEF PanelInv, ShownWasTold, Health!NotOutdatedIsTold, Health!Rendered
<1>3. Health!SavedWasTold
  <2>1. ASSUME NEW b \in Barcode, Health!Cached(b) # None
        PROVE  ~Health!Cached(b).down /\ now - Health!Cached(b).at <= MaxAge /\ (Health!Cached(b).facts => confirmed[b] # None /\ confirmed[b] >= Health!Cached(b).at)
    BY <2>1, PanelCachedIs DEF PanelInv, StoredWasTold
  <2> QED
    BY <2>1 DEF Health!SavedWasTold
<1> QED
  BY <1>1, <1>2, <1>3

\* An outage takes no facts from the page.
LEMMA PanelKeepsFacts ==
  ASSUME Health!Assumptions, PanelInv, [Health!Next]_(Health!vars), Health!Rendered # None, Health!Rendered.facts, page' = page, shown'.failed
  PROVE  Health!Rendered' # None /\ Health!Rendered'.facts /\ shown'.stale
<1>1. Health!Own /\ shown.data # None /\ shown.data.barcode = page /\ shown.data.facts /\ Health!Rendered = shown.data
  BY DEF Health!Rendered
<1>2. CASE shown' = shown
  BY <1>1, <1>2 DEF Health!Rendered, PanelInv, ShownWasTold
<1>3. CASE Health!Effect
  <2>1. Health!Cached(page) # None \/ Health!Own
    BY <1>1
  <2> QED
    BY <1>1, <1>3 DEF Health!Effect
<1>4. ASSUME NEW l \in lookups, ~l.cancelled, NEW a \in Health!Answers, shown' = Health!After(l, a)
      PROVE  Health!Rendered' # None /\ Health!Rendered'.facts /\ shown'.stale
  <2>1. l.barcode = page
    BY <1>1, <1>4 DEF PanelInv, OneLookup
  <2>2. shown'.data # None /\ shown'.data.barcode = page /\ shown'.data.facts
    BY <1>1, <1>4, <2>1, PanelAfterIs
  <2>3. shown'.stale
    BY <1>4, <2>2, PanelAfterIs
  <2> QED
    BY <2>2, <2>3 DEF Health!Rendered
<1>5. ASSUME NEW l \in lookups, ~l.cancelled, Health!Fail(l) PROVE Health!Rendered' # None /\ Health!Rendered'.facts /\ shown'.stale
  <2>1. l.barcode = page
    BY <1>1, <1>5 DEF PanelInv, OneLookup
  <2>2. shown'.data = shown.data /\ shown'.stale = TRUE
    BY <1>1, <1>5, <2>1 DEF Health!Fail, PanelInv, PanelTyped
  <2> QED
    BY <1>1, <2>2 DEF Health!Rendered
<1> QED
  BY <1>2, <1>3, <1>4, <1>5 DEF Health!Next, Health!vars, Health!EndLookup, Health!Tick, Health!Retry, Health!Open, Health!Fail, Health!Receive

HIDE DEF Views, Sought, Health!Data, Health!Copies, Health!Time, Health!Own

--------------------------------------------------------------------------------
(* Together. *)

LEMMA PartsStep ==
  ASSUME [NextParts]_everything
  PROVE  /\ [Next]_vars /\ [Alerts!Next]_(Alerts!vars) /\ [Star!Next]_(Star!vars)
         /\ [Camera!Next]_(Camera!vars) /\ [Health!Next]_(Health!vars)
<1>1. [Next]_vars
  BY DEF NextParts, everything
<1>2. [Alerts!Next]_(Alerts!vars)
  BY DEF NextParts, everything, alertsVars, Alerts!vars, Alerts!page
<1>3. [Star!Next]_(Star!vars)
  BY DEF NextParts, everything, starVars, Star!vars, Star!star, Star!browser, Star!page, Star!past
<1>4. [Camera!Next]_(Camera!vars)
  BY DEF NextParts, everything, cameraVars, Camera!vars, Camera!camera, Camera!reads
<1>5. [Health!Next]_(Health!vars)
  BY DEF NextParts, everything, healthVars, Health!vars
<1> QED
  BY <1>1, <1>2, <1>3, <1>4, <1>5

\* Beside the other parts, too, the history page shows its owner's history, and no answer to a
\* request of another reaches it: pwa/src/app/history/page.tsx.
THEOREM HistoryStaysOwn == SpecParts => HistoryIsOwn
<1>1. InitParts => IInv
  BY InitIInv DEF InitParts
<1>2. IInv /\ [NextParts]_everything => IInv'
  BY NextIInv, PartsStep
<1>3. IInv => TypeOK /\ ShowsOwn /\ GuestIsCurrent
  BY HistoryImplied
<1>4. IInv /\ [NextParts]_everything => [\A load \in loads : load \notin loads' /\ load.owner < owner => Shown' = Shown]_vars
  BY HistoryIgnores, PartsStep
<1> QED
  BY <1>1, <1>2, <1>3, <1>4, PTL DEF SpecParts, HistoryIsOwn, NoOldRequest

\* The alerts page lists alerts of its account, at rest the active ones, and takes one away only
\* when it is not active or with the list (alerts/page.tsx); a star at rest shows what is kept,
\* and what it says it has done was done (favourite-control.tsx): for any accounts, alerts,
\* contexts and numbers of requests.
THEOREM ListsStayTrue == SpecParts => ListsAreTrue
<1>1. Alerts!Assumptions /\ Star!Assumptions
  BY PartsAssumption
<1>2. InitParts => AlertsInv /\ StarInv
  BY <1>1, AlertsInitHolds, StarInitHolds DEF InitParts
<1>3. AlertsInv /\ StarInv /\ [NextParts]_everything => AlertsInv' /\ StarInv'
  BY <1>1, AlertsNextKeeps, StarNextKeeps, PartsStep
<1>4. AlertsInv => (part \in {"alerts", "removals"} => Alerts!TypeOK /\ Alerts!ShowsOwn /\ Alerts!ListIsActive)
  BY AlertsImplied
<1>5. AlertsInv /\ [NextParts]_everything =>
        [~alertsStrayed /\ loaded' = loaded => \A id \in list \ list' : id \notin active']_(Alerts!vars)
  BY AlertsLeave, PartsStep
<1>6. StarInv => (part \in {"star", "strays"} => Star!TypeOK /\ Star!ShownIsKept /\ Star!OneChange)
  BY StarImplied
<1>7. StarInv /\ [NextParts]_everything =>
        [starMessage # "ok" /\ starMessage' = "ok" /\ ~overtaken /\ ~starStrayed => kept'[context'] = saved']_(Star!vars)
  BY <1>1, StarToldIsDone, PartsStep
<1> QED
  BY <1>2, <1>3, <1>4, <1>5, <1>6, <1>7, PTL DEF SpecParts, ListsAreTrue, Alerts!RemovedIsGone, Star!ToldIsDone

\* The star alone, wherever it begins and however often the account of the browser changes: it
\* shows what is kept and reports what was done, unless overtaken or strayed, and sends one
\* change at a time (favourite-control.tsx, user-api.ts).
THEOREM StarStaysTrue ==
  ASSUME Star!Assumptions
  PROVE  Star!Spec => [](Star!TypeOK /\ Star!ShownIsKept /\ Star!OneChange) /\ Star!ToldIsDone
<1>1. Star!Assumptions
  OBVIOUS
<1>2. Star!Init => StarInv
  BY <1>1, StarInitHolds
<1>3. StarInv /\ [Star!Next]_(Star!vars) => StarInv'
  BY <1>1, StarNextKeeps
<1>4. StarInv => Star!TypeOK /\ Star!ShownIsKept /\ Star!OneChange
  BY StarImplied
<1>5. StarInv /\ [Star!Next]_(Star!vars) =>
        [starMessage # "ok" /\ starMessage' = "ok" /\ ~overtaken /\ ~starStrayed => kept'[context'] = saved']_(Star!vars)
  BY <1>1, StarToldIsDone
<1> QED
  BY <1>2, <1>3, <1>4, <1>5, PTL DEF Star!Spec, Star!ToldIsDone

\* The camera is known whatever part is at work: one that is on is held or will be stopped, and
\* its late reads do not count (scan/page.tsx), for any number of starts.
THEOREM CameraStaysKnown == SpecParts => CameraIsKnown
<1>1. Camera!Assumptions
  BY PartsAssumption
<1>2. InitParts => CameraInv
  BY <1>1, CameraInitHolds DEF InitParts
<1>3. CameraInv /\ [NextParts]_everything => CameraInv'
  BY <1>1, CameraNextKeeps, PartsStep
<1>4. CameraInv => Camera!TypeOK /\ Camera!NothingLeaks /\ Camera!PauseIsOffered /\ Camera!ReadyIsLive /\ Camera!OneResult
  BY CameraImplied
<1>5. CameraInv /\ [NextParts]_everything => [ReadIsLive]_(Camera!vars)
  BY <1>1, CameraReadsAreLive, PartsStep
<1> QED
  BY <1>2, <1>3, <1>4, <1>5, PTL DEF SpecParts, CameraIsKnown, Camera!CameraIsKnown, Camera!NoLateRead, ReadIsLive

\* The panel shows its product or an error, facts that it does not call outdated were told, what
\* is saved was told and is young enough when it is read back, and an outage takes no facts
\* away (product-health.tsx): for any products, ages and lookups.
THEOREM PanelStaysTrue == SpecParts => PanelIsTrue
<1>1. Health!Assumptions
  BY PartsAssumption
<1>2. InitParts => PanelInv
  BY <1>1, PanelInitHolds DEF InitParts
<1>3. PanelInv /\ [NextParts]_everything => PanelInv'
  BY <1>1, PanelNextKeeps, PartsStep
<1>4. PanelInv => (part = "health" => /\ Health!TypeOK /\ Health!ShowsOwn
                                      /\ Health!NotOutdatedIsTold /\ Health!SavedWasTold)
  BY <1>1, PanelImplied
<1>5. PanelInv /\ [NextParts]_everything =>
        [Health!Rendered # None /\ Health!Rendered.facts /\ page' = page /\ shown'.failed
           => Health!Rendered' # None /\ Health!Rendered'.facts /\ shown'.stale]_(Health!vars)
  BY <1>1, PanelKeepsFacts, PartsStep
<1> QED
  BY <1>2, <1>3, <1>4, <1>5, PTL DEF SpecParts, PanelIsTrue, Health!OutageKeepsFacts
================================================================================
