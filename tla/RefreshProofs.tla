------------------------------ MODULE RefreshProofs ------------------------------
(***************************************************************************)
(* RefreshCoordinator, proved for any number of processes, products,       *)
(* callers and refreshes, and for pools of any size.                       *)
(***************************************************************************)
EXTENDS RefreshCoordinator, TLAPS

USE OpAssumption, CallerAssumption, PoolAssumption
    DEF OpAssumption, CallerAssumption, PoolAssumption

\* A comparison whose connection lives has the lock of its product.
LockBacked ==
  \A i \in Op : phase[i] \in Comparing /\ conn[i] => lock[site[i].barcode] = i

\* The Map refers to running refreshes, each under its own key.
MapLive ==
  \A p \in Process, b \in Barcode :
    refreshes[p][b] # NoOp =>
      /\ phase[refreshes[p][b]] # "none"
      /\ site[refreshes[p][b]] = [proc |-> p, barcode |-> b]

\* Until it has the lock, a refresh cannot have been rejected early.
EarlyPending == \A i \in Op : phase[i] \in {"queued", "locking"} => Pending(i)

\* Whoever was still running when another took the lock has lost its connection.
OvertakenLost ==
  \A i \in Op :
    /\ \A j \in under[i] : phase[j] \in Comparing /\ ~conn[j]
    /\ overtaken[i] => phase[i] \in Comparing /\ ~conn[i]

IInv ==
  /\ TypeOK
  /\ LockBacked
  /\ MapLive
  /\ EarlyPending
  /\ WaitersShareRefresh
  /\ OvertakenLost

\* Nothing runs and nobody waits in the initial state.
LEMMA InitIInv == Init => IInv
  BY DEF Init, IInv, TypeOK, LockBacked, MapLive, EarlyPending, WaitersShareRefresh,
         OvertakenLost, Comparing

\* A refresh the Map refers to runs under that key.
LEMMA MapHolds ==
  ASSUME MapLive, NEW i \in Op, NEW p \in Process, NEW b \in Barcode, refreshes[p][b] = i
  PROVE  phase[i] # "none" /\ site[i].proc = p /\ site[i].barcode = b
  <1>1. i # NoOp
    OBVIOUS
  <1>2. phase[i] # "none" /\ site[i] = [proc |-> p, barcode |-> b]
    BY <1>1 DEF MapLive
  <1> QED
    BY <1>2

--------------------------------------------------------------------------------
(* Callers. *)

\* Asking for a refresh: the caller joins the one in the Map or starts one.
LEMMA AskKeeps ==
  ASSUME IInv, NEW c \in Caller, NEW p \in Process, NEW b \in Barcode,
         Refresh(c, p, b),
         caller[c] # "waiting",
         caller' = [caller EXCEPT ![c] = "waiting"],
         home' = [home EXCEPT ![c] = p]
  PROVE  IInv'
  <1>1. CASE /\ refreshes[p][b] # NoOp
             /\ waits' = [waits EXCEPT ![c] = refreshes[p][b]]
             /\ UNCHANGED <<opVars, conn, history>>
    <2> DEFINE i == refreshes[p][b]
    <2>1. i \in Op /\ phase[i] # "none" /\ site[i] = [proc |-> p, barcode |-> b]
      BY <1>1 DEF IInv, TypeOK, MapLive
    <2> HIDE DEF i
    <2>2. TypeOK'
      BY <1>1, <2>1 DEF IInv, TypeOK, opVars, history, i
    <2>3. LockBacked' /\ MapLive' /\ EarlyPending' /\ OvertakenLost'
      BY <1>1 DEF IInv, LockBacked, MapLive, EarlyPending, Pending, OvertakenLost, opVars, history
    <2>4. WaitersShareRefresh'
      BY <1>1, <2>1 DEF IInv, TypeOK, WaitersShareRefresh, Pending, opVars, i
    <2> QED
      BY <2>2, <2>3, <2>4 DEF IInv
  <1>2. ASSUME refreshes[p][b] = NoOp, NEW i \in Op,
               phase[i] = "none",
               phase' = [phase EXCEPT ![i] = "queued"],
               site' = [site EXCEPT ![i] = [proc |-> p, barcode |-> b]],
               refreshes' = [refreshes EXCEPT ![p][b] = i],
               waits' = [waits EXCEPT ![c] = i],
               UNCHANGED <<lock, conn, history>>
        PROVE  IInv'
    <2>1. TypeOK'
      <3>1. [proc |-> p, barcode |-> b] \in Site
        BY DEF Site
      <3>2. refreshes' \in [Process -> [Barcode -> Op \cup {NoOp}]]
        BY <1>2 DEF IInv, TypeOK
      <3> QED
        BY <1>2, <3>1, <3>2 DEF IInv, TypeOK, history
    <2>2. LockBacked'
      BY <1>2 DEF IInv, TypeOK, LockBacked, Comparing
    <2>3. /\ refreshes'[p][b] = i
          /\ \A q \in Process, d \in Barcode : q # p \/ d # b => refreshes'[q][d] = refreshes[q][d]
          /\ \A q \in Process, d \in Barcode : refreshes[q][d] # i
      <3>1. \A q \in Process, d \in Barcode : refreshes[q][d] # i
        BY <1>2, MapHolds DEF IInv
      <3>2. /\ refreshes'[p][b] = i
            /\ \A q \in Process, d \in Barcode : q # p \/ d # b => refreshes'[q][d] = refreshes[q][d]
        <4>1. refreshes \in [Process -> [Barcode -> Op \cup {NoOp}]]
          BY DEF IInv, TypeOK
        <4> QED
          BY <1>2, <4>1
      <3> QED
        BY <3>1, <3>2
    <2>4. MapLive'
      BY <1>2, <2>3 DEF IInv, TypeOK, MapLive
    <2>5. \A j \in Op : j # i /\ phase[j] # "none" /\ Pending(j) => Pending(j)'
      <3> SUFFICES ASSUME NEW j \in Op, j # i, phase[j] # "none", Pending(j) PROVE Pending(j)'
        OBVIOUS
      <3>1. site[j] \in Site /\ site'[j] = site[j]
        BY <1>2 DEF IInv, TypeOK
      <3>2. site[j].proc # p \/ site[j].barcode # b
        BY <1>2 DEF Pending
      <3> QED
        BY <2>3, <3>1, <3>2 DEF Pending, Site
    <2>6. EarlyPending'
      BY <1>2, <2>3, <2>5 DEF IInv, TypeOK, EarlyPending, Pending
    <2>7. WaitersShareRefresh'
      BY <1>2, <2>3, <2>5 DEF IInv, TypeOK, WaitersShareRefresh, Pending
    <2>8. OvertakenLost'
      BY <1>2 DEF IInv, TypeOK, OvertakenLost, Comparing, history
    <2> QED
      BY <2>1, <2>2, <2>4, <2>6, <2>7, <2>8 DEF IInv
  <1> QED
    BY <1>1, <1>2 DEF Refresh

\* The steps of a worker run that only concern its own connection.
LEMMA WorkerKeeps ==
  ASSUME IInv, NEW c \in Worker,
         \/ WorkerStarts(c) \/ WorkerConnects(c) \/ WorkerRefused(c) \/ WorkerEnds(c)
         \/ WorkerLosesConnection(c)
  PROVE  IInv'
  <1>1. /\ UNCHANGED <<opVars, waits, history>>
        /\ conn' = conn \/ conn' = [conn EXCEPT ![c] = TRUE] \/ conn' = [conn EXCEPT ![c] = FALSE]
        /\ \/ UNCHANGED <<caller, home>>
           \/ /\ caller[c] # "waiting"
              /\ \/ caller' = [caller EXCEPT ![c] = "connecting"] /\ \E p \in Process : home' = [home EXCEPT ![c] = p]
                 \/ caller' = [caller EXCEPT ![c] = "ready"] /\ caller[c] = "connecting" /\ home' = home
                 \/ caller' = [caller EXCEPT ![c] = "idle"] /\ home' = [home EXCEPT ![c] = NoSite]
    BY DEF WorkerStarts, WorkerConnects, WorkerRefused, WorkerEnds, WorkerLosesConnection, Idle, callVars
  <1>2. /\ conn' \in [Op \cup Worker -> BOOLEAN]
        /\ \A i \in Op : conn'[i] = conn[i]
    BY <1>1 DEF IInv, TypeOK
  <1>3. TypeOK'
    <2>1. /\ caller' \in [Caller -> {"idle", "connecting", "ready", "waiting"}]
          /\ home' \in [Caller -> Process \cup {NoSite}]
          /\ \A d \in Caller : caller'[d] # "idle" => home'[d] \in Process
      <3>1. c \in Caller
        BY DEF Caller
      <3>2. CASE UNCHANGED <<caller, home>>
        BY <3>2 DEF IInv, TypeOK
      <3>3. CASE caller' = [caller EXCEPT ![c] = "connecting"] /\ \E p \in Process : home' = [home EXCEPT ![c] = p]
        BY <3>1, <3>3 DEF IInv, TypeOK
      <3>4. CASE caller' = [caller EXCEPT ![c] = "ready"] /\ caller[c] = "connecting" /\ home' = home
        BY <3>1, <3>4 DEF IInv, TypeOK
      <3>5. CASE caller' = [caller EXCEPT ![c] = "idle"] /\ home' = [home EXCEPT ![c] = NoSite]
        BY <3>1, <3>5 DEF IInv, TypeOK
      <3> QED
        BY <1>1, <3>2, <3>3, <3>4, <3>5
    <2> QED
      BY <1>1, <1>2, <2>1 DEF IInv, TypeOK, opVars, history
  <1>4. LockBacked' /\ MapLive' /\ EarlyPending' /\ OvertakenLost'
    BY <1>1, <1>2 DEF IInv, TypeOK, LockBacked, MapLive, EarlyPending, Pending, OvertakenLost, opVars, history
  <1>5. WaitersShareRefresh'
    BY <1>1 DEF IInv, TypeOK, WaitersShareRefresh, Pending, opVars, Caller
  <1> QED
    BY <1>3, <1>4, <1>5 DEF IInv

--------------------------------------------------------------------------------
(* A refresh on its way. *)

LEMMA TakeLockKeeps ==
  ASSUME IInv, NEW i \in Op, TakeLock(i)
  PROVE  IInv'
  <1> DEFINE b == site[i].barcode
  <1>1. /\ phase[i] = "locking" /\ conn[i] /\ site[i] \in Site /\ b \in Barcode
        /\ lock[b] = NoOp
        /\ lock' = [lock EXCEPT ![b] = i]
        /\ phase' = [phase EXCEPT ![i] = "scraping"]
        /\ under' = [under EXCEPT ![i] = {j \in Op : phase[j] \in Comparing /\ site[j].barcode = b}]
        /\ UNCHANGED <<refreshes, site, conn, callVars, overtaken>>
    BY DEF TakeLock, Grantable, IInv, TypeOK, Site
  <1> HIDE DEF b
  <1>2. TypeOK'
    BY <1>1 DEF IInv, TypeOK, Comparing, callVars
  <1>3. \A j \in Op : phase[j] \in Comparing /\ site[j].barcode = b => ~conn[j]
    BY <1>1 DEF IInv, LockBacked
  <1>4. LockBacked'
    <2> SUFFICES ASSUME NEW j \in Op, phase'[j] \in Comparing, conn[j]
                 PROVE  lock'[site[j].barcode] = j
      BY <1>1 DEF LockBacked
    <2>1. CASE j = i
      BY <1>1, <2>1 DEF IInv, TypeOK, b
    <2>2. CASE j # i
      <3>1. phase[j] \in Comparing /\ site[j] \in Site
        BY <1>1, <2>2 DEF IInv, TypeOK, Comparing
      <3>2. site[j].barcode # b /\ site[j].barcode \in Barcode
        BY <1>3, <3>1 DEF Site
      <3> QED
        BY <1>1, <3>1, <3>2 DEF IInv, TypeOK, LockBacked
    <2> QED
      BY <2>1, <2>2
  <1>5. MapLive' /\ EarlyPending' /\ WaitersShareRefresh'
    BY <1>1 DEF IInv, TypeOK, MapLive, EarlyPending, WaitersShareRefresh, Pending, callVars
  <1>6. OvertakenLost'
    <2>1. \A j \in Op : phase[j] \in Comparing => phase'[j] \in Comparing
      BY <1>1 DEF IInv, TypeOK, Comparing
    <2>2. \A j \in Op : under'[j] = under[j] \/ (\A k \in under'[j] : phase[k] \in Comparing /\ ~conn[k])
      BY <1>1, <1>3 DEF IInv, TypeOK
    <2>3. \A j \in Op : under[j] \subseteq Op /\ under'[j] \subseteq Op
      BY <1>2 DEF IInv, TypeOK
    <2> QED
      BY <1>1, <2>1, <2>2, <2>3 DEF IInv, OvertakenLost
  <1> QED
    BY <1>2, <1>4, <1>5, <1>6 DEF IInv

\* The other steps that end with the refresh still under way.
LEMMA AdvanceKeeps ==
  ASSUME IInv, NEW i \in Op,
         Connect(i) \/ Scrape(i) \/ Store(i) \/ Record(i) \/ CompareFails(i)
  PROVE  IInv'
  <1>1. /\ UNCHANGED <<refreshes, site, lock, callVars, under>>
        /\ \/ /\ phase[i] = "queued" /\ phase' = [phase EXCEPT ![i] = "locking"]
              /\ conn' = [conn EXCEPT ![i] = TRUE] /\ overtaken' = overtaken
           \/ /\ phase[i] \in Comparing
              /\ \E next \in Comparing : phase' = [phase EXCEPT ![i] = next]
              /\ conn' = conn
              /\ \/ overtaken' = overtaken
                 \/ overtaken' = [j \in Op |-> overtaken[j] \/ j \in under[i]]
    BY DEF Connect, Scrape, Store, Record, CompareFails, Comparing, history
  <1>2. /\ phase' \in [Op -> {"none", "queued", "locking"} \cup Comparing]
        /\ \A j \in Op : /\ phase'[j] \in Comparing <=> phase[j] \in Comparing
                         /\ phase'[j] \in Comparing => conn'[j] = conn[j]
                         /\ phase'[j] = "none" <=> phase[j] = "none"
        /\ conn' \in [Op \cup Worker -> BOOLEAN]
    <2>1. CASE /\ phase[i] = "queued" /\ phase' = [phase EXCEPT ![i] = "locking"]
               /\ conn' = [conn EXCEPT ![i] = TRUE]
      BY <2>1 DEF IInv, TypeOK, Comparing
    <2>2. ASSUME NEW next \in Comparing, phase[i] \in Comparing,
                 phase' = [phase EXCEPT ![i] = next], conn' = conn
          PROVE  <1>2
      BY <2>2 DEF IInv, TypeOK, Comparing
    <2> QED
      BY <1>1, <2>1, <2>2
  <1>3. overtaken' \in [Op -> BOOLEAN]
        /\ \A j \in Op : overtaken'[j] => overtaken[j] \/ j \in under[i]
    BY <1>1 DEF IInv, TypeOK
  <1>4. TypeOK'
    BY <1>1, <1>2, <1>3 DEF IInv, TypeOK, callVars
  <1>5. LockBacked' /\ MapLive' /\ WaitersShareRefresh'
    BY <1>1, <1>2 DEF IInv, TypeOK, LockBacked, MapLive, WaitersShareRefresh, Pending, callVars
  <1>6. EarlyPending'
    BY <1>1 DEF IInv, TypeOK, EarlyPending, Pending, Comparing
  <1>7. OvertakenLost'
    BY <1>1, <1>2, <1>3 DEF IInv, TypeOK, OvertakenLost
  <1> QED
    BY <1>4, <1>5, <1>6, <1>7 DEF IInv

--------------------------------------------------------------------------------
(* The end of a refresh. *)

\* A pending refresh settles: its key is free and nobody waits for it.
LEMMA SettleAnswers ==
  ASSUME IInv, NEW i \in Op, phase[i] # "none", Pending(i), Settle(i)
  PROVE  /\ refreshes' \in [Process -> [Barcode -> Op \cup {NoOp}]]
         /\ \A p \in Process, b \in Barcode :
              refreshes'[p][b] # NoOp => refreshes'[p][b] = refreshes[p][b] /\ refreshes'[p][b] # i
         /\ \A j \in Op : j # i /\ phase[j] # "none" /\ Pending(j) =>
              refreshes'[site[j].proc][site[j].barcode] = j
         /\ caller' \in [Caller -> {"idle", "connecting", "ready", "waiting"}]
         /\ home' \in [Caller -> Process \cup {NoSite}]
         /\ waits' \in [Caller -> Op \cup {NoOp}]
         /\ \A c \in Caller : caller'[c] # "idle" => home'[c] \in Process
         /\ \A c \in Caller : caller'[c] = "waiting" =>
              /\ caller[c] = "waiting" /\ home'[c] = home[c]
              /\ waits'[c] = waits[c] /\ waits[c] # i
  <1>1. site[i] \in Site /\ site[i].proc \in Process /\ site[i].barcode \in Barcode
    BY DEF IInv, TypeOK, Site
  <1>2. /\ refreshes' \in [Process -> [Barcode -> Op \cup {NoOp}]]
        /\ \A p \in Process, b \in Barcode :
             IF p = site[i].proc /\ b = site[i].barcode
             THEN refreshes'[p][b] = NoOp
             ELSE refreshes'[p][b] = refreshes[p][b]
    <2>1. refreshes \in [Process -> [Barcode -> Op \cup {NoOp}]]
      BY DEF IInv, TypeOK
    <2> QED
      BY <1>1, <2>1 DEF Settle
  <1>3. \A p \in Process, b \in Barcode :
          refreshes'[p][b] # NoOp => refreshes'[p][b] = refreshes[p][b] /\ refreshes'[p][b] # i
    <2> SUFFICES ASSUME NEW p \in Process, NEW b \in Barcode, refreshes'[p][b] # NoOp
                 PROVE  refreshes'[p][b] = refreshes[p][b] /\ refreshes'[p][b] # i
      OBVIOUS
    <2>1. refreshes'[p][b] = refreshes[p][b] /\ ~(p = site[i].proc /\ b = site[i].barcode)
      BY <1>2
    <2>2. refreshes[p][b] # i
      BY <2>1, MapHolds DEF IInv
    <2> QED
      BY <2>1, <2>2
  <1>4. \A j \in Op : j # i /\ phase[j] # "none" /\ Pending(j) =>
          refreshes'[site[j].proc][site[j].barcode] = j
    <2> SUFFICES ASSUME NEW j \in Op, j # i, phase[j] # "none", Pending(j)
                 PROVE  refreshes'[site[j].proc][site[j].barcode] = j
      OBVIOUS
    <2>1. site[j].proc \in Process /\ site[j].barcode \in Barcode
      BY DEF IInv, TypeOK, Site
    <2>2. ~(site[j].proc = site[i].proc /\ site[j].barcode = site[i].barcode)
      BY DEF Pending
    <2> QED
      BY <1>2, <2>1, <2>2 DEF Pending
  <1>5. /\ caller' \in [Caller -> {"idle", "connecting", "ready", "waiting"}]
        /\ home' \in [Caller -> Process \cup {NoSite}]
        /\ waits' \in [Caller -> Op \cup {NoOp}]
    BY DEF IInv, TypeOK, Settle
  <1>6. \A c \in Caller : caller'[c] # "idle" => home'[c] \in Process
    <2> SUFFICES ASSUME NEW c \in Caller, caller'[c] # "idle" PROVE home'[c] \in Process
      OBVIOUS
    <2>1. CASE c \in Waiters(i)
      <3>1. c \in Worker /\ c \notin Visitor /\ caller[c] = "waiting"
        BY <2>1 DEF Settle, Waiters, Caller
      <3>2. home'[c] = home[c]
        BY <3>1 DEF Settle
      <3> QED
        BY <3>1, <3>2 DEF IInv, TypeOK
    <2>2. CASE c \notin Waiters(i)
      BY <2>2 DEF Settle, IInv, TypeOK
    <2> QED
      BY <2>1, <2>2
  <1>7. \A c \in Caller : caller'[c] = "waiting" =>
          /\ caller[c] = "waiting" /\ home'[c] = home[c]
          /\ waits'[c] = waits[c] /\ waits[c] # i
    BY DEF Settle, Waiters
  <1> QED
    BY <1>2, <1>3, <1>4, <1>5, <1>6, <1>7

\* A refresh that nobody awaits and the Map does not hold may end.
LEMMA EndKeeps ==
  ASSUME IInv, NEW i \in Op, phase[i] # "none", End(i),
         lock' \in [Barcode -> Op \cup {NoOp}],
         \A b \in Barcode : lock[b] # i => lock'[b] = lock[b],
         \/ Pending(i) /\ Settle(i)
         \/ ~Pending(i) /\ UNCHANGED <<refreshes, callVars>>
  PROVE  IInv'
  <1>1. /\ phase' = [phase EXCEPT ![i] = "none"]
        /\ site' = [site EXCEPT ![i] = NoSite]
        /\ conn' = [conn EXCEPT ![i] = FALSE]
        /\ under' = [j \in Op |-> IF j = i THEN {} ELSE under[j] \ {i}]
        /\ overtaken' = [overtaken EXCEPT ![i] = FALSE]
    BY DEF End
  <1>2. /\ refreshes' \in [Process -> [Barcode -> Op \cup {NoOp}]]
        /\ \A p \in Process, b \in Barcode :
             refreshes'[p][b] # NoOp => refreshes'[p][b] = refreshes[p][b] /\ refreshes'[p][b] # i
        /\ \A j \in Op : j # i /\ phase[j] # "none" /\ Pending(j) =>
             refreshes'[site[j].proc][site[j].barcode] = j
        /\ caller' \in [Caller -> {"idle", "connecting", "ready", "waiting"}]
        /\ home' \in [Caller -> Process \cup {NoSite}]
        /\ waits' \in [Caller -> Op \cup {NoOp}]
        /\ \A c \in Caller : caller'[c] # "idle" => home'[c] \in Process
        /\ \A c \in Caller : caller'[c] = "waiting" =>
             /\ caller[c] = "waiting" /\ home'[c] = home[c]
             /\ waits'[c] = waits[c] /\ waits[c] # i
    <2>1. CASE Pending(i) /\ Settle(i)
      BY <2>1, SettleAnswers
    <2>2. CASE ~Pending(i) /\ UNCHANGED <<refreshes, callVars>>
      <3>1. \A p \in Process, b \in Barcode : refreshes[p][b] # i
        BY <2>2, MapHolds DEF IInv, Pending
      <3>2. \A c \in Caller : caller[c] = "waiting" => waits[c] # i
        BY <2>2 DEF IInv, WaitersShareRefresh
      <3> QED
        BY <2>2, <3>1, <3>2 DEF IInv, TypeOK, callVars, Pending
    <2> QED
      BY <2>1, <2>2
  <1>3. TypeOK'
    BY <1>1, <1>2 DEF IInv, TypeOK
  <1>4. LockBacked'
    <2> SUFFICES ASSUME NEW j \in Op, phase'[j] \in Comparing, conn'[j]
                 PROVE  lock'[site'[j].barcode] = j
      BY DEF LockBacked
    <2>1. j # i
      BY <1>1 DEF IInv, TypeOK, Comparing
    <2>2. phase[j] \in Comparing /\ conn[j] /\ site'[j] = site[j] /\ site[j] \in Site
      BY <1>1, <2>1 DEF IInv, TypeOK, Comparing
    <2>3. lock[site[j].barcode] = j /\ site[j].barcode \in Barcode
      BY <2>2 DEF IInv, LockBacked, Site
    <2> QED
      BY <2>1, <2>2, <2>3
  <1>5. MapLive'
    <2> SUFFICES ASSUME NEW p \in Process, NEW b \in Barcode, refreshes'[p][b] # NoOp
                 PROVE  /\ phase'[refreshes'[p][b]] # "none"
                        /\ site'[refreshes'[p][b]] = [proc |-> p, barcode |-> b]
      BY DEF MapLive
    <2>1. refreshes'[p][b] = refreshes[p][b] /\ refreshes[p][b] # i /\ refreshes[p][b] \in Op
      BY <1>2 DEF IInv, TypeOK
    <2> QED
      BY <1>1, <2>1 DEF IInv, TypeOK, MapLive
  <1>6. EarlyPending'
    <2> SUFFICES ASSUME NEW j \in Op, phase'[j] \in {"queued", "locking"}
                 PROVE  Pending(j)'
      BY DEF EarlyPending
    <2>1. j # i /\ phase[j] = phase'[j] /\ site'[j] = site[j]
      BY <1>1 DEF IInv, TypeOK
    <2>2. Pending(j) /\ phase[j] # "none"
      BY <2>1 DEF IInv, EarlyPending
    <2> QED
      BY <1>2, <2>1, <2>2 DEF Pending
  <1>7. WaitersShareRefresh'
    <2> SUFFICES ASSUME NEW c \in Caller, caller'[c] = "waiting"
                 PROVE  /\ waits'[c] \in Op /\ phase'[waits'[c]] # "none"
                        /\ site'[waits'[c]].proc = home'[c]
                        /\ Pending(waits[c])'
      BY <1>2 DEF WaitersShareRefresh, Pending
    <2> DEFINE j == waits[c]
    <2>1. /\ waits'[c] = j /\ j \in Op /\ j # i /\ phase[j] # "none"
          /\ site[j].proc = home[c] /\ home'[c] = home[c] /\ Pending(j)
      BY <1>2 DEF IInv, WaitersShareRefresh
    <2> HIDE DEF j
    <2>2. phase'[j] = phase[j] /\ site'[j] = site[j]
      BY <1>1, <2>1 DEF IInv, TypeOK
    <2>3. refreshes'[site'[j].proc][site'[j].barcode] = j
      BY <1>2, <2>1, <2>2
    <2> QED
      BY <2>1, <2>2, <2>3 DEF Pending, j
  <1>8. OvertakenLost'
    <2> SUFFICES ASSUME NEW j \in Op
                 PROVE  /\ \A k \in under'[j] : phase'[k] \in Comparing /\ ~conn'[k]
                        /\ overtaken'[j] => phase'[j] \in Comparing /\ ~conn'[j]
      BY DEF OvertakenLost
    <2>1. \A k \in Op : k # i => phase'[k] = phase[k] /\ conn'[k] = conn[k]
      BY <1>1 DEF IInv, TypeOK
    <2>2. \A k \in under'[j] : k \in under[j] /\ k # i /\ k \in Op
      BY <1>1 DEF IInv, TypeOK
    <2>3. overtaken'[j] => overtaken[j] /\ j # i
      BY <1>1 DEF IInv, TypeOK
    <2> QED
      BY <2>1, <2>2, <2>3 DEF IInv, OvertakenLost
  <1> QED
    BY <1>3, <1>4, <1>5, <1>6, <1>7, <1>8 DEF IInv

\* The refusals, failures and returns that end a refresh.
LEMMA OverKeeps ==
  ASSUME IInv, NEW i \in Op, ConnectFails(i) \/ Refused(i) \/ Return(i)
  PROVE  IInv'
  <1>1. CASE ConnectFails(i) \/ Refused(i)
    <2>1. phase[i] \in {"queued", "locking"} /\ Settle(i) /\ End(i) /\ lock' = lock
      BY <1>1 DEF ConnectFails, Refused
    <2>2. Pending(i)
      BY <2>1 DEF IInv, EarlyPending
    <2>3. lock' \in [Barcode -> Op \cup {NoOp}]
      BY <2>1 DEF IInv, TypeOK
    <2> QED
      BY <2>1, <2>2, <2>3, EndKeeps
  <1>2. CASE Return(i)
    <2>1. /\ phase[i] = "returning" /\ End(i)
          /\ \/ Pending(i) /\ Settle(i)
             \/ ~Pending(i) /\ UNCHANGED <<refreshes, callVars>>
      BY <1>2 DEF Return
    <2>2. /\ lock' \in [Barcode -> Op \cup {NoOp}]
          /\ \A b \in Barcode : lock[b] # i => lock'[b] = lock[b]
      BY <1>2 DEF Return, Release, IInv, TypeOK
    <2> QED
      BY <2>1, <2>2, EndKeeps
  <1> QED
    BY <1>1, <1>2

--------------------------------------------------------------------------------
(* Faults. *)

LEMMA LoseConnectionKeeps ==
  ASSUME IInv, NEW i \in Op, LoseConnection(i)
  PROVE  IInv'
  <1>1. /\ conn' = [conn EXCEPT ![i] = FALSE]
        /\ lock' = [b \in Barcode |-> IF lock[b] = i THEN NoOp ELSE lock[b]]
        /\ UNCHANGED <<refreshes, phase, site, callVars, history>>
    BY DEF LoseConnection, Release
  <1>2. TypeOK'
    BY <1>1 DEF IInv, TypeOK, callVars, history
  <1>3. LockBacked'
    <2> SUFFICES ASSUME NEW j \in Op, phase[j] \in Comparing, conn'[j]
                 PROVE  lock'[site[j].barcode] = j
      BY <1>1 DEF LockBacked
    <2>1. j # i /\ conn[j] /\ site[j] \in Site
      BY <1>1 DEF IInv, TypeOK, Comparing
    <2>2. lock[site[j].barcode] = j /\ site[j].barcode \in Barcode
      BY <2>1 DEF IInv, LockBacked, Site
    <2> QED
      BY <1>1, <2>1, <2>2
  <1>4. MapLive' /\ EarlyPending' /\ WaitersShareRefresh'
    BY <1>1 DEF IInv, MapLive, EarlyPending, WaitersShareRefresh, Pending, callVars
  <1>5. OvertakenLost'
    <2>1. \A j \in Op : ~conn[j] => ~conn'[j]
      BY <1>1 DEF IInv, TypeOK
    <2>2. \A j \in Op : under[j] \subseteq Op
      BY DEF IInv, TypeOK
    <2> QED
      BY <1>1, <2>1, <2>2 DEF IInv, OvertakenLost, history
  <1> QED
    BY <1>2, <1>3, <1>4, <1>5 DEF IInv

\* begin rejects and leaves the callback behind.
LEMMA RejectEarlyKeeps ==
  ASSUME IInv, NEW i \in Op, RejectEarly(i)
  PROVE  IInv'
  <1>1. /\ phase[i] \in Comparing /\ phase[i] # "none" /\ Pending(i) /\ Settle(i)
        /\ UNCHANGED <<phase, site, lock, conn, history>>
    BY DEF RejectEarly, Comparing
  <1>2. /\ refreshes' \in [Process -> [Barcode -> Op \cup {NoOp}]]
        /\ \A p \in Process, b \in Barcode :
             refreshes'[p][b] # NoOp => refreshes'[p][b] = refreshes[p][b]
        /\ \A j \in Op : j # i /\ phase[j] # "none" /\ Pending(j) =>
             refreshes'[site[j].proc][site[j].barcode] = j
        /\ caller' \in [Caller -> {"idle", "connecting", "ready", "waiting"}]
        /\ home' \in [Caller -> Process \cup {NoSite}]
        /\ waits' \in [Caller -> Op \cup {NoOp}]
        /\ \A c \in Caller : caller'[c] # "idle" => home'[c] \in Process
        /\ \A c \in Caller : caller'[c] = "waiting" =>
             /\ caller[c] = "waiting" /\ home'[c] = home[c]
             /\ waits'[c] = waits[c] /\ waits[c] # i
    BY <1>1, SettleAnswers
  <1>3. TypeOK'
    BY <1>1, <1>2 DEF IInv, TypeOK, history
  <1>4. LockBacked' /\ OvertakenLost'
    BY <1>1 DEF IInv, LockBacked, OvertakenLost, history
  <1>5. MapLive'
    BY <1>1, <1>2 DEF IInv, MapLive
  <1>6. EarlyPending'
    <2> SUFFICES ASSUME NEW j \in Op, phase[j] \in {"queued", "locking"}
                 PROVE  Pending(j)'
      BY <1>1 DEF EarlyPending
    <2>1. j # i /\ phase[j] # "none" /\ Pending(j)
      BY <1>1 DEF IInv, EarlyPending, Comparing
    <2> QED
      BY <1>1, <1>2, <2>1 DEF Pending
  <1>7. WaitersShareRefresh'
    <2> SUFFICES ASSUME NEW c \in Caller, caller'[c] = "waiting"
                 PROVE  /\ waits'[c] \in Op /\ phase'[waits'[c]] # "none"
                        /\ site'[waits'[c]].proc = home'[c]
                        /\ refreshes'[site'[waits'[c]].proc][site'[waits'[c]].barcode] = waits'[c]
      BY DEF WaitersShareRefresh, Pending
    <2>1. /\ waits'[c] = waits[c] /\ waits[c] # i /\ waits[c] \in Op /\ phase[waits[c]] # "none"
          /\ site[waits[c]].proc = home[c] /\ home'[c] = home[c] /\ Pending(waits[c])
      BY <1>2 DEF IInv, WaitersShareRefresh
    <2> QED
      BY <1>1, <1>2, <2>1
  <1> QED
    BY <1>3, <1>4, <1>5, <1>6, <1>7 DEF IInv

\* A process goes: nothing of what stays belonged to it.
LEMMA RestartKeeps ==
  ASSUME IInv, NEW p \in Process, Restart(p)
  PROVE  IInv'
  <1> DEFINE gone == {i \in Op : phase[i] # "none" /\ site[i].proc = p}
             left == {c \in Caller : home[c] = p}
  <1>1. /\ refreshes' = [refreshes EXCEPT ![p] = [b \in Barcode |-> NoOp]]
        /\ phase' = [i \in Op |-> IF i \in gone THEN "none" ELSE phase[i]]
        /\ site' = [i \in Op |-> IF i \in gone THEN NoSite ELSE site[i]]
        /\ lock' = [b \in Barcode |-> IF lock[b] \in gone THEN NoOp ELSE lock[b]]
        /\ conn' = [x \in Op \cup Worker |-> conn[x] /\ x \notin gone \cup left]
    BY DEF Restart
  <1>2. /\ caller' = [c \in Caller |-> IF c \in left THEN "idle" ELSE caller[c]]
        /\ home' = [c \in Caller |-> IF c \in left THEN NoSite ELSE home[c]]
        /\ waits' = [c \in Caller |-> IF c \in left THEN NoOp ELSE waits[c]]
        /\ under' = [i \in Op |-> IF i \in gone THEN {} ELSE under[i] \ gone]
        /\ overtaken' = [i \in Op |-> overtaken[i] /\ i \notin gone]
    BY DEF Restart
  <1>3. /\ \A i \in Op : i \in gone <=> phase[i] # "none" /\ site[i].proc = p
        /\ \A c \in Caller : c \in left <=> home[c] = p
        /\ NoOp \notin gone
    OBVIOUS
  <1> HIDE DEF gone, left
  <1>4. TypeOK'
    <2>1. /\ refreshes' \in [Process -> [Barcode -> Op \cup {NoOp}]]
          /\ phase' \in [Op -> {"none", "queued", "locking"} \cup Comparing]
          /\ site' \in [Op -> Site \cup {NoSite}]
          /\ lock' \in [Barcode -> Op \cup {NoOp}]
          /\ conn' \in [Op \cup Worker -> BOOLEAN]
      BY <1>1 DEF IInv, TypeOK
    <2>2. /\ caller' \in [Caller -> {"idle", "connecting", "ready", "waiting"}]
          /\ home' \in [Caller -> Process \cup {NoSite}]
          /\ waits' \in [Caller -> Op \cup {NoOp}]
          /\ under' \in [Op -> SUBSET Op]
          /\ overtaken' \in [Op -> BOOLEAN]
      BY <1>2 DEF IInv, TypeOK
    <2>3. \A i \in Op : phase'[i] # "none" => site'[i] \in Site
      BY <1>1 DEF IInv, TypeOK
    <2>4. \A c \in Caller : caller'[c] # "idle" => home'[c] \in Process
      BY <1>2 DEF IInv, TypeOK
    <2> QED
      BY <2>1, <2>2, <2>3, <2>4 DEF TypeOK
  <1>5. \A i \in Op : phase'[i] # "none" =>
          /\ i \notin gone /\ phase'[i] = phase[i] /\ site'[i] = site[i]
          /\ site[i] \in Site /\ site[i].proc # p
    BY <1>1, <1>3 DEF IInv, TypeOK
  <1>6. \A i \in Op : conn'[i] => conn[i]
    BY <1>1
  <1>7. \A q \in Process, b \in Barcode :
          IF q = p THEN refreshes'[q][b] = NoOp ELSE refreshes'[q][b] = refreshes[q][b]
    <2>1. refreshes \in [Process -> [Barcode -> Op \cup {NoOp}]]
      BY DEF IInv, TypeOK
    <2> QED
      BY <1>1, <2>1
  <1>8. LockBacked'
    <2> SUFFICES ASSUME NEW i \in Op, phase'[i] \in Comparing, conn'[i]
                 PROVE  lock'[site'[i].barcode] = i
      BY DEF LockBacked
    <2>1. /\ i \notin gone /\ phase[i] \in Comparing /\ conn[i]
          /\ site'[i] = site[i] /\ site[i] \in Site
      BY <1>5, <1>6 DEF Comparing
    <2>2. lock[site[i].barcode] = i /\ site[i].barcode \in Barcode
      BY <2>1 DEF IInv, LockBacked, Site
    <2> QED
      BY <1>1, <2>1, <2>2
  <1>9. MapLive'
    <2> SUFFICES ASSUME NEW q \in Process, NEW b \in Barcode, refreshes'[q][b] # NoOp
                 PROVE  /\ phase'[refreshes'[q][b]] # "none"
                        /\ site'[refreshes'[q][b]] = [proc |-> q, barcode |-> b]
      BY DEF MapLive
    <2> DEFINE i == refreshes[q][b]
    <2>1. q # p /\ refreshes'[q][b] = i /\ i # NoOp /\ i \in Op
      BY <1>7 DEF IInv, TypeOK
    <2>2. phase[i] # "none" /\ site[i] = [proc |-> q, barcode |-> b]
      BY <2>1 DEF IInv, MapLive
    <2> HIDE DEF i
    <2>3. i \notin gone
      BY <1>3, <2>1, <2>2
    <2> QED
      BY <1>1, <2>1, <2>2, <2>3
  <1>10. EarlyPending'
    <2> SUFFICES ASSUME NEW i \in Op, phase'[i] \in {"queued", "locking"}
                 PROVE  refreshes'[site'[i].proc][site'[i].barcode] = i
      BY DEF EarlyPending, Pending
    <2>1. phase'[i] = phase[i] /\ site'[i] = site[i] /\ site[i] \in Site /\ site[i].proc # p
      BY <1>5
    <2> QED
      BY <1>7, <2>1 DEF IInv, EarlyPending, Pending, Site
  <1>11. WaitersShareRefresh'
    <2> SUFFICES ASSUME NEW c \in Caller, caller'[c] = "waiting"
                 PROVE  /\ waits'[c] \in Op /\ phase'[waits'[c]] # "none"
                        /\ site'[waits'[c]].proc = home'[c]
                        /\ refreshes'[site'[waits'[c]].proc][site'[waits'[c]].barcode] = waits'[c]
      BY DEF WaitersShareRefresh, Pending
    <2> DEFINE i == waits[c]
    <2>1. c \notin left /\ caller[c] = "waiting" /\ home'[c] = home[c] /\ waits'[c] = i
      BY <1>2
    <2>2. i \in Op /\ phase[i] # "none" /\ site[i].proc = home[c] /\ Pending(i)
      BY <2>1 DEF IInv, WaitersShareRefresh
    <2> HIDE DEF i
    <2>3. i \notin gone /\ site[i].proc # p /\ site[i] \in Site
      BY <1>3, <2>1, <2>2 DEF IInv, TypeOK
    <2>4. phase'[i] = phase[i] /\ site'[i] = site[i]
      BY <1>1, <2>2, <2>3
    <2> QED
      BY <1>7, <2>1, <2>2, <2>3, <2>4 DEF Pending, Site
  <1>12. OvertakenLost'
    <2> SUFFICES ASSUME NEW i \in Op
                 PROVE  /\ \A j \in under'[i] : phase'[j] \in Comparing /\ ~conn'[j]
                        /\ overtaken'[i] => phase'[i] \in Comparing /\ ~conn'[i]
      BY DEF OvertakenLost
    <2>1. \A j \in Op : j \notin gone => phase'[j] = phase[j]
      BY <1>1
    <2>2. \A j \in under'[i] : j \in under[i] /\ j \notin gone /\ j \in Op
      BY <1>2 DEF IInv, TypeOK
    <2>3. overtaken'[i] => overtaken[i] /\ i \notin gone
      BY <1>2
    <2> QED
      BY <1>6, <2>1, <2>2, <2>3 DEF IInv, OvertakenLost
  <1> QED
    BY <1>4, <1>8, <1>9, <1>10, <1>11, <1>12 DEF IInv

--------------------------------------------------------------------------------
(* Theorems. *)

\* Every step keeps the invariant.
LEMMA NextKeeps == IInv /\ [Next]_vars => IInv'
  <1> SUFFICES ASSUME IInv, [Next]_vars PROVE IInv'
    OBVIOUS
  <1>1. ASSUME NEW c \in Caller, Ask(c) PROVE IInv'
    <2>1. CASE VisitorAsks(c)
      <3>1. PICK p \in Process, b \in Barcode :
              Refresh(c, p, b) /\ home' = [home EXCEPT ![c] = p]
        BY <2>1 DEF VisitorAsks
      <3>2. caller[c] # "waiting" /\ caller' = [caller EXCEPT ![c] = "waiting"]
        BY <2>1 DEF VisitorAsks
      <3> QED
        BY <3>1, <3>2, AskKeeps
    <2>2. CASE WorkerAsks(c)
      <3>1. PICK b \in Barcode : Refresh(c, home[c], b)
        BY <2>2 DEF WorkerAsks
      <3>2. /\ caller[c] # "waiting" /\ caller' = [caller EXCEPT ![c] = "waiting"]
            /\ home[c] \in Process /\ home' = [home EXCEPT ![c] = home[c]]
        BY <2>2 DEF WorkerAsks, IInv, TypeOK
      <3> QED
        BY <3>1, <3>2, AskKeeps
    <2>3. CASE WorkerStarts(c) \/ WorkerRefused(c) \/ WorkerConnects(c) \/ WorkerEnds(c)
      <3>1. c \in Worker
        BY <2>3 DEF WorkerStarts, WorkerRefused, WorkerConnects, WorkerEnds
      <3> QED
        BY <2>3, <3>1, WorkerKeeps
    <2> QED
      BY <1>1, <2>1, <2>2, <2>3 DEF Ask
  <1>2. ASSUME NEW i \in Op, Step(i) PROVE IInv'
    BY <1>2, TakeLockKeeps, AdvanceKeeps, OverKeeps DEF Step
  <1>3. ASSUME Fault PROVE IInv'
    <2>1. ASSUME NEW i \in Op,
                 ConnectFails(i) \/ CompareFails(i) \/ LoseConnection(i) \/ RejectEarly(i)
          PROVE  IInv'
      BY <2>1, OverKeeps, AdvanceKeeps, LoseConnectionKeeps, RejectEarlyKeeps
    <2>2. ASSUME NEW c \in Worker, WorkerLosesConnection(c) PROVE IInv'
      BY <2>2, WorkerKeeps
    <2>3. ASSUME NEW p \in Process, Restart(p) PROVE IInv'
      BY <2>3, RestartKeeps
    <2> QED
      BY <1>3, <2>1, <2>2, <2>3 DEF Fault
  <1>4. CASE UNCHANGED vars
    <2>1. UNCHANGED <<opVars, conn, callVars, history>>
      BY <1>4 DEF vars
    <2> QED
      BY <2>1 DEF IInv, TypeOK, LockBacked, MapLive, EarlyPending, WaitersShareRefresh,
                  OvertakenLost, Pending, opVars, callVars, history
  <1> QED
    BY <1>1, <1>2, <1>3, <1>4 DEF Next

\* The inductive invariant: the Map, the lock table and the refreshes under
\* way agree in every reachable state.
THEOREM InvariantHolds == Spec => []IInv
  BY InitIInv, NextKeeps, PTL DEF Spec

\* Every variable keeps its type, and what runs has a process.
THEOREM TypesHold == Spec => []TypeOK
  BY InvariantHolds, PTL DEF IInv

\* The advisory lock admits one comparison of a product at a time, as long as
\* the connections that carry it live.  (withDatabaseLock)
THEOREM RefreshIsExclusive == Spec => []OneRefreshPerProduct
  <1>1. IInv => OneRefreshPerProduct
    <2> SUFFICES ASSUME IInv, NEW i \in Op, NEW j \in Op,
                        i # j, phase[i] \in Comparing, phase[j] \in Comparing,
                        site[i].barcode = site[j].barcode, conn[i], conn[j]
                 PROVE  FALSE
      BY DEF OneRefreshPerProduct
    <2> QED
      BY DEF IInv, LockBacked
  <1> QED
    BY <1>1, InvariantHolds, PTL

\* Nobody waits for a promise that has been settled or that the Map has
\* forgotten.  (forceRefreshComparison)
THEOREM WaitersAreServed == Spec => []WaitersShareRefresh
  <1>1. IInv => WaitersShareRefresh
    BY DEF IInv
  <1> QED
    BY <1>1, InvariantHolds, PTL

\* An overtaken refresh that still records has lost its connection.
\* (recordComparisonCheck under the product lock)
THEOREM NewestResultStays == Spec => NewestCheckWins
  <1>1. IInv => (\A i \in Op : Record(i) /\ overtaken[i] => ~conn[i])
    BY DEF IInv, OvertakenLost
  <1> QED
    BY <1>1, InvariantHolds, PTL DEF NewestCheckWins

================================================================================
