---------------------------- MODULE ServerProofs ----------------------------
(***************************************************************************)
(* Proofs about what the server remembers: AuthFlows, for any number of    *)
(* accounts, requests, confirmations, registrations, sessions and calls,   *)
(* PriceCache and HealthCache, for any number of retailers, visitors,      *)
(* products and lookups and any limits.                                    *)
(*                                                                         *)
(* The properties of AuthFlows speak of links that work; the inductive     *)
(* invariant speaks of links that are not used up, whether they are        *)
(* expired or outdated or not: of those an account has at most one for     *)
(* each purpose (OneUnused).  That a link stored under the lock is not one *)
(* for an address which was verified since is the lock's doing (Held).     *)
(*                                                                         *)
(* NoOfferAfterNegative is about a copy of the tables of prices, which a   *)
(* refresh may have overtaken.  The invariant says that the tables, and so *)
(* every copy of them, show a price only when the last finding was one     *)
(* (TablesBacked, CopiesBacked).                                           *)
(*                                                                         *)
(* The cache of health facts outgrows its limit only when a lookup that    *)
(* fails puts back an entry evicted meanwhile.  The invariant counts the   *)
(* lookups that may still do so (Room): an entry they put back is one such *)
(* lookup fewer.                                                           *)
(***************************************************************************)
EXTENDS MCServer, Sequences, FiniteSetTheorems, TLAPS

\* A request whose link is stored, or will never be.
Issued == {"mailing", "revoking", "accepted", "revoked", "unrevoked", "crashed"}

Unused(r) == link[r].user # None /\ ~link[r].used

Past ==
  /\ \A r \in Request : request[r].phase # "idle" => request[r].user \in User
  /\ \A r \in Request : link[r].user # None \/ request[r].sent => request[r].phase \in Issued
  /\ \A r \in Request : request[r].phase = "revoked" => ~Unused(r)
  /\ \A r \in Request : request[r].phase = "mailing" => ~request[r].sent

Held ==
  /\ \A r \in Request : request[r].phase = "issuing" =>
       /\ lock[request[r].user] = r
       /\ request[r].purpose = "verification" => ~account[request[r].user].verified
  /\ \A c \in Confirmation : confirm[c].phase = "consuming" =>
       link[confirm[c].link].user = None \/ lock[link[confirm[c].link].user] = c

Posted ==
  \A c \in Confirmation :
    /\ confirm[c].phase # "idle" => confirm[c].link \in Request /\ request[confirm[c].link].sent
    /\ confirm[c].applied => confirm[c].phase # "idle" /\ ~Unused(confirm[c].link)

OneUnused ==
  \A q, r \in Request :
    Unused(q) /\ Unused(r) /\ link[q].user = link[r].user /\ link[q].purpose = link[r].purpose => q = r

VerifiedUnused ==
  \A r \in Request : Unused(r) /\ link[r].purpose = "verification" => ~account[link[r].user].verified

Sessions ==
  /\ \A s \in Session : session[s].phase # "out" =>
       /\ session[s].version <= account[session[s].user].version
       /\ account[session[s].user].password # None
  /\ SessionKnowsPassword

Calls ==
  /\ \A k \in Call : call[k].phase # "idle" =>
       /\ session[call[k].session].phase = "open"
       /\ call[k].arrived <= account[session[call[k].session].user].version
  /\ RevokedSessionStaysOut

Links == Past /\ Held /\ Posted /\ OneUnused /\ VerifiedUnused /\ SingleUse

IInv == TypeOK /\ Links /\ Sessions /\ Calls

USE NoneAssumption, PasswordAssumption DEF Password, Purpose

\* The parts of TypeOK, by variable.
AccountOK == account \in [User -> [password : Password \cup {None}, version : Nat, verified : BOOLEAN]]
LinkOK == link \in [Request -> [user : User \cup {None}, purpose : Purpose, version : Nat, used : BOOLEAN, expired : BOOLEAN]]
LockOK == lock \in [User -> Request \cup Confirmation \cup {None}]
RequestPhase == {"idle", "found", "ignored", "issuing"} \cup Issued
RequestOK == request \in [Request -> [phase : RequestPhase, user : User \cup {None}, purpose : Purpose, sent : BOOLEAN]]
ConfirmPhase == {"idle", "posted", "consuming", "done", "invalid", "unavailable"}
ConfirmOK == confirm \in [Confirmation -> [phase : ConfirmPhase, link : Request \cup {None}, inTime : BOOLEAN, applied : BOOLEAN]]
RegisterOK == register \in [Registration -> [phase : {"idle", "inserting", "over"}, user : User \cup {None}]]
SessionOK ==
  /\ session \in [Session -> [phase : {"out", "checking", "open"}, user : User \cup {None},
                              password : Password \cup {None}, version : Nat]]
  /\ \A s \in Session : session[s].phase # "out" => session[s].user \in User /\ session[s].password \in Password
CallOK ==
  /\ call \in [Call -> [phase : {"idle", "arrived", "admitted", "refused", "served"},
                        session : Session \cup {None}, arrived : Nat]]
  /\ \A k \in Call : call[k].phase # "idle" => call[k].session \in Session

LEMMA TypeParts ==
  /\ TypeOK <=> AccountOK /\ LinkOK /\ LockOK /\ RequestOK /\ ConfirmOK /\ RegisterOK /\ SessionOK /\ CallOK
  /\ TypeOK' <=> AccountOK' /\ LinkOK' /\ LockOK' /\ RequestOK' /\ ConfirmOK' /\ RegisterOK' /\ SessionOK' /\ CallOK'
BY DEF TypeOK, AccountOK, LinkOK, LockOK, RequestOK, ConfirmOK, RegisterOK, SessionOK, CallOK, RequestPhase, ConfirmPhase, Issued

\* What a request and a confirmation are after a step that moves them.
LEMMA RequestMoved ==
  ASSUME RequestOK, NEW r \in Request, NEW phase \in RequestPhase, RequestMoves(r, phase)
  PROVE  /\ RequestOK'
         /\ \A q \in Request :
              /\ request'[q].phase = IF q = r THEN phase ELSE request[q].phase
              /\ request'[q].sent = request[q].sent
              /\ request'[q].user = request[q].user
              /\ request'[q].purpose = request[q].purpose
BY DEF RequestOK, RequestMoves

RequestSends(r, phase, sent) == request' = [request EXCEPT ![r].phase = phase, ![r].sent = sent]

LEMMA RequestSent ==
  ASSUME RequestOK, NEW r \in Request, NEW phase \in RequestPhase, NEW sent \in BOOLEAN, RequestSends(r, phase, sent)
  PROVE  /\ RequestOK' /\ request'[r].sent = sent
         /\ \A q \in Request :
              /\ request'[q].phase = IF q = r THEN phase ELSE request[q].phase
              /\ q # r => request'[q].sent = request[q].sent
              /\ request'[q].user = request[q].user
              /\ request'[q].purpose = request[q].purpose
<1>1. RequestOK'
  BY DEF RequestOK, RequestSends
<1>2. request'[r] = [phase |-> phase, user |-> request[r].user, purpose |-> request[r].purpose, sent |-> sent]
  BY DEF RequestOK, RequestSends
<1>3. \A q \in Request \ {r} : request'[q] = request[q]
  BY DEF RequestOK, RequestSends
<1>4. ASSUME NEW q \in Request
      PROVE  /\ request'[q].phase = IF q = r THEN phase ELSE request[q].phase
             /\ q # r => request'[q].sent = request[q].sent
             /\ request'[q].user = request[q].user
             /\ request'[q].purpose = request[q].purpose
  <2>1. CASE q = r
    BY <1>2, <2>1
  <2>2. CASE q # r
    BY <1>3, <2>2
  <2>. QED
    BY <2>1, <2>2
<1>5. request'[r].sent = sent
  BY <1>2
<1>. QED
  BY <1>1, <1>4, <1>5

LEMMA ConfirmMoved ==
  ASSUME ConfirmOK, NEW c \in Confirmation, NEW phase \in ConfirmPhase, ConfirmMoves(c, phase)
  PROVE  /\ ConfirmOK'
         /\ \A d \in Confirmation :
              /\ confirm'[d].phase = IF d = c THEN phase ELSE confirm[d].phase
              /\ confirm'[d].applied = confirm[d].applied
              /\ confirm'[d].link = confirm[d].link
              /\ confirm'[d].inTime = confirm[d].inTime
BY DEF ConfirmOK, ConfirmMoves

ConfirmApplies(c, phase) == confirm' = [confirm EXCEPT ![c].phase = phase, ![c].applied = TRUE]

LEMMA ConfirmApplied ==
  ASSUME ConfirmOK, NEW c \in Confirmation, NEW phase \in ConfirmPhase, ConfirmApplies(c, phase)
  PROVE  /\ ConfirmOK' /\ confirm'[c].applied
         /\ \A d \in Confirmation :
              /\ confirm'[d].phase = IF d = c THEN phase ELSE confirm[d].phase
              /\ d # c => confirm'[d].applied = confirm[d].applied
              /\ confirm'[d].link = confirm[d].link
              /\ confirm'[d].inTime = confirm[d].inTime
<1>1. ConfirmOK'
  BY DEF ConfirmOK, ConfirmApplies
<1>2. confirm'[c] = [phase |-> phase, link |-> confirm[c].link, inTime |-> confirm[c].inTime, applied |-> TRUE]
  BY DEF ConfirmOK, ConfirmApplies
<1>3. \A d \in Confirmation \ {c} : confirm'[d] = confirm[d]
  BY DEF ConfirmOK, ConfirmApplies
<1>4. ASSUME NEW d \in Confirmation
      PROVE  /\ confirm'[d].phase = IF d = c THEN phase ELSE confirm[d].phase
             /\ d # c => confirm'[d].applied = confirm[d].applied
             /\ confirm'[d].link = confirm[d].link
             /\ confirm'[d].inTime = confirm[d].inTime
  <2>1. CASE d = c
    BY <1>2, <2>1
  <2>2. CASE d # c
    BY <1>3, <2>2
  <2>. QED
    BY <2>1, <2>2
<1>5. confirm'[c].applied
  BY <1>2
<1>. QED
  BY <1>1, <1>4, <1>5

LEMMA InitIInv == Init => IInv
<1>. SUFFICES ASSUME Init PROVE IInv
  OBVIOUS
<1>1. TypeOK
  BY DEF Init, TypeOK, NoLink, Untouched, Unposted, SignedOut, Unmade
<1>2. Links
  BY DEF Init, Links, Past, Held, Posted, OneUnused, VerifiedUnused, SingleUse, Unused, NoLink, Untouched, Unposted, Issued
<1>3. Sessions /\ Calls
  BY DEF Init, Sessions, Calls, SessionKnowsPassword, RevokedSessionStaysOut, SignedOut, Unmade
<1>. QED
  BY <1>1, <1>2, <1>3 DEF IInv

--------------------------------------------------------------------------------
(* Requests *)

LEMMA FindStep ==
  ASSUME IInv, NEW r \in Request, NEW u \in User, NEW p \in Purpose, Find(r, u, p)
  PROVE  IInv'
<1>1. TypeOK'
  BY DEF IInv, TypeOK, Find
<1>2. Links'
  BY DEF IInv, TypeOK, Find, Links, Past, Held, Posted, OneUnused, VerifiedUnused, SingleUse, Unused, Issued
<1>3. Sessions' /\ Calls'
  BY DEF IInv, Find, Sessions, Calls, SessionKnowsPassword, RevokedSessionStaysOut
<1>. QED
  BY <1>1, <1>2, <1>3 DEF IInv

LEMMA IssueLocksStep ==
  ASSUME IInv, NEW r \in Request, IssueLocks(r)
  PROVE  IInv'
<1>. DEFINE phase == IF request[r].purpose = "verification" /\ account[request[r].user].verified THEN "ignored" ELSE "issuing"
<1>1. phase \in RequestPhase /\ RequestMoves(r, phase)
  BY TypeParts DEF IInv, RequestOK, RequestPhase, IssueLocks
<1>2. RequestOK' /\ \A q \in Request : 
       /\ request'[q].phase = IF q = r THEN phase ELSE request[q].phase
       /\ request'[q].sent = request[q].sent
       /\ request'[q].user = request[q].user
       /\ request'[q].purpose = request[q].purpose
  <2>. HIDE DEF phase
  <2>. QED
    BY <1>1, RequestMoved, TypeParts DEF IInv
<1>3. LockOK'
  BY TypeParts DEF IInv, IssueLocks, LockOK
<1>4. TypeOK'
  BY <1>2, <1>3, TypeParts DEF IInv, IssueLocks, AccountOK, LinkOK, ConfirmOK, RegisterOK, SessionOK, CallOK
<1>5. Past'
  BY <1>2 DEF IInv, Links, Past, IssueLocks, Unused, Issued
<1>6. Held'
  <2>1. ASSUME NEW q \in Request, request'[q].phase = "issuing"
        PROVE  lock'[request'[q].user] = q /\ (request'[q].purpose = "verification" => ~account'[request'[q].user].verified)
    BY <1>2, <2>1, TypeParts DEF IInv, Links, Past, Held, IssueLocks, LockOK
  <2>2. ASSUME NEW c \in Confirmation, confirm'[c].phase = "consuming"
        PROVE  link'[confirm'[c].link].user = None \/ lock'[link'[confirm'[c].link].user] = c
    BY <2>2, TypeParts DEF IInv, Links, Posted, Held, IssueLocks, LockOK, LinkOK
  <2>. QED
    BY <2>1, <2>2 DEF Held
<1>7. Posted'
  BY <1>2 DEF IInv, Links, Posted, IssueLocks, Unused
<1>8. OneUnused' /\ VerifiedUnused' /\ SingleUse'
  BY DEF IInv, Links, OneUnused, VerifiedUnused, SingleUse, IssueLocks, Unused
<1>9. Sessions' /\ Calls'
  BY DEF IInv, IssueLocks, Sessions, Calls, SessionKnowsPassword, RevokedSessionStaysOut
<1>. QED
  BY <1>4, <1>5, <1>6, <1>7, <1>8, <1>9 DEF IInv, Links

LEMMA IssueCommitsStep ==
  ASSUME IInv, NEW r \in Request, IssueCommits(r)
  PROVE  IInv'
<1>. DEFINE u == request[r].user
<1>1. u \in User /\ lock[u] = r /\ request[r].phase = "issuing" /\ link[r].user = None /\ ~request[r].sent
  BY DEF IInv, Links, Past, Held, IssueCommits, Issued
<1>2. PICK phase \in {"mailing", "revoking"} : RequestMoves(r, phase)
  BY DEF IssueCommits
<1>3. RequestOK' /\ \A q \in Request : 
       /\ request'[q].phase = IF q = r THEN phase ELSE request[q].phase
       /\ request'[q].sent = request[q].sent
       /\ request'[q].user = request[q].user
       /\ request'[q].purpose = request[q].purpose
  <2>1. phase \in RequestPhase
    BY TypeParts DEF IInv, RequestOK, RequestPhase, Issued
  <2>. QED
    BY <1>2, <2>1, RequestMoved, TypeParts DEF IInv
<1>4. LockOK' /\ lock' = [lock EXCEPT ![u] = None]
  BY TypeParts DEF IInv, IssueCommits, LockOK
<1>5. LinkOK' /\ \A q \in Request : 
       /\ link'[q].user = IF q = r THEN u ELSE link[q].user
       /\ link'[q].purpose = IF q = r THEN request[r].purpose ELSE link[q].purpose
       /\ link'[q].used <=> q # r /\ (link[q].used \/ (link[q].user = u /\ link[q].purpose = request[r].purpose))
  <2>1. link' = [q \in Request |->
         IF q = r THEN [NoLink EXCEPT !.user = u, !.purpose = request[r].purpose, !.version = account[u].version]
         ELSE [link[q] EXCEPT !.used = @ \/ q \in Replaced(r)]]
    BY DEF IssueCommits
  <2>2. account[u].version \in Nat /\ request[r].purpose \in Purpose
    BY <1>1, TypeParts DEF IInv, AccountOK, RequestOK
  <2>3. link'[r] = [user |-> u, purpose |-> request[r].purpose, version |-> account[u].version, used |-> FALSE, expired |-> FALSE]
    BY <2>1 DEF NoLink
  <2>4. ASSUME NEW q \in Request, q # r
        PROVE  /\ link'[q] \in [user : User \cup {None}, purpose : Purpose, version : Nat, used : BOOLEAN, expired : BOOLEAN]
               /\ link'[q].user = link[q].user /\ link'[q].purpose = link[q].purpose
               /\ link'[q].used <=> link[q].used \/ (link[q].user = u /\ link[q].purpose = request[r].purpose)
    <3>1. link'[q] = [link[q] EXCEPT !.used = link[q].used \/ q \in Replaced(r)]
      BY <2>1, <2>4
    <3>2. link[q] \in [user : User \cup {None}, purpose : Purpose, version : Nat, used : BOOLEAN, expired : BOOLEAN]
      BY TypeParts DEF IInv, LinkOK
    <3>3. q \in Replaced(r) <=> link[q].user = u /\ link[q].purpose = request[r].purpose
      BY DEF Replaced
    <3>. QED
      BY <3>1, <3>2, <3>3
  <2>5. link'[r] \in [user : User \cup {None}, purpose : Purpose, version : Nat, used : BOOLEAN, expired : BOOLEAN]
    BY <1>1, <2>2, <2>3
  <2>6. link' = [q \in Request |-> link'[q]]
    BY <2>1
  <2>7. LinkOK'
    BY <2>4, <2>5, <2>6 DEF LinkOK
  <2>. QED
    BY <2>3, <2>4, <2>7
<1>6. TypeOK'
  BY <1>3, <1>4, <1>5, TypeParts DEF IInv, IssueCommits, AccountOK, ConfirmOK, RegisterOK, SessionOK, CallOK
<1>7. \A c \in Confirmation : confirm'[c] = confirm[c] /\ (confirm[c].phase # "idle" => confirm[c].link \in Request \ {r})
  BY <1>1 DEF IInv, Links, Posted, IssueCommits
<1>8. Past'
  BY <1>1, <1>2, <1>3, <1>5 DEF IInv, Links, Past, Unused, Issued
<1>9. Held'
  <2>1. ASSUME NEW q \in Request, request'[q].phase = "issuing"
        PROVE  lock'[request'[q].user] = q /\ (request'[q].purpose = "verification" => ~account'[request'[q].user].verified)
    BY <1>1, <1>2, <1>3, <1>4, <2>1, TypeParts DEF IInv, Links, Past, Held, IssueCommits, LockOK
  <2>2. ASSUME NEW c \in Confirmation, confirm'[c].phase = "consuming"
        PROVE  link'[confirm'[c].link].user = None \/ lock'[link'[confirm'[c].link].user] = c
    BY <1>1, <1>4, <1>5, <1>7, <2>2, TypeParts DEF IInv, Links, Past, Held, LockOK
  <2>. QED
    BY <2>1, <2>2 DEF Held
<1>10. Posted'
  BY <1>3, <1>5, <1>7 DEF IInv, Links, Posted, Unused
<1>11. OneUnused'
  BY <1>1, <1>5 DEF IInv, Links, OneUnused, Unused
<1>12. VerifiedUnused'
  BY <1>1, <1>5 DEF IInv, Links, Held, VerifiedUnused, Unused, IssueCommits
<1>13. SingleUse' /\ Sessions' /\ Calls'
  BY DEF IInv, Links, SingleUse, IssueCommits, Sessions, Calls, SessionKnowsPassword, RevokedSessionStaysOut
<1>. QED
  BY <1>6, <1>8, <1>9, <1>10, <1>11, <1>12, <1>13 DEF IInv, Links

LEMMA MailStep ==
  ASSUME IInv, NEW r \in Request, Mail(r)
  PROVE  IInv'
<1>1. PICK phase \in {"accepted", "revoking"}, sent \in BOOLEAN : RequestSends(r, phase, sent)
  BY DEF Mail, RequestSends
<1>2. UNCHANGED <<account, link, lock, confirm, register, session, call>> /\ request[r].phase = "mailing" /\ ~request[r].sent
  BY DEF IInv, Links, Past, Mail
<1>3. RequestOK' /\ request'[r].sent = sent /\ \A q \in Request :
       /\ request'[q].phase = IF q = r THEN phase ELSE request[q].phase
       /\ q # r => request'[q].sent = request[q].sent
       /\ request'[q].user = request[q].user
       /\ request'[q].purpose = request[q].purpose
  <2>1. phase \in RequestPhase
    BY <1>1 DEF RequestPhase, Issued
  <2>. QED
    BY <1>1, <2>1, RequestSent, TypeParts DEF IInv
<1>4. TypeOK'
  BY <1>2, <1>3, TypeParts DEF IInv, AccountOK, LinkOK, LockOK, ConfirmOK, RegisterOK, SessionOK, CallOK
<1>5. Past'
  <2>1. request'[r].phase \in {"accepted", "revoking"} /\ request'[r].user = request[r].user
    BY <1>1, <1>3
  <2>2. \A q \in Request \ {r} : request'[q].phase = request[q].phase /\ request'[q].sent = request[q].sent /\ request'[q].user = request[q].user
    BY <1>3
  <2>. QED
    BY <1>2, <2>1, <2>2 DEF IInv, Links, Past, Unused, Issued
<1>6. Held'
  <2>1. request'[r].phase # "issuing"
    BY <1>1, <1>3
  <2>2. \A q \in Request \ {r} : request'[q].phase = request[q].phase /\ request'[q].purpose = request[q].purpose /\ request'[q].user = request[q].user
    BY <1>3
  <2>. QED
    BY <1>2, <2>1, <2>2 DEF IInv, Links, Held
<1>7. Posted'
  BY <1>2, <1>3 DEF IInv, Links, Posted, Unused
<1>8. OneUnused' /\ VerifiedUnused' /\ SingleUse' /\ Sessions' /\ Calls'
  BY <1>2 DEF IInv, Links, OneUnused, VerifiedUnused, SingleUse, Unused, Sessions, Calls, SessionKnowsPassword, RevokedSessionStaysOut
<1>. QED
  BY <1>4, <1>5, <1>6, <1>7, <1>8 DEF IInv, Links

LEMMA RequestFailsStep ==
  ASSUME IInv, NEW r \in Request, RequestFails(r)
  PROVE  IInv'
<1>1. request[r].phase \in {"found", "issuing"} /\ RequestMoves(r, "revoking") /\ UNCHANGED <<account, link, confirm, register, session, call>>
  BY DEF RequestFails
<1>2. RequestOK' /\ \A q \in Request :
       /\ request'[q].phase = IF q = r THEN "revoking" ELSE request[q].phase
       /\ request'[q].sent = request[q].sent
       /\ request'[q].user = request[q].user
       /\ request'[q].purpose = request[q].purpose
  <2>1. "revoking" \in RequestPhase
    BY DEF RequestPhase, Issued
  <2>. QED
    BY <1>1, <2>1, RequestMoved, TypeParts DEF IInv
<1>3. LockOK' /\ \A u \in User : lock[u] # r => lock'[u] = lock[u]
  BY TypeParts DEF IInv, RequestFails, LockOK
<1>4. TypeOK'
  BY <1>1, <1>2, <1>3, TypeParts DEF IInv, AccountOK, LinkOK, ConfirmOK, RegisterOK, SessionOK, CallOK
<1>5. Past'
  BY <1>1, <1>2 DEF IInv, Links, Past, Unused, Issued
<1>6. Held'
  <2>1. ASSUME NEW q \in Request, request'[q].phase = "issuing"
        PROVE  lock'[request'[q].user] = q /\ (request'[q].purpose = "verification" => ~account'[request'[q].user].verified)
    BY <1>1, <1>2, <1>3, <2>1 DEF IInv, Links, Past, Held
  <2>2. ASSUME NEW c \in Confirmation, confirm'[c].phase = "consuming"
        PROVE  link'[confirm'[c].link].user = None \/ lock'[link'[confirm'[c].link].user] = c
    BY <1>1, <1>3, <2>2, TypeParts DEF IInv, Links, Posted, Held, LinkOK
  <2>. QED
    BY <2>1, <2>2 DEF Held
<1>7. Posted'
  BY <1>1, <1>2 DEF IInv, Links, Posted, Unused
<1>8. OneUnused' /\ VerifiedUnused' /\ SingleUse' /\ Sessions' /\ Calls'
  BY <1>1 DEF IInv, Links, OneUnused, VerifiedUnused, SingleUse, Unused, Sessions, Calls, SessionKnowsPassword, RevokedSessionStaysOut
<1>. QED
  BY <1>4, <1>5, <1>6, <1>7, <1>8 DEF IInv, Links

UsesUp(r) == link' = [link EXCEPT ![r].used = @ \/ link[r].user # None]

LEMMA RevokeStep ==
  ASSUME IInv, NEW r \in Request, Revoke(r)
  PROVE  IInv'
<1>1. UNCHANGED <<account, lock, confirm, register, session, call>> /\ request[r].phase = "revoking"
  BY DEF Revoke
<1>2. PICK phase \in {"revoked", "unrevoked"} :
        /\ RequestMoves(r, phase)
        /\ phase = "revoked" => UsesUp(r)
        /\ phase = "unrevoked" => UNCHANGED link
  BY DEF Revoke, UsesUp
<1>3. RequestOK' /\ \A q \in Request :
       /\ request'[q].phase = IF q = r THEN phase ELSE request[q].phase
       /\ request'[q].sent = request[q].sent
       /\ request'[q].user = request[q].user
       /\ request'[q].purpose = request[q].purpose
  <2>1. phase \in RequestPhase
    BY <1>2 DEF RequestPhase, Issued
  <2>. QED
    BY <1>2, <2>1, RequestMoved, TypeParts DEF IInv
<1>4. LinkOK' /\ \A q \in Request :
       /\ link'[q].user = link[q].user /\ link'[q].purpose = link[q].purpose
       /\ link[q].used => link'[q].used
       /\ phase = "revoked" /\ q = r => link'[q].user = None \/ link'[q].used
  <2>1. CASE phase = "revoked"
    <3>1. UsesUp(r) /\ LinkOK
      BY <1>2, <2>1, TypeParts DEF IInv
    <3>2. LinkOK'
      BY <3>1 DEF UsesUp, LinkOK
    <3>3. link'[r].user = link[r].user /\ link'[r].purpose = link[r].purpose /\ (link'[r].used <=> link[r].used \/ link[r].user # None)
      <4>1. link'[r] = [link[r] EXCEPT !.used = link[r].used \/ link[r].user # None]
        BY <3>1 DEF UsesUp, LinkOK
      <4>2. link[r] \in [user : User \cup {None}, purpose : Purpose, version : Nat, used : BOOLEAN, expired : BOOLEAN]
        BY <3>1 DEF LinkOK
      <4>. QED
        BY <4>1, <4>2
    <3>4. \A q \in Request \ {r} : link'[q] = link[q]
      BY <3>1 DEF UsesUp, LinkOK
    <3>. QED
      BY <3>2, <3>3, <3>4
  <2>2. CASE phase = "unrevoked"
    BY <1>2, <2>2, TypeParts DEF IInv, LinkOK
  <2>. QED
    BY <2>1, <2>2
<1>5. TypeOK'
  BY <1>1, <1>3, <1>4, TypeParts DEF IInv, AccountOK, LockOK, ConfirmOK, RegisterOK, SessionOK, CallOK
<1>6. \A q \in Request : Unused(q)' => Unused(q)
  BY <1>4 DEF Unused
<1>7. Past'
  BY <1>1, <1>2, <1>3, <1>4, <1>6 DEF IInv, Links, Past, Unused, Issued
<1>8. Held'
  BY <1>1, <1>2, <1>3, <1>4 DEF IInv, Links, Past, Posted, Held
<1>9. Posted'
  BY <1>1, <1>3, <1>6 DEF IInv, Links, Posted
<1>10. OneUnused' /\ VerifiedUnused'
  BY <1>1, <1>4, <1>6 DEF IInv, Links, OneUnused, VerifiedUnused
<1>11. SingleUse' /\ Sessions' /\ Calls'
  BY <1>1 DEF IInv, Links, SingleUse, Sessions, Calls, SessionKnowsPassword, RevokedSessionStaysOut
<1>. QED
  BY <1>5, <1>7, <1>8, <1>9, <1>10, <1>11 DEF IInv, Links

LEMMA ExpireStep ==
  ASSUME IInv, NEW r \in Request, Expire(r)
  PROVE  IInv'
<1>1. TypeOK'
  <2>1. LinkOK'
    BY TypeParts DEF IInv, LinkOK, Expire
  <2>. QED
    BY TypeParts, <2>1 DEF IInv, RequestOK, LockOK, AccountOK, ConfirmOK, SessionOK, CallOK, RegisterOK, Expire
<1>2. Links'
  BY DEF IInv, TypeOK, Expire, Links, Past, Held, Posted, OneUnused, VerifiedUnused, SingleUse, Unused, Issued
<1>3. Sessions' /\ Calls'
  BY DEF IInv, TypeOK, Expire, Sessions, Calls, SessionKnowsPassword, RevokedSessionStaysOut
<1>. QED
  BY <1>1, <1>2, <1>3 DEF IInv

LEMMA CleanupStep ==
  ASSUME IInv, NEW r \in Request, Cleanup(r)
  PROVE  IInv'
<1>1. TypeOK'
  BY DEF IInv, TypeOK, Cleanup, NoLink
<1>2. Links'
  BY DEF IInv, TypeOK, Cleanup, NoLink, Links, Past, Held, Posted, OneUnused, VerifiedUnused, SingleUse, Unused, Issued
<1>3. Sessions' /\ Calls'
  BY DEF IInv, TypeOK, Cleanup, NoLink, Sessions, Calls, SessionKnowsPassword, RevokedSessionStaysOut
<1>. QED
  BY <1>1, <1>2, <1>3 DEF IInv

LEMMA CrashRequestStep ==
  ASSUME IInv, NEW r \in Request, CrashRequest(r)
  PROVE  IInv'
<1>1. request[r].phase \in {"found", "issuing", "mailing", "revoking"} /\ UNCHANGED <<account, link, confirm, register, session, call>>
  BY DEF CrashRequest
<1>2. PICK sent \in BOOLEAN : RequestSends(r, "crashed", sent) /\ (request[r].sent => sent)
  <2>1. PICK posted \in BOOLEAN : request' = [request EXCEPT ![r].phase = "crashed", ![r].sent = @ \/ posted]
    BY DEF CrashRequest
  <2>2. request[r].sent \in BOOLEAN
    BY TypeParts DEF IInv, RequestOK
  <2>3. RequestSends(r, "crashed", request[r].sent \/ posted)
    BY <2>1, TypeParts DEF IInv, RequestOK, RequestSends
  <2>. QED
    BY <2>2, <2>3
<1>3. RequestOK' /\ request'[r].sent = sent /\ \A q \in Request :
       /\ request'[q].phase = IF q = r THEN "crashed" ELSE request[q].phase
       /\ q # r => request'[q].sent = request[q].sent
       /\ request'[q].user = request[q].user
       /\ request'[q].purpose = request[q].purpose
  <2>1. "crashed" \in RequestPhase
    BY DEF RequestPhase, Issued
  <2>. QED
    BY <1>2, <2>1, RequestSent, TypeParts DEF IInv
<1>4. LockOK' /\ \A u \in User : lock[u] # r => lock'[u] = lock[u]
  BY TypeParts DEF IInv, CrashRequest, LockOK
<1>5. TypeOK'
  BY <1>1, <1>3, <1>4, TypeParts DEF IInv, AccountOK, LinkOK, ConfirmOK, RegisterOK, SessionOK, CallOK
<1>6. Past'
  <2>1. request'[r].phase = "crashed" /\ request'[r].user = request[r].user
    BY <1>3
  <2>2. \A q \in Request \ {r} : request'[q].phase = request[q].phase /\ request'[q].sent = request[q].sent /\ request'[q].user = request[q].user
    BY <1>3
  <2>. QED
    BY <1>1, <2>1, <2>2 DEF IInv, Links, Past, Unused, Issued
<1>7. Held'
  <2>1. ASSUME NEW q \in Request, request'[q].phase = "issuing"
        PROVE  lock'[request'[q].user] = q /\ (request'[q].purpose = "verification" => ~account'[request'[q].user].verified)
    BY <1>1, <1>3, <1>4, <2>1 DEF IInv, Links, Past, Held
  <2>2. ASSUME NEW c \in Confirmation, confirm'[c].phase = "consuming"
        PROVE  link'[confirm'[c].link].user = None \/ lock'[link'[confirm'[c].link].user] = c
    BY <1>1, <1>4, <2>2, TypeParts DEF IInv, Links, Posted, Held, LinkOK
  <2>. QED
    BY <2>1, <2>2 DEF Held
<1>8. Posted'
  <2>1. \A q \in Request : request[q].sent => request'[q].sent
    BY <1>2, <1>3
  <2>. QED
    BY <1>1, <2>1 DEF IInv, Links, Posted, Unused
<1>9. OneUnused' /\ VerifiedUnused' /\ SingleUse' /\ Sessions' /\ Calls'
  BY <1>1 DEF IInv, Links, OneUnused, VerifiedUnused, SingleUse, Unused, Sessions, Calls, SessionKnowsPassword, RevokedSessionStaysOut
<1>. QED
  BY <1>5, <1>6, <1>7, <1>8, <1>9 DEF IInv, Links

--------------------------------------------------------------------------------
(* Confirmations *)

LEMMA PostStep ==
  ASSUME IInv, NEW c \in Confirmation, NEW r \in Request, Post(c, r)
  PROVE  IInv'
<1>1. TypeOK'
  BY DEF IInv, TypeOK, Post
<1>2. Links'
  BY DEF IInv, TypeOK, Post, Links, Past, Held, Posted, OneUnused, VerifiedUnused, SingleUse, Unused, Issued
<1>3. Sessions' /\ Calls'
  BY DEF IInv, TypeOK, Post, Sessions, Calls, SessionKnowsPassword, RevokedSessionStaysOut
<1>. QED
  BY <1>1, <1>2, <1>3 DEF IInv

LEMMA ConsumeLocksStep ==
  ASSUME IInv, NEW c \in Confirmation, ConsumeLocks(c)
  PROVE  IInv'
<1>. DEFINE u == link[confirm[c].link].user
<1>1. UNCHANGED <<account, link, request, register, session, call>> /\ confirm[c].phase = "posted" /\ confirm[c].link \in Request
  BY DEF IInv, Links, Posted, ConsumeLocks
<1>2. PICK phase \in {"invalid", "consuming"} :
        /\ ConfirmMoves(c, phase)
        /\ phase = "invalid" => UNCHANGED lock
        /\ phase = "consuming" => u # None /\ lock[u] = None /\ lock' = [lock EXCEPT ![u] = c]
  BY DEF ConsumeLocks
<1>3. u \in User \cup {None}
  BY <1>1, TypeParts DEF IInv, LinkOK
<1>4. ConfirmOK' /\ \A d \in Confirmation :
       /\ confirm'[d].phase = IF d = c THEN phase ELSE confirm[d].phase
       /\ confirm'[d].applied = confirm[d].applied
       /\ confirm'[d].link = confirm[d].link
       /\ confirm'[d].inTime = confirm[d].inTime
  <2>1. phase \in ConfirmPhase
    BY DEF ConfirmPhase
  <2>. QED
    BY <1>2, <2>1, ConfirmMoved, TypeParts DEF IInv
<1>5. LockOK' /\ (\A v \in User : lock[v] # None => lock'[v] = lock[v]) /\ (phase = "consuming" => lock'[u] = c)
  BY <1>2, <1>3, TypeParts DEF IInv, LockOK
<1>6. TypeOK'
  BY <1>1, <1>4, <1>5, TypeParts DEF IInv, AccountOK, LinkOK, RequestOK, RegisterOK, SessionOK, CallOK
<1>7. Past'
  BY <1>1 DEF IInv, Links, Past, Unused, Issued
<1>8. Held'
  <2>1. ASSUME NEW q \in Request, request'[q].phase = "issuing"
        PROVE  lock'[request'[q].user] = q /\ (request'[q].purpose = "verification" => ~account'[request'[q].user].verified)
    BY <1>1, <1>5, <2>1 DEF IInv, Links, Past, Held
  <2>2. ASSUME NEW d \in Confirmation, confirm'[d].phase = "consuming"
        PROVE  link'[confirm'[d].link].user = None \/ lock'[link'[confirm'[d].link].user] = d
    <3>1. CASE d = c
      BY <1>1, <1>4, <1>5, <2>2, <3>1
    <3>2. CASE d # c
      <4>1. confirm[d].phase = "consuming" /\ confirm'[d].link = confirm[d].link /\ confirm[d].link \in Request
        BY <1>4, <2>2, <3>2 DEF IInv, Links, Posted
      <4>2. link[confirm[d].link].user \in User \cup {None}
        BY <4>1, TypeParts DEF IInv, LinkOK
      <4>. QED
        BY <1>1, <1>5, <4>1, <4>2 DEF IInv, Links, Held
    <3>. QED
      BY <3>1, <3>2
  <2>. QED
    BY <2>1, <2>2 DEF Held
<1>9. Posted'
  BY <1>1, <1>4 DEF IInv, Links, Posted, Unused
<1>10. OneUnused' /\ VerifiedUnused'
  BY <1>1 DEF IInv, Links, OneUnused, VerifiedUnused, Unused
<1>11. SingleUse'
  BY <1>4 DEF IInv, Links, SingleUse
<1>12. Sessions' /\ Calls'
  BY <1>1 DEF IInv, Sessions, Calls, SessionKnowsPassword, RevokedSessionStaysOut
<1>. QED
  BY <1>6, <1>7, <1>8, <1>9, <1>10, <1>11, <1>12 DEF IInv, Links

\* What a confirmation of link r, of account u, does to accounts and links.
LEMMA Applied ==
  ASSUME AccountOK, LinkOK, NEW c \in Confirmation, NEW r \in Request, NEW u \in User,
         r = confirm[c].link, u = link[r].user, Apply(c)
  PROVE  /\ AccountOK' /\ LinkOK'
         /\ \A v \in User :
              /\ account[v].version <= account'[v].version
              /\ account[v].password # None => account'[v].password # None
              /\ account'[v].version = account[v].version => account'[v].password = account[v].password
              /\ account'[v].verified =>
                   account[v].verified \/ (v = u /\ link[r].purpose = "verification")
         /\ \A v \in User : account[v].password # account'[v].password => account'[v].version = account[v].version + 1
         /\ \A q \in Request :
              /\ link'[q].user = link[q].user /\ link'[q].purpose = link[q].purpose
              /\ link[q].used => link'[q].used
         /\ link'[r].used
<1>. DEFINE reset == link[r].purpose = "password_reset"
<1>1. account[u] \in [password : Password \cup {None}, version : Nat, verified : BOOLEAN]
  BY DEF AccountOK
<1>2. link[r].purpose \in Purpose
  BY DEF LinkOK
<1>3. account' = [account EXCEPT ![u] = IF reset THEN [account[u] EXCEPT !.password = c, !.version = account[u].version + 1]
                                        ELSE [account[u] EXCEPT !.verified = TRUE]]
  BY DEF Apply
<1>4. link' = [q \in Request |-> [link[q] EXCEPT !.used = link[q].used \/ q = r \/ (reset /\ link[q].user = u)]]
  BY DEF Apply
<1>5. reset => account'[u] = [password |-> c, version |-> account[u].version + 1, verified |-> account[u].verified]
  BY <1>1, <1>3 DEF AccountOK
<1>6. ~reset => account'[u] = [password |-> account[u].password, version |-> account[u].version, verified |-> TRUE]
  BY <1>1, <1>3 DEF AccountOK
<1>7. \A v \in User \ {u} : account'[v] = account[v]
  BY <1>3 DEF AccountOK
<1>8. account'[u] \in [password : Password \cup {None}, version : Nat, verified : BOOLEAN]
  <2>1. CASE reset
    <3>1. account[u].version + 1 \in Nat /\ account[u].verified \in BOOLEAN /\ c \in Password \cup {None}
      BY <1>1
    <3>. QED
      BY <1>5, <2>1, <3>1
  <2>2. CASE ~reset
    <3>1. account[u].version \in Nat /\ account[u].password \in Password \cup {None}
      BY <1>1
    <3>2. account'[u] = [password |-> account[u].password, version |-> account[u].version, verified |-> TRUE]
      BY <1>6, <2>2
    <3>3. \A t \in BOOLEAN : [password |-> account[u].password, version |-> account[u].version, verified |-> t]
                            \in [password : Password \cup {None}, version : Nat, verified : BOOLEAN]
      BY <3>1
    <3>. QED
      BY <3>2, <3>3
  <2>. QED
    BY <2>1, <2>2
<1>9. account' = [v \in User |-> account'[v]]
  BY <1>3 DEF AccountOK
<1>10. AccountOK'
  <2>1. \A v \in User : account'[v] \in [password : Password \cup {None}, version : Nat, verified : BOOLEAN]
    BY <1>7, <1>8 DEF AccountOK
  <2>. QED
    BY <1>9, <2>1 DEF AccountOK
<1>11. ASSUME NEW v \in User
       PROVE  /\ account[v].version <= account'[v].version
              /\ account[v].password # None => account'[v].password # None
              /\ account'[v].version = account[v].version => account'[v].password = account[v].password
              /\ account'[v].verified => account[v].verified \/ (v = u /\ link[r].purpose = "verification")
              /\ account[v].password # account'[v].password => account'[v].version = account[v].version + 1
  <2>. account[v].version \in Nat
    BY DEF AccountOK
  <2>1. CASE v # u
    BY <1>7, <2>1
  <2>2. CASE v = u /\ reset
    BY <1>5, <2>2
  <2>3. CASE v = u /\ ~reset
    BY <1>2, <1>6, <2>3
  <2>. QED
    BY <2>1, <2>2, <2>3
<1>12. ASSUME NEW q \in Request
       PROVE  /\ link'[q] \in [user : User \cup {None}, purpose : Purpose, version : Nat, used : BOOLEAN, expired : BOOLEAN]
              /\ link'[q].user = link[q].user /\ link'[q].purpose = link[q].purpose
              /\ link'[q].used <=> (link[q].used \/ q = r \/ (reset /\ link[q].user = u))
  <2>1. link'[q] = [link[q] EXCEPT !.used = link[q].used \/ q = r \/ (reset /\ link[q].user = u)]
    BY <1>4
  <2>2. link[q] \in [user : User \cup {None}, purpose : Purpose, version : Nat, used : BOOLEAN, expired : BOOLEAN]
    BY DEF LinkOK
  <2>. HIDE DEF reset
  <2>. QED
    BY <2>1, <2>2
<1>13. LinkOK'
  <2>1. link' = [q \in Request |-> link'[q]]
    BY <1>4
  <2>. QED
    BY <1>12, <2>1 DEF LinkOK
<1>. QED
  BY <1>10, <1>11, <1>12, <1>13

LEMMA ConsumeCommitsStep ==
  ASSUME IInv, NEW c \in Confirmation, ConsumeCommits(c)
  PROVE  IInv'
<1>. DEFINE r == confirm[c].link
            u == link[r].user
<1>1. UNCHANGED <<request, register, session, call>> /\ confirm[c].phase = "consuming" /\ r \in Request
  BY DEF IInv, Links, Posted, ConsumeCommits
<1>2. LockOK' /\ \A v \in User : lock[v] # c => lock'[v] = lock[v]
  BY TypeParts DEF IInv, ConsumeCommits, LockOK
<1>3. CASE ~Consumable(c)
  <2>1. ConfirmMoves(c, "invalid") /\ UNCHANGED <<account, link>>
    BY <1>3 DEF ConsumeCommits
  <2>2. ConfirmOK' /\ \A d \in Confirmation :
       /\ confirm'[d].phase = IF d = c THEN "invalid" ELSE confirm[d].phase
       /\ confirm'[d].applied = confirm[d].applied
       /\ confirm'[d].link = confirm[d].link
       /\ confirm'[d].inTime = confirm[d].inTime
    <3>1. "invalid" \in ConfirmPhase
      BY DEF ConfirmPhase
    <3>. QED
      BY <2>1, <3>1, ConfirmMoved, TypeParts DEF IInv
  <2>3. TypeOK'
    BY <1>1, <1>2, <2>1, <2>2, TypeParts DEF IInv, AccountOK, LinkOK, RequestOK, RegisterOK, SessionOK, CallOK
  <2>4. Past'
    BY <1>1, <2>1 DEF IInv, Links, Past, Unused, Issued
  <2>5. Held'
    <3>1. ASSUME NEW q \in Request, request'[q].phase = "issuing"
          PROVE  lock'[request'[q].user] = q /\ (request'[q].purpose = "verification" => ~account'[request'[q].user].verified)
      BY <1>1, <1>2, <2>1, <3>1 DEF IInv, Links, Past, Held
    <3>2. ASSUME NEW d \in Confirmation, confirm'[d].phase = "consuming"
          PROVE  link'[confirm'[d].link].user = None \/ lock'[link'[confirm'[d].link].user] = d
      <4>1. d # c /\ confirm[d].phase = "consuming" /\ confirm'[d].link = confirm[d].link /\ confirm[d].link \in Request
        BY <2>2, <3>2 DEF IInv, Links, Posted
      <4>2. link[confirm[d].link].user \in User \cup {None}
        BY <4>1, TypeParts DEF IInv, LinkOK
      <4>. QED
        BY <1>2, <2>1, <4>1, <4>2 DEF IInv, Links, Held
    <3>. QED
      BY <3>1, <3>2 DEF Held
  <2>6. Posted'
    BY <1>1, <2>1, <2>2 DEF IInv, Links, Posted, Unused
  <2>7. OneUnused' /\ VerifiedUnused'
    BY <2>1 DEF IInv, Links, OneUnused, VerifiedUnused, Unused
  <2>8. SingleUse'
    BY <2>2 DEF IInv, Links, SingleUse
  <2>9. Sessions' /\ Calls'
    BY <1>1, <2>1 DEF IInv, Sessions, Calls, SessionKnowsPassword, RevokedSessionStaysOut
  <2>. QED
    BY <2>3, <2>4, <2>5, <2>6, <2>7, <2>8, <2>9 DEF IInv, Links
<1>4. CASE Consumable(c)
  <2>1. u \in User /\ Unused(r)
    BY <1>1, <1>4, TypeParts DEF IInv, LinkOK, Consumable, Unused
  <2>2. Apply(c)
    BY <1>4 DEF ConsumeCommits
  <2>3. PICK phase \in {"done", "unavailable"} : ConfirmApplies(c, phase)
    BY <1>4 DEF ConsumeCommits, ConfirmApplies
  <2>4. ConfirmOK' /\ confirm'[c].applied /\ \A d \in Confirmation :
       /\ confirm'[d].phase = IF d = c THEN phase ELSE confirm[d].phase
       /\ d # c => confirm'[d].applied = confirm[d].applied
       /\ confirm'[d].link = confirm[d].link
       /\ confirm'[d].inTime = confirm[d].inTime
    <3>1. phase \in ConfirmPhase
      BY DEF ConfirmPhase
    <3>. QED
      BY <2>3, <3>1, ConfirmApplied, TypeParts DEF IInv
  <2>5. AccountOK /\ LinkOK
    BY TypeParts DEF IInv
  <2>. DEFINE rows == \A v \in User :
              /\ account[v].version <= account'[v].version
              /\ account[v].password # None => account'[v].password # None
              /\ account'[v].version = account[v].version => account'[v].password = account[v].password
              /\ account'[v].verified => account[v].verified \/ (v = u /\ link[r].purpose = "verification")
  <2>6. AccountOK' /\ rows
    BY <1>1, <2>1, <2>2, <2>5, Applied
  <2>7. LinkOK' /\ link'[r].used /\ \A q \in Request :
          /\ link'[q].user = link[q].user /\ link'[q].purpose = link[q].purpose
          /\ link[q].used => link'[q].used
    BY <1>1, <2>1, <2>2, <2>5, Applied
  <2>8. TypeOK'
    <3>. HIDE DEF rows
    <3>. QED
      BY <1>1, <1>2, <2>4, <2>6, <2>7, TypeParts DEF IInv, RequestOK, RegisterOK, SessionOK, CallOK
  <2>9. \A q \in Request : Unused(q)' => Unused(q) /\ q # r
    BY <1>1, <2>7 DEF Unused
  <2>10. Past'
    BY <1>1, <2>7, <2>9 DEF IInv, Links, Past, Issued
  <2>11. lock[u] = c
    BY <1>1, <2>1 DEF IInv, Links, Held
  <2>12. Held'
    <3>1. ASSUME NEW q \in Request, request'[q].phase = "issuing"
          PROVE  lock'[request'[q].user] = q /\ (request'[q].purpose = "verification" => ~account'[request'[q].user].verified)
      <4>1. request[q].user \in User /\ lock[request[q].user] = q /\ q # c /\ request'[q] = request[q]
        BY <1>1, <3>1 DEF IInv, Links, Past, Held
      <4>2. request[q].user # u
        BY <2>11, <4>1
      <4>3. request[q].purpose = "verification" => ~account[request[q].user].verified
        BY <1>1, <3>1 DEF IInv, Links, Held
      <4>. QED
        BY <1>2, <2>6, <4>1, <4>2, <4>3
    <3>2. ASSUME NEW d \in Confirmation, confirm'[d].phase = "consuming"
          PROVE  link'[confirm'[d].link].user = None \/ lock'[link'[confirm'[d].link].user] = d
      <4>1. d # c /\ confirm[d].phase = "consuming" /\ confirm'[d].link = confirm[d].link /\ confirm[d].link \in Request
        BY <2>4, <3>2 DEF IInv, Links, Posted
      <4>2. link[confirm[d].link].user \in User \cup {None}
        BY <2>5, <4>1 DEF LinkOK
      <4>3. link'[confirm[d].link].user = link[confirm[d].link].user
        BY <2>7, <4>1
      <4>4. link[confirm[d].link].user = None \/ lock[link[confirm[d].link].user] = d
        BY <4>1 DEF IInv, Links, Held
      <4>. QED
        BY <1>2, <4>1, <4>2, <4>3, <4>4
    <3>. QED
      BY <3>1, <3>2 DEF Held
  <2>13. Posted'
    <3>1. ASSUME NEW d \in Confirmation
          PROVE  /\ confirm'[d].phase # "idle" => confirm'[d].link \in Request /\ request'[confirm'[d].link].sent
                 /\ confirm'[d].applied => confirm'[d].phase # "idle" /\ ~Unused(confirm[d].link)'
      <4>0. confirm'[d].link = confirm[d].link
        BY <2>4
      <4>1. CASE d = c
        BY <1>1, <2>4, <2>9, <4>0, <4>1 DEF IInv, Links, Posted
      <4>2. CASE d # c
        BY <1>1, <2>4, <2>9, <4>0, <4>2 DEF IInv, Links, Posted
      <4>. QED
        BY <4>1, <4>2
    <3>. QED
      BY <2>4, <3>1 DEF Posted, Unused
  <2>14. OneUnused'
    BY <2>7, <2>9 DEF IInv, Links, OneUnused
  <2>15. VerifiedUnused'
    <3>1. ASSUME NEW q \in Request, Unused(q)', link'[q].purpose = "verification"
          PROVE  ~account'[link'[q].user].verified
      <4>1. Unused(q) /\ q # r /\ link'[q].user = link[q].user /\ link[q].purpose = "verification"
        BY <2>7, <2>9, <3>1
      <4>2. link[q].user \in User
        BY <2>5, <4>1 DEF LinkOK, Unused
      <4>3. ~account[link[q].user].verified
        BY <4>1 DEF IInv, Links, VerifiedUnused
      <4>4. ~(link[q].user = u /\ link[r].purpose = "verification")
        BY <1>1, <2>1, <4>1 DEF IInv, Links, OneUnused
      <4>. QED
        BY <2>6, <4>1, <4>2, <4>3, <4>4
    <3>. QED
      BY <3>1 DEF VerifiedUnused
  <2>16. SingleUse'
    <3>1. \A d \in Confirmation : confirm[d].applied => confirm[d].link # r
      BY <2>1 DEF IInv, Links, Posted
    <3>. QED
      BY <2>4, <3>1 DEF IInv, Links, SingleUse
  <2>17. Sessions'
    <3>1. ASSUME NEW s \in Session, session'[s].phase # "out"
          PROVE  /\ session'[s].version <= account'[session'[s].user].version
                 /\ account'[session'[s].user].password # None
                 /\ session'[s].version = account'[session'[s].user].version =>
                      session'[s].password = account'[session'[s].user].password
      <4>. DEFINE v == session[s].user
      <4>1. session'[s] = session[s] /\ v \in User /\ session[s].version \in Nat
        BY <1>1, <3>1, TypeParts DEF IInv, SessionOK
      <4>2. session[s].version <= account[v].version /\ account[v].password # None
        BY <4>1, <3>1 DEF IInv, Sessions
      <4>3. session[s].version = account[v].version => session[s].password = account[v].password
        BY <4>1, <3>1 DEF IInv, Sessions, SessionKnowsPassword
      <4>4. account[v].version \in Nat /\ account'[v].version \in Nat
        BY <2>5, <2>6, <4>1 DEF AccountOK
      <4>5. /\ account[v].version <= account'[v].version
            /\ account'[v].password # None
            /\ account'[v].version = account[v].version => account'[v].password = account[v].password
        BY <2>6, <4>1, <4>2
      <4>. QED
        BY <4>1, <4>2, <4>3, <4>4, <4>5
    <3>. QED
      BY <3>1 DEF Sessions, SessionKnowsPassword
  <2>18. Calls'
    <3>1. ASSUME NEW k \in Call, call'[k].phase # "idle"
          PROVE  /\ session'[call'[k].session].phase = "open"
                 /\ call'[k].arrived <= account'[session'[call'[k].session].user].version
      <4>. DEFINE v == session[call[k].session].user
      <4>1. call'[k] = call[k] /\ session' = session /\ session[call[k].session].phase = "open" /\ call[k].arrived <= account[v].version
        BY <1>1, <3>1 DEF IInv, Calls
      <4>2. v \in User /\ call[k].arrived \in Nat
        BY <1>1, <3>1, <4>1, TypeParts DEF IInv, SessionOK, CallOK
      <4>3. account[v].version \in Nat /\ account'[v].version \in Nat /\ account[v].version <= account'[v].version
        BY <2>5, <2>6, <4>2 DEF AccountOK
      <4>. QED
        BY <4>1, <4>2, <4>3
    <3>2. RevokedSessionStaysOut'
      BY <1>1 DEF IInv, Calls, RevokedSessionStaysOut
    <3>. QED
      BY <3>1, <3>2 DEF Calls
  <2>. QED
    BY <2>8, <2>10, <2>12, <2>13, <2>14, <2>15, <2>16, <2>17, <2>18 DEF IInv, Links
<1>. QED
  BY <1>3, <1>4

LEMMA ConfirmFailsStep ==
  ASSUME IInv, NEW c \in Confirmation, ConfirmFails(c)
  PROVE  IInv'
<1>1. UNCHANGED <<account, link, request, register, session, call>> /\ confirm[c].phase \in {"posted", "consuming"}
  BY DEF ConfirmFails
<1>2. LockOK' /\ \A v \in User : lock[v] # c => lock'[v] = lock[v]
  BY TypeParts DEF IInv, ConfirmFails, LockOK
<1>3. ConfirmOK' /\ \A d \in Confirmation :
     /\ confirm'[d].phase = IF d = c THEN "unavailable" ELSE confirm[d].phase
     /\ confirm'[d].applied = confirm[d].applied
     /\ confirm'[d].link = confirm[d].link
     /\ confirm'[d].inTime = confirm[d].inTime
  <2>1. "unavailable" \in ConfirmPhase /\ ConfirmMoves(c, "unavailable")
    BY DEF ConfirmPhase, ConfirmFails
  <2>. QED
    BY <2>1, ConfirmMoved, TypeParts DEF IInv
<1>4. TypeOK'
  BY <1>1, <1>2, <1>3, TypeParts DEF IInv, AccountOK, LinkOK, RequestOK, RegisterOK, SessionOK, CallOK
<1>5. Past'
  BY <1>1 DEF IInv, Links, Past, Unused, Issued
<1>6. Held'
  <2>1. ASSUME NEW q \in Request, request'[q].phase = "issuing"
        PROVE  lock'[request'[q].user] = q /\ (request'[q].purpose = "verification" => ~account'[request'[q].user].verified)
    BY <1>1, <1>2, <2>1 DEF IInv, Links, Past, Held
  <2>2. ASSUME NEW d \in Confirmation, confirm'[d].phase = "consuming"
        PROVE  link'[confirm'[d].link].user = None \/ lock'[link'[confirm'[d].link].user] = d
    <3>1. d # c /\ confirm[d].phase = "consuming" /\ confirm'[d].link = confirm[d].link /\ confirm[d].link \in Request
      BY <1>3, <2>2 DEF IInv, Links, Posted
    <3>2. link[confirm[d].link].user \in User \cup {None}
      BY <3>1, TypeParts DEF IInv, LinkOK
    <3>. QED
      BY <1>1, <1>2, <3>1, <3>2 DEF IInv, Links, Held
  <2>. QED
    BY <2>1, <2>2 DEF Held
<1>7. Posted'
  BY <1>1, <1>3 DEF IInv, Links, Posted, Unused
<1>8. OneUnused' /\ VerifiedUnused'
  BY <1>1 DEF IInv, Links, OneUnused, VerifiedUnused, Unused
<1>9. SingleUse'
  BY <1>3 DEF IInv, Links, SingleUse
<1>10. Sessions' /\ Calls'
  BY <1>1 DEF IInv, Sessions, Calls, SessionKnowsPassword, RevokedSessionStaysOut
<1>. QED
  BY <1>4, <1>5, <1>6, <1>7, <1>8, <1>9, <1>10 DEF IInv, Links

--------------------------------------------------------------------------------
(* Registrations, sessions and calls *)

LEMMA RegisterLooksStep ==
  ASSUME IInv, NEW g \in Registration, NEW u \in User, RegisterLooks(g, u)
  PROVE  IInv'
<1>1. TypeOK'
  BY DEF IInv, TypeOK, RegisterLooks
<1>2. Links'
  BY DEF IInv, TypeOK, RegisterLooks, Links, Past, Held, Posted, OneUnused, VerifiedUnused, SingleUse, Unused, Issued
<1>3. Sessions' /\ Calls'
  BY DEF IInv, TypeOK, RegisterLooks, Sessions, Calls, SessionKnowsPassword, RevokedSessionStaysOut
<1>. QED
  BY <1>1, <1>2, <1>3 DEF IInv

LEMMA RegisterInsertsStep ==
  ASSUME IInv, NEW g \in Registration, RegisterInserts(g)
  PROVE  IInv'
<1>. DEFINE u == register[g].user
<1>1. UNCHANGED <<link, lock, request, confirm, session, call>>
  BY DEF RegisterInserts
<1>2. RegisterOK'
  BY TypeParts DEF IInv, RegisterInserts, RegisterOK
<1>3. AccountOK' /\ \A v \in User :
        /\ account'[v].version = account[v].version /\ account'[v].verified = account[v].verified
        /\ account[v].password # None => account'[v].password = account[v].password
  <2>1. CASE Exists(u)
    BY <2>1, TypeParts DEF IInv, RegisterInserts, AccountOK
  <2>2. CASE ~Exists(u)
    <3>1. account' = [account EXCEPT ![u].password = g] /\ AccountOK
      BY <2>2, TypeParts DEF IInv, RegisterInserts
    <3>2. AccountOK'
      BY <3>1 DEF AccountOK
    <3>3. ASSUME NEW v \in User
          PROVE  /\ account'[v].version = account[v].version /\ account'[v].verified = account[v].verified
                 /\ account[v].password # None => account'[v].password = account[v].password
      <4>1. account[v] \in [password : Password \cup {None}, version : Nat, verified : BOOLEAN]
        BY <3>1 DEF AccountOK
      <4>2. CASE v = u
        <5>1. account'[v] = [account[v] EXCEPT !.password = g]
          BY <3>1, <4>2 DEF AccountOK
        <5>. QED
          BY <2>2, <4>1, <4>2, <5>1 DEF Exists
      <4>3. CASE v # u
        BY <3>1, <4>3 DEF AccountOK
      <4>. QED
        BY <4>2, <4>3
    <3>. QED
      BY <3>2, <3>3
  <2>. QED
    BY <2>1, <2>2
<1>4. TypeOK'
  BY <1>1, <1>2, <1>3, TypeParts DEF IInv, RequestOK, LockOK, LinkOK, ConfirmOK, SessionOK, CallOK
<1>5. \A q \in Request : link[q].user \in User \cup {None}
  BY TypeParts DEF IInv, LinkOK
<1>6. Past' /\ Posted' /\ OneUnused' /\ SingleUse'
  BY <1>1 DEF IInv, Links, Past, Posted, OneUnused, SingleUse, Unused, Issued
<1>7. Held'
  BY <1>1, <1>3 DEF IInv, Links, Past, Held
<1>8. VerifiedUnused'
  BY <1>1, <1>3, <1>5 DEF IInv, Links, VerifiedUnused, Unused
<1>9. Sessions'
  BY <1>1, <1>3, TypeParts DEF IInv, Sessions, SessionKnowsPassword, SessionOK
<1>10. Calls'
  BY <1>1, <1>3, TypeParts DEF IInv, Calls, RevokedSessionStaysOut, SessionOK, CallOK
<1>. QED
  BY <1>4, <1>6, <1>7, <1>8, <1>9, <1>10 DEF IInv, Links

LEMMA LoginReadsStep ==
  ASSUME IInv, NEW s \in Session, NEW u \in User, LoginReads(s, u)
  PROVE  IInv'
<1>1. TypeOK'
  BY DEF IInv, TypeOK, LoginReads, Exists
<1>2. Links'
  BY DEF IInv, TypeOK, LoginReads, Exists, Links, Past, Held, Posted, OneUnused, VerifiedUnused, SingleUse, Unused, Issued
<1>3. Sessions' /\ Calls'
  BY DEF IInv, TypeOK, LoginReads, Exists, Sessions, Calls, SessionKnowsPassword, RevokedSessionStaysOut
<1>. QED
  BY <1>1, <1>2, <1>3 DEF IInv

LEMMA LoginAnswersStep ==
  ASSUME IInv, NEW s \in Session, LoginAnswers(s)
  PROVE  IInv'
<1>1. TypeOK'
  BY DEF IInv, TypeOK, LoginAnswers
<1>2. Links'
  BY DEF IInv, TypeOK, LoginAnswers, Links, Past, Held, Posted, OneUnused, VerifiedUnused, SingleUse, Unused, Issued
<1>3. Sessions' /\ Calls'
  BY DEF IInv, TypeOK, LoginAnswers, Sessions, Calls, SessionKnowsPassword, RevokedSessionStaysOut
<1>. QED
  BY <1>1, <1>2, <1>3 DEF IInv

LEMMA ArriveStep ==
  ASSUME IInv, NEW k \in Call, NEW s \in Session, Arrive(k, s)
  PROVE  IInv'
<1>1. TypeOK'
  BY DEF IInv, TypeOK, Arrive
<1>2. Links'
  BY DEF IInv, TypeOK, Arrive, Links, Past, Held, Posted, OneUnused, VerifiedUnused, SingleUse, Unused, Issued
<1>3. Sessions' /\ Calls'
  BY DEF IInv, TypeOK, Arrive, Sessions, Calls, SessionKnowsPassword, RevokedSessionStaysOut
<1>. QED
  BY <1>1, <1>2, <1>3 DEF IInv

CallMoves(k, phase) == call' = [call EXCEPT ![k].phase = phase]

LEMMA EnforceStep ==
  ASSUME IInv, NEW k \in Call, Enforce(k)
  PROVE  IInv'
<1>1. UNCHANGED <<account, link, lock, request, confirm, register, session>> /\ call[k].phase = "arrived"
  BY DEF Enforce
<1>2. PICK phase \in {"admitted", "refused"} :
        /\ CallMoves(k, phase)
        /\ phase = "admitted" =>
             session[call[k].session].version = account[session[call[k].session].user].version
  BY DEF Enforce, CallMoves
<1>3. CallOK' /\ \A j \in Call :
        /\ call'[j].phase = IF j = k THEN phase ELSE call[j].phase
        /\ call'[j].session = call[j].session
        /\ call'[j].arrived = call[j].arrived
  <2>1. CallOK
    BY TypeParts DEF IInv
  <2>2. \A j \in Call \ {k} : call'[j] = call[j]
    BY <1>2, <2>1 DEF CallMoves, CallOK
  <2>3. call'[k] = [phase |-> phase, session |-> call[k].session, arrived |-> call[k].arrived]
    BY <1>2, <2>1 DEF CallMoves, CallOK
  <2>4. CallOK'
    BY <1>1, <1>2, <2>1 DEF CallMoves, CallOK
  <2>. QED
    BY <2>2, <2>3, <2>4
<1>4. TypeOK'
  BY <1>1, <1>3, TypeParts DEF IInv, RequestOK, LockOK, LinkOK, AccountOK, ConfirmOK, SessionOK, RegisterOK
<1>5. Links'
  BY <1>1 DEF IInv, Links, Past, Held, Posted, OneUnused, VerifiedUnused, SingleUse, Unused, Issued
<1>6. Sessions'
  BY <1>1 DEF IInv, Sessions, SessionKnowsPassword
<1>7. Calls'
  <2>1. ASSUME NEW j \in Call, call'[j].phase # "idle"
        PROVE  /\ session'[call'[j].session].phase = "open"
               /\ call'[j].arrived <= account'[session'[call'[j].session].user].version
    BY <1>1, <1>3, <2>1 DEF IInv, Calls
  <2>2. ASSUME NEW j \in Call, call'[j].phase \in {"admitted", "served"}
        PROVE  session'[call'[j].session].version >= call'[j].arrived
    <3>1. CASE j = k
      <4>1. call[k].arrived <= account[session[call[k].session].user].version
        BY <1>1 DEF IInv, Calls
      <4>2. session[call[k].session].version = account[session[call[k].session].user].version
        BY <1>2, <1>3, <2>2, <3>1
      <4>3. call[k].arrived \in Nat /\ session[call[k].session].version \in Nat
        BY <1>1, TypeParts DEF IInv, CallOK, SessionOK
      <4>. QED
        BY <1>1, <1>3, <3>1, <4>1, <4>2, <4>3
    <3>2. CASE j # k
      BY <1>1, <1>3, <2>2, <3>2 DEF IInv, Calls, RevokedSessionStaysOut
    <3>. QED
      BY <3>1, <3>2
  <2>. QED
    BY <2>1, <2>2 DEF Calls, RevokedSessionStaysOut
<1>. QED
  BY <1>4, <1>5, <1>6, <1>7 DEF IInv

LEMMA ServeStep ==
  ASSUME IInv, NEW k \in Call, Serve(k)
  PROVE  IInv'
<1>1. TypeOK'
  BY DEF IInv, TypeOK, Serve
<1>2. Links'
  BY DEF IInv, TypeOK, Serve, Links, Past, Held, Posted, OneUnused, VerifiedUnused, SingleUse, Unused, Issued
<1>3. Sessions' /\ Calls'
  BY DEF IInv, TypeOK, Serve, Sessions, Calls, SessionKnowsPassword, RevokedSessionStaysOut
<1>. QED
  BY <1>1, <1>2, <1>3 DEF IInv

--------------------------------------------------------------------------------
(* Theorems *)

LEMMA NextIInv == IInv /\ [Next]_vars => IInv'
<1>. SUFFICES ASSUME IInv, [Next]_vars PROVE IInv'
  OBVIOUS
<1>1. CASE UNCHANGED vars
  <2>1. TypeOK'
    BY <1>1 DEF IInv, TypeOK, vars
  <2>2. Links'
    BY <1>1 DEF IInv, Links, Past, Held, Posted, OneUnused, VerifiedUnused, SingleUse, Unused, vars
  <2>3. Sessions' /\ Calls'
    BY <1>1 DEF IInv, Sessions, Calls, SessionKnowsPassword, RevokedSessionStaysOut, vars
  <2>. QED
    BY <2>1, <2>2, <2>3 DEF IInv
<1>2. ASSUME NEW r \in Request, NEW u \in User, NEW p \in Purpose, Find(r, u, p) PROVE IInv'
  BY <1>2, FindStep
<1>3. ASSUME NEW r \in Request, IssueLocks(r) PROVE IInv'
  BY <1>3, IssueLocksStep
<1>4. ASSUME NEW r \in Request, IssueCommits(r) PROVE IInv'
  BY <1>4, IssueCommitsStep
<1>5. ASSUME NEW r \in Request, Mail(r) PROVE IInv'
  BY <1>5, MailStep
<1>6. ASSUME NEW r \in Request, RequestFails(r) PROVE IInv'
  BY <1>6, RequestFailsStep
<1>7. ASSUME NEW r \in Request, Revoke(r) PROVE IInv'
  BY <1>7, RevokeStep
<1>8. ASSUME NEW r \in Request, Expire(r) PROVE IInv'
  BY <1>8, ExpireStep
<1>9. ASSUME NEW r \in Request, Cleanup(r) PROVE IInv'
  BY <1>9, CleanupStep
<1>10. ASSUME NEW r \in Request, CrashRequest(r) PROVE IInv'
  BY <1>10, CrashRequestStep
<1>11. ASSUME NEW c \in Confirmation, NEW r \in Request, Post(c, r) PROVE IInv'
  BY <1>11, PostStep
<1>12. ASSUME NEW c \in Confirmation, ConsumeLocks(c) PROVE IInv'
  BY <1>12, ConsumeLocksStep
<1>13. ASSUME NEW c \in Confirmation, ConsumeCommits(c) PROVE IInv'
  BY <1>13, ConsumeCommitsStep
<1>14. ASSUME NEW c \in Confirmation, ConfirmFails(c) PROVE IInv'
  BY <1>14, ConfirmFailsStep
<1>15. ASSUME NEW g \in Registration, NEW u \in User, RegisterLooks(g, u) PROVE IInv'
  BY <1>15, RegisterLooksStep
<1>16. ASSUME NEW g \in Registration, RegisterInserts(g) PROVE IInv'
  BY <1>16, RegisterInsertsStep
<1>17. ASSUME NEW s \in Session, NEW u \in User, LoginReads(s, u) PROVE IInv'
  BY <1>17, LoginReadsStep
<1>18. ASSUME NEW s \in Session, LoginAnswers(s) PROVE IInv'
  BY <1>18, LoginAnswersStep
<1>19. ASSUME NEW k \in Call, NEW s \in Session, Arrive(k, s) PROVE IInv'
  BY <1>19, ArriveStep
<1>20. ASSUME NEW k \in Call, Enforce(k) PROVE IInv'
  BY <1>20, EnforceStep
<1>21. ASSUME NEW k \in Call, Serve(k) PROVE IInv'
  BY <1>21, ServeStep
<1>. QED
  BY <1>1, <1>2, <1>3, <1>4, <1>5, <1>6, <1>7, <1>8, <1>9, <1>10, <1>11, <1>12, <1>13, <1>14, <1>15,
     <1>16, <1>17, <1>18, <1>19, <1>20, <1>21 DEF Next

LEMMA Invariant == Spec => []IInv
BY InitIInv, NextIInv, PTL DEF Spec

\* Every variable keeps its type.
THEOREM TypeCorrect == Spec => []TypeOK
<1>1. IInv => TypeOK
  BY DEF IInv
<1>. QED
  BY <1>1, Invariant, PTL

\* However many requests, confirmations and revocations cross, an account has
\* at most one link of a purpose that works: issue in src/authFlows.js.
THEOREM OneLinkWorks == Spec => []OneLiveLink
<1>1. IInv => OneLiveLink
  BY DEF IInv, Links, OneUnused, OneLiveLink, Live, Unused
<1>. QED
  BY <1>1, Invariant, PTL

\* No verification link of a verified address works.
THEOREM VerifiedHasNoLink == Spec => []VerifiedNeedsNoLink
<1>1. IInv => VerifiedNeedsNoLink
  BY DEF IInv, Links, VerifiedUnused, VerifiedNeedsNoLink, Live, Unused
<1>. QED
  BY <1>1, Invariant, PTL

\* A link changes its account once, whichever posts of its token are at work:
\* consume in src/authFlows.js.
THEOREM LinkWorksOnce == Spec => []SingleUse
<1>1. IInv => SingleUse
  BY DEF IInv, Links
<1>. QED
  BY <1>1, Invariant, PTL

\* A link whose delivery was reported as failed and that was revoked is dead.
THEOREM RevokedLinksAreDead == Spec => []RevokedLinkIsDead
<1>1. IInv => RevokedLinkIsDead
  BY DEF IInv, Links, Past, RevokedLinkIsDead, Live, Unused
<1>. QED
  BY <1>1, Invariant, PTL

\* A session that is still current was opened with the password the account
\* has now, and what arrives after a reset is not served under an older one:
\* enforceCredentialVersion in src/authFlows.js.
THEOREM SessionsKnowPasswords == Spec => []SessionKnowsPassword
<1>1. IInv => SessionKnowsPassword
  BY DEF IInv, Sessions
<1>. QED
  BY <1>1, Invariant, PTL

\* A reset shuts the sessions from before it out.
THEOREM RevokedSessionsStayOut == Spec => []RevokedSessionStaysOut
<1>1. IInv => RevokedSessionStaysOut
  BY DEF IInv, Calls
<1>. QED
  BY <1>1, Invariant, PTL

\* No step but the commit of a reset replaces a password, and it raises the
\* version by one: registering an address again changes nothing.
THEOREM OnlyResetsReplace == Spec => PasswordChangesByReset
<1>. DEFINE Raised(u) == account[u].password \notin {None, account'[u].password}
                           => account'[u].version = account[u].version + 1
<1>1. ASSUME IInv, [Next]_vars, NEW u \in User PROVE Raised(u)
  <2>1. CASE account' = account
    BY <2>1
  <2>2. ASSUME NEW g \in Registration, RegisterInserts(g) PROVE Raised(u)
    <3>1. AccountOK
      BY <1>1, TypeParts DEF IInv
    <3>2. CASE register[g].user = u /\ ~Exists(u)
      BY <3>2 DEF Exists
    <3>3. CASE register[g].user # u \/ Exists(register[g].user)
      BY <2>2, <3>1, <3>3 DEF RegisterInserts, AccountOK
    <3>. QED
      BY <3>2, <3>3
  <2>3. ASSUME NEW c \in Confirmation, ConsumeCommits(c) PROVE Raised(u)
    <3>1. CASE ~Consumable(c)
      BY <2>1, <2>3, <3>1 DEF ConsumeCommits
    <3>2. CASE Consumable(c)
      <4>1. AccountOK /\ LinkOK /\ confirm[c].link \in Request
        BY <1>1, <2>3, TypeParts DEF IInv, Links, Posted, ConsumeCommits
      <4>2. link[confirm[c].link].user \in User
        BY <3>2, <4>1 DEF Consumable, LinkOK
      <4>3. Apply(c)
        BY <2>3, <3>2 DEF ConsumeCommits
      <4>4. account[u].password # account'[u].password => account'[u].version = account[u].version + 1
        BY <4>1, <4>2, <4>3, Applied
      <4>. QED
        BY <4>4
    <3>. QED
      BY <3>1, <3>2
  <2>. HIDE DEF Raised
  <2>. QED
    BY <1>1, <2>1, <2>2, <2>3 DEF Next, vars, Find, IssueLocks, IssueCommits, Mail, RequestFails, Revoke, Expire, Cleanup,
       CrashRequest, Post, ConsumeLocks, ConfirmFails, RegisterLooks, LoginReads, LoginAnswers, Arrive, Enforce, Serve
<1>2. IInv /\ [Next]_vars => [\A u \in User : Raised(u)]_vars
  BY <1>1
<1>. QED
  BY <1>2, Invariant, PTL DEF Spec, PasswordChangesByReset

\* Links are single, work once and never after they were revoked, and a verified
\* account has none: src/authFlows.js.
THEOREM LinksStaySound == Spec => []LinksAreSound
BY TypeCorrect, OneLinkWorks, VerifiedHasNoLink, LinkWorksOnce, RevokedLinksAreDead, PTL DEF LinksAreSound

\* A session stems from the password of its version and stays out once revoked,
\* and only a reset changes a password: src/authFlows.js, src/db.js.
THEOREM SessionsStaySound == Spec => SessionsAreSound
BY SessionsKnowPasswords, RevokedSessionsStayOut, OnlyResetsReplace, PTL DEF SessionsAreSound

--------------------------------------------------------------------------------
(* What visitors are told of prices. *)

\* What is stored and read.
Check   == [at : 0..now, failed : BOOLEAN, available : SUBSET Request]
Stamps  == [Request -> (0..now) \cup {None}]
Findings == [Request -> {"price", "negative", None}]

\* The parts of Prices!TypeOK.
FlagsTyped   == now \in Prices!Time /\ failing \in BOOLEAN /\ owing \in BOOLEAN
TablesTyped  == row \in Stamps /\ (check = None \/ check \in Check) /\ latest \in Findings
RefreshTyped == refresh = None \/ refresh \in [began : 0..now, pending : SUBSET Request, price : Stamps]
VisitsTyped  == visit \in [Visitor -> {"idle", "read", "waiting", "told"}] /\ told \in [Visitor -> [Request -> Prices!Answers]]
PricesStored == refresh # None => \A r \in Request : refresh.price[r] # None => row[r] # None /\ row[r] >= refresh.price[r]

\* What a reader of a copy would be shown was the last finding when it was read.
CopiesTyped == copy \in [Visitor -> [row : Stamps, check : Check \cup {None}, latest : Findings]]
Backed(c) == \A r \in Request : c.row[r] # None /\ ~Prices!Hidden(c, r) => c.latest[r] = "price"
TablesBacked == Backed([row |-> row, check |-> check, latest |-> latest])
CopiesBacked == \A v \in Visitor : Backed(copy[v])

\* Who asks has not been told yet.
IdleIsUntold == \A v \in Visitor : visit[v] = "idle" => told[v] = Prices!Nothing

PricesInv ==
  /\ Prices!TypeOK /\ CopiesTyped /\ TablesBacked /\ CopiesBacked /\ IdleIsUntold
  /\ Prices!NoOfferAfterNegative /\ Prices!NoMixture

LEMMA PricesTypeParts ==
  Prices!TypeOK <=> FlagsTyped /\ TablesTyped /\ RefreshTyped /\ VisitsTyped /\ PricesStored
BY DEF Prices!TypeOK, FlagsTyped, TablesTyped, RefreshTyped, VisitsTyped, PricesStored, Check, Stamps, Findings

USE DEF Prices!Assumptions, Prices!Time, Prices!stored

LEMMA PricesTickKeeps ==
  ASSUME Prices!Assumptions, PricesInv, Prices!Tick
  PROVE  PricesInv'
<1>. FlagsTyped /\ TablesTyped /\ RefreshTyped /\ VisitsTyped /\ PricesStored
  BY PricesTypeParts DEF PricesInv
<1>1. FlagsTyped' /\ TablesTyped'
  BY DEF FlagsTyped, TablesTyped, Check, Stamps, Prices!Tick
<1>2. RefreshTyped'
  BY DEF FlagsTyped, RefreshTyped, Stamps, Prices!Tick
<1>3. PricesStored'
  BY DEF PricesStored, Prices!Tick
<1>4. VisitsTyped'
  BY DEF VisitsTyped, Prices!Tick
<1>5. CopiesTyped'
  BY DEF PricesInv, CopiesTyped, FlagsTyped, Check, Stamps, Prices!Tick
<1>6. TablesBacked'
  BY DEF PricesInv, TablesBacked, Prices!Tick
<1>7. CopiesBacked'
  BY DEF PricesInv, CopiesBacked, TablesBacked, Prices!Tick
<1>8. IdleIsUntold'
  BY DEF PricesInv, IdleIsUntold, Prices!Tick
<1>9. Prices!NoOfferAfterNegative'
  BY DEF PricesInv, Prices!NoOfferAfterNegative, Prices!Tick
<1>10. Prices!NoMixture'
  BY DEF PricesInv, Prices!NoMixture, Prices!Tick
<1>11. Prices!TypeOK'
  BY <1>1, <1>2, <1>3, <1>4
  DEF Prices!TypeOK, FlagsTyped, TablesTyped, RefreshTyped, VisitsTyped, PricesStored, Check, Stamps, Findings
<1> QED
  BY <1>5, <1>6, <1>7, <1>8, <1>9, <1>10, <1>11 DEF PricesInv

LEMMA PricesStartRefreshKeeps ==
  ASSUME Prices!Assumptions, PricesInv, Prices!StartRefresh
  PROVE  PricesInv'
<1>. FlagsTyped /\ TablesTyped /\ RefreshTyped /\ VisitsTyped /\ PricesStored
  BY PricesTypeParts DEF PricesInv
<1>1. FlagsTyped' /\ TablesTyped'
  BY DEF FlagsTyped, TablesTyped, Check, Stamps, Prices!StartRefresh
<1>2. RefreshTyped'
  BY DEF FlagsTyped, RefreshTyped, Stamps, Prices!StartRefresh, Prices!NewRefresh
<1>3. PricesStored'
  BY DEF PricesStored, Prices!StartRefresh, Prices!NewRefresh
<1>4. VisitsTyped'
  BY DEF VisitsTyped, Prices!StartRefresh
<1>5. CopiesTyped'
  BY DEF PricesInv, CopiesTyped, Check, Stamps, Prices!StartRefresh
<1>6. TablesBacked'
  BY DEF PricesInv, TablesBacked, Prices!StartRefresh
<1>7. CopiesBacked'
  BY DEF PricesInv, CopiesBacked, TablesBacked, Prices!StartRefresh
<1>8. IdleIsUntold'
  BY DEF PricesInv, IdleIsUntold, Prices!StartRefresh
<1>9. Prices!NoOfferAfterNegative'
  BY DEF PricesInv, Prices!NoOfferAfterNegative, Prices!StartRefresh
<1>10. Prices!NoMixture'
  BY DEF PricesInv, Prices!NoMixture, Prices!StartRefresh
<1>11. Prices!TypeOK'
  BY <1>1, <1>2, <1>3, <1>4
  DEF Prices!TypeOK, FlagsTyped, TablesTyped, RefreshTyped, VisitsTyped, PricesStored, Check, Stamps, Findings
<1> QED
  BY <1>5, <1>6, <1>7, <1>8, <1>9, <1>10, <1>11 DEF PricesInv

LEMMA PricesStorePriceKeeps ==
  ASSUME Prices!Assumptions, PricesInv, NEW r \in Request, NEW at \in Prices!Time, Prices!StorePrice(r, at)
  PROVE  PricesInv'
<1>. FlagsTyped /\ TablesTyped /\ RefreshTyped /\ VisitsTyped /\ PricesStored
  BY PricesTypeParts DEF PricesInv
<1>1. FlagsTyped' /\ TablesTyped'
  BY DEF FlagsTyped, TablesTyped, Check, Stamps, Findings, Prices!StorePrice, Prices!Newest
<1>2. RefreshTyped'
  <2>1. refresh' = [began |-> refresh.began, pending |-> refresh.pending \ {r}, price |-> [refresh.price EXCEPT ![r] = at]]
    BY DEF RefreshTyped, Prices!StorePrice
  <2> QED
    BY <2>1 DEF RefreshTyped, Stamps, Prices!StorePrice
<1>3. PricesStored'
  BY DEF TablesTyped, RefreshTyped, PricesStored, Stamps, Prices!StorePrice, Prices!Newest
<1>4. VisitsTyped'
  BY DEF VisitsTyped, Prices!StorePrice
<1>5. CopiesTyped'
  BY DEF PricesInv, CopiesTyped, Check, Stamps, Prices!StorePrice
<1>6. TablesBacked'
  BY DEF PricesInv, TablesBacked, Backed, TablesTyped, Findings, Prices!Hidden, Prices!StorePrice
<1>7. CopiesBacked'
  BY DEF PricesInv, CopiesBacked, TablesBacked, Prices!StorePrice
<1>8. IdleIsUntold'
  BY DEF PricesInv, IdleIsUntold, Prices!StorePrice
<1>9. Prices!NoOfferAfterNegative'
  BY DEF PricesInv, Prices!NoOfferAfterNegative, Prices!StorePrice
<1>10. Prices!NoMixture'
  BY DEF PricesInv, Prices!NoMixture, Prices!StorePrice
<1>11. Prices!TypeOK'
  BY <1>1, <1>2, <1>3, <1>4
  DEF Prices!TypeOK, FlagsTyped, TablesTyped, RefreshTyped, VisitsTyped, PricesStored, Check, Stamps, Findings
<1> QED
  BY <1>5, <1>6, <1>7, <1>8, <1>9, <1>10, <1>11 DEF PricesInv

LEMMA PricesStoreUnansweredKeeps ==
  ASSUME Prices!Assumptions, PricesInv, NEW r \in Request, Prices!StoreUnanswered(r)
  PROVE  PricesInv'
<1>. FlagsTyped /\ TablesTyped /\ RefreshTyped /\ VisitsTyped /\ PricesStored
  BY PricesTypeParts DEF PricesInv
<1>1. FlagsTyped' /\ TablesTyped'
  BY DEF FlagsTyped, TablesTyped, Check, Stamps, Findings, Prices!StoreUnanswered
<1>2. RefreshTyped'
  BY DEF RefreshTyped, Stamps, Prices!StoreUnanswered
<1>3. PricesStored'
  BY DEF FlagsTyped, RefreshTyped, PricesStored, Stamps, Prices!StoreUnanswered
<1>4. VisitsTyped'
  BY DEF VisitsTyped, Prices!StoreUnanswered
<1>5. CopiesTyped'
  BY DEF PricesInv, CopiesTyped, Check, Stamps, Prices!StoreUnanswered
<1>6. TablesBacked'
  BY DEF PricesInv, TablesBacked, Backed, TablesTyped, Findings, Prices!Hidden, Prices!StoreUnanswered
<1>7. CopiesBacked'
  BY DEF PricesInv, CopiesBacked, TablesBacked, Prices!StoreUnanswered
<1>8. IdleIsUntold'
  BY DEF PricesInv, IdleIsUntold, Prices!StoreUnanswered
<1>9. Prices!NoOfferAfterNegative'
  BY DEF PricesInv, Prices!NoOfferAfterNegative, Prices!StoreUnanswered
<1>10. Prices!NoMixture'
  BY DEF PricesInv, Prices!NoMixture, Prices!StoreUnanswered
<1>11. Prices!TypeOK'
  BY <1>1, <1>2, <1>3, <1>4
  DEF Prices!TypeOK, FlagsTyped, TablesTyped, RefreshTyped, VisitsTyped, PricesStored, Check, Stamps, Findings
<1> QED
  BY <1>5, <1>6, <1>7, <1>8, <1>9, <1>10, <1>11 DEF PricesInv

LEMMA PricesNoPriceKeeps ==
  ASSUME Prices!Assumptions, PricesInv, NEW r \in Request, Prices!NoPrice(r)
  PROVE  PricesInv'
<1>. FlagsTyped /\ TablesTyped /\ RefreshTyped /\ VisitsTyped /\ PricesStored
  BY PricesTypeParts DEF PricesInv
<1>1. FlagsTyped' /\ TablesTyped'
  BY DEF FlagsTyped, TablesTyped, Check, Stamps, Prices!NoPrice
<1>2. RefreshTyped'
  BY DEF RefreshTyped, Stamps, Prices!NoPrice
<1>3. PricesStored'
  BY DEF PricesStored, Prices!NoPrice
<1>4. VisitsTyped'
  BY DEF VisitsTyped, Prices!NoPrice
<1>5. CopiesTyped'
  BY DEF PricesInv, CopiesTyped, Check, Stamps, Prices!NoPrice
<1>6. TablesBacked'
  BY DEF PricesInv, TablesBacked, Prices!NoPrice
<1>7. CopiesBacked'
  BY DEF PricesInv, CopiesBacked, TablesBacked, Prices!NoPrice
<1>8. IdleIsUntold'
  BY DEF PricesInv, IdleIsUntold, Prices!NoPrice
<1>9. Prices!NoOfferAfterNegative'
  BY DEF PricesInv, Prices!NoOfferAfterNegative, Prices!NoPrice
<1>10. Prices!NoMixture'
  BY DEF PricesInv, Prices!NoMixture, Prices!NoPrice
<1>11. Prices!TypeOK'
  BY <1>1, <1>2, <1>3, <1>4
  DEF Prices!TypeOK, FlagsTyped, TablesTyped, RefreshTyped, VisitsTyped, PricesStored, Check, Stamps, Findings
<1> QED
  BY <1>5, <1>6, <1>7, <1>8, <1>9, <1>10, <1>11 DEF PricesInv

LEMMA PricesRecordCheckKeeps ==
  ASSUME Prices!Assumptions, PricesInv, Prices!RecordCheck
  PROVE  PricesInv'
<1>. FlagsTyped /\ TablesTyped /\ RefreshTyped /\ VisitsTyped /\ PricesStored
  BY PricesTypeParts DEF PricesInv
<1>1. FlagsTyped' /\ TablesTyped'
  <2>1. now' = now /\ row' = row /\ check' = [at |-> now, failed |-> FALSE, available |-> Prices!Available]
    BY DEF Prices!RecordCheck
  <2>2. check' \in Check'
    BY <2>1 DEF FlagsTyped, Check, Prices!Available
  <2>3. latest' \in Findings
    BY DEF Findings, Prices!RecordCheck
  <2> QED
    BY <2>1, <2>2, <2>3 DEF FlagsTyped, TablesTyped, Stamps, Prices!RecordCheck, Prices!Settle
<1>2. RefreshTyped'
  BY DEF RefreshTyped, Prices!RecordCheck, Prices!Settle
<1>3. PricesStored'
  BY DEF PricesStored, Prices!RecordCheck, Prices!Settle
<1>4. VisitsTyped'
  BY DEF FlagsTyped, RefreshTyped, VisitsTyped, Prices!Answers, Stamps, Prices!RecordCheck, Prices!Settle
<1>5. CopiesTyped'
  BY DEF PricesInv, CopiesTyped, Check, Stamps, Prices!RecordCheck
<1>6. TablesBacked'
  <2>1. /\ now' = now /\ row' = row /\ check' = [at |-> now, failed |-> FALSE, available |-> Prices!Available]
        /\ \A r \in Request : latest'[r] = IF r \in Prices!Available THEN "price" ELSE "negative"
    BY DEF Prices!RecordCheck
  <2>2. check' # None
    <3>1. check' \in [at : Nat, failed : BOOLEAN, available : SUBSET Request]
      BY <2>1 DEF FlagsTyped, Prices!Available
    <3> QED
      BY <3>1
  <2>3. \A r \in Request : row[r] = None \/ now >= row[r]
    BY DEF TablesTyped, Stamps
  <2> QED
    BY <2>1, <2>2, <2>3 DEF TablesBacked, Backed, Prices!Hidden
<1>7. CopiesBacked'
  BY DEF PricesInv, CopiesBacked, TablesBacked, Prices!RecordCheck
<1>8. IdleIsUntold'
  BY DEF PricesInv, IdleIsUntold, Prices!RecordCheck, Prices!Settle
<1>9. Prices!NoOfferAfterNegative'
  BY DEF PricesInv, Prices!NoOfferAfterNegative, Prices!RecordCheck, Prices!Settle
<1>10. Prices!NoMixture'
  BY DEF PricesInv, Prices!NoMixture, Prices!RecordCheck, Prices!Settle
<1>11. Prices!TypeOK'
  BY <1>1, <1>2, <1>3, <1>4
  DEF Prices!TypeOK, FlagsTyped, TablesTyped, RefreshTyped, VisitsTyped, PricesStored, Check, Stamps, Findings
<1> QED
  BY <1>5, <1>6, <1>7, <1>8, <1>9, <1>10, <1>11 DEF PricesInv

LEMMA PricesRefreshFailsKeeps ==
  ASSUME Prices!Assumptions, PricesInv, Prices!RefreshFails
  PROVE  PricesInv'
<1>. FlagsTyped /\ TablesTyped /\ RefreshTyped /\ VisitsTyped /\ PricesStored
  BY PricesTypeParts DEF PricesInv
<1>1. FlagsTyped' /\ TablesTyped'
  BY DEF FlagsTyped, TablesTyped, Check, Stamps, Prices!RefreshFails, Prices!Settle
<1>2. RefreshTyped'
  BY DEF RefreshTyped, Prices!RefreshFails, Prices!Settle
<1>3. PricesStored'
  BY DEF PricesStored, Prices!RefreshFails, Prices!Settle
<1>4. VisitsTyped'
  BY DEF VisitsTyped, Prices!Answers, Prices!RefreshFails, Prices!Settle
<1>5. CopiesTyped'
  BY DEF PricesInv, CopiesTyped, Check, Stamps, Prices!RefreshFails
<1>6. TablesBacked'
  BY DEF PricesInv, TablesBacked, Prices!RefreshFails
<1>7. CopiesBacked'
  BY DEF PricesInv, CopiesBacked, TablesBacked, Prices!RefreshFails
<1>8. IdleIsUntold'
  BY DEF PricesInv, IdleIsUntold, Prices!RefreshFails, Prices!Settle
<1>9. Prices!NoOfferAfterNegative'
  BY DEF PricesInv, Prices!NoOfferAfterNegative, Prices!RefreshFails, Prices!Settle
<1>10. Prices!NoMixture'
  BY DEF PricesInv, Prices!NoMixture, Prices!RefreshFails, Prices!Settle
<1>11. Prices!TypeOK'
  BY <1>1, <1>2, <1>3, <1>4
  DEF Prices!TypeOK, FlagsTyped, TablesTyped, RefreshTyped, VisitsTyped, PricesStored, Check, Stamps, Findings
<1> QED
  BY <1>5, <1>6, <1>7, <1>8, <1>9, <1>10, <1>11 DEF PricesInv

LEMMA PricesRecordFailureKeeps ==
  ASSUME Prices!Assumptions, PricesInv, Prices!RecordFailure
  PROVE  PricesInv'
<1>. FlagsTyped /\ TablesTyped /\ RefreshTyped /\ VisitsTyped /\ PricesStored
  BY PricesTypeParts DEF PricesInv
<1>1. FlagsTyped' /\ TablesTyped'
  <2>1. now' = now /\ row' = row /\ check' = [at |-> now, failed |-> TRUE, available |-> {}]
    BY DEF Prices!RecordFailure
  <2>2. check' \in Check'
    BY <2>1 DEF FlagsTyped, Check
  <2>3. latest' \in Findings
    BY DEF Findings, Prices!RecordFailure
  <2> QED
    BY <2>1, <2>2, <2>3 DEF FlagsTyped, TablesTyped, Stamps, Prices!RecordFailure
<1>2. RefreshTyped'
  BY DEF RefreshTyped, Stamps, Prices!RecordFailure
<1>3. PricesStored'
  BY DEF PricesStored, Prices!RecordFailure
<1>4. VisitsTyped'
  BY DEF VisitsTyped, Prices!RecordFailure
<1>5. CopiesTyped'
  BY DEF PricesInv, CopiesTyped, Check, Stamps, Prices!RecordFailure
<1>6. TablesBacked'
  <2>1. /\ now' = now /\ row' = row /\ check' = [at |-> now, failed |-> TRUE, available |-> {}]
        /\ \A r \in Request : latest'[r] = IF r \in {} THEN "price" ELSE "negative"
    BY DEF Prices!RecordFailure
  <2>2. check' # None
    <3>1. check' \in [at : Nat, failed : BOOLEAN, available : SUBSET Request]
      BY <2>1 DEF FlagsTyped
    <3> QED
      BY <3>1
  <2>3. \A r \in Request : row[r] = None \/ now >= row[r]
    BY DEF TablesTyped, Stamps
  <2> QED
    BY <2>1, <2>2, <2>3 DEF TablesBacked, Backed, Prices!Hidden
<1>7. CopiesBacked'
  BY DEF PricesInv, CopiesBacked, TablesBacked, Prices!RecordFailure
<1>8. IdleIsUntold'
  BY DEF PricesInv, IdleIsUntold, Prices!RecordFailure
<1>9. Prices!NoOfferAfterNegative'
  BY DEF PricesInv, Prices!NoOfferAfterNegative, Prices!RecordFailure
<1>10. Prices!NoMixture'
  BY DEF PricesInv, Prices!NoMixture, Prices!RecordFailure
<1>11. Prices!TypeOK'
  BY <1>1, <1>2, <1>3, <1>4
  DEF Prices!TypeOK, FlagsTyped, TablesTyped, RefreshTyped, VisitsTyped, PricesStored, Check, Stamps, Findings
<1> QED
  BY <1>5, <1>6, <1>7, <1>8, <1>9, <1>10, <1>11 DEF PricesInv

LEMMA PricesReadKeeps ==
  ASSUME Prices!Assumptions, PricesInv, NEW v \in Visitor, Prices!Read(v)
  PROVE  PricesInv'
<1>. FlagsTyped /\ TablesTyped /\ RefreshTyped /\ VisitsTyped /\ PricesStored
  BY PricesTypeParts DEF PricesInv
<1>1. FlagsTyped' /\ TablesTyped'
  BY DEF FlagsTyped, TablesTyped, Check, Stamps, Prices!Read
<1>2. RefreshTyped'
  BY DEF RefreshTyped, Stamps, Prices!Read
<1>3. PricesStored'
  BY DEF PricesStored, Prices!Read
<1>4. VisitsTyped'
  BY DEF VisitsTyped, Prices!Read
<1>5. CopiesTyped'
  BY DEF PricesInv, CopiesTyped, TablesTyped, Check, Stamps, Prices!Read
<1>6. TablesBacked'
  BY DEF PricesInv, TablesBacked, Prices!Read
<1>7. CopiesBacked'
  BY DEF PricesInv, CopiesBacked, TablesBacked, Prices!Read
<1>8. IdleIsUntold'
  BY DEF PricesInv, IdleIsUntold, Prices!Read
<1>9. Prices!NoOfferAfterNegative'
  BY DEF PricesInv, IdleIsUntold, Prices!NoOfferAfterNegative, Prices!Nothing, Prices!Read
<1>10. Prices!NoMixture'
  BY DEF PricesInv, Prices!NoMixture, Prices!Read
<1>11. Prices!TypeOK'
  BY <1>1, <1>2, <1>3, <1>4
  DEF Prices!TypeOK, FlagsTyped, TablesTyped, RefreshTyped, VisitsTyped, PricesStored, Check, Stamps, Findings
<1> QED
  BY <1>5, <1>6, <1>7, <1>8, <1>9, <1>10, <1>11 DEF PricesInv

LEMMA PricesAnswerCachedKeeps ==
  ASSUME Prices!Assumptions, PricesInv, NEW v \in Visitor, Prices!AnswerCached(v)
  PROVE  PricesInv'
<1>. FlagsTyped /\ TablesTyped /\ RefreshTyped /\ VisitsTyped /\ PricesStored
  BY PricesTypeParts DEF PricesInv
<1>1. FlagsTyped' /\ TablesTyped'
  BY DEF FlagsTyped, TablesTyped, Check, Stamps, Prices!AnswerCached
<1>2. RefreshTyped'
  BY DEF FlagsTyped, RefreshTyped, Stamps, Prices!AnswerCached, Prices!NewRefresh
<1>3. PricesStored'
  BY DEF PricesStored, Prices!AnswerCached, Prices!NewRefresh
<1>4. VisitsTyped'
  <2>1. \A r \in Request : Prices!FromCache(copy[v])[r] \in Prices!Answers /\ Prices!FromCache(copy[v])[r].kind \in {"missing", "cached", "progress"}
    <3> SUFFICES ASSUME NEW r \in Request
                 PROVE  /\ Prices!FromCache(copy[v])[r] \in Prices!Answers
                        /\ Prices!FromCache(copy[v])[r].kind \in {"missing", "cached", "progress"}
      OBVIOUS
    <3>1. /\ Prices!Observed(copy[v], r).kind \in {"none", "missing", "cached"}
          /\ Prices!Observed(copy[v], r).at \in Prices!Time \cup {None}
      BY DEF PricesInv, CopiesTyped, FlagsTyped, Stamps, Check, Prices!Observed, Prices!Hidden
    <3> QED
      BY <3>1 DEF Prices!FromCache, Prices!Answers
  <2>2. Prices!FromCache(copy[v]) \in [Request -> Prices!Answers]
    BY <2>1 DEF Prices!FromCache
  <2> QED
    BY <2>2 DEF VisitsTyped, Prices!AnswerCached
<1>5. CopiesTyped'
  BY DEF PricesInv, CopiesTyped, Check, Stamps, Prices!AnswerCached
<1>6. TablesBacked'
  BY DEF PricesInv, TablesBacked, Prices!AnswerCached
<1>7. CopiesBacked'
  BY DEF PricesInv, CopiesBacked, TablesBacked, Prices!AnswerCached
<1>8. IdleIsUntold'
  BY DEF PricesInv, IdleIsUntold, Prices!AnswerCached
<1>9. Prices!NoOfferAfterNegative'
  <2>1. ASSUME NEW r \in Request, Prices!FromCache(copy[v])[r].kind = "cached" PROVE copy[v].latest[r] = "price"
    BY <2>1 DEF PricesInv, CopiesBacked, Backed, Prices!FromCache, Prices!Observed
  <2>2. copy' = copy /\ told' = [told EXCEPT ![v] = Prices!FromCache(copy[v])]
    BY DEF Prices!AnswerCached
  <2> QED
    BY <2>1, <2>2 DEF PricesInv, Prices!NoOfferAfterNegative
<1>10. Prices!NoMixture'
  <2>1. \A r \in Request : Prices!FromCache(copy[v])[r].kind # "fresh"
    BY DEF Prices!FromCache, Prices!Observed
  <2>2. told' = [told EXCEPT ![v] = Prices!FromCache(copy[v])]
    BY DEF Prices!AnswerCached
  <2> QED
    BY <2>1, <2>2 DEF PricesInv, Prices!NoMixture
<1>11. Prices!TypeOK'
  BY <1>1, <1>2, <1>3, <1>4
  DEF Prices!TypeOK, FlagsTyped, TablesTyped, RefreshTyped, VisitsTyped, PricesStored, Check, Stamps, Findings
<1> QED
  BY <1>5, <1>6, <1>7, <1>8, <1>9, <1>10, <1>11 DEF PricesInv

LEMMA PricesWaitKeeps ==
  ASSUME Prices!Assumptions, PricesInv, NEW v \in Visitor, Prices!Wait(v)
  PROVE  PricesInv'
<1>. FlagsTyped /\ TablesTyped /\ RefreshTyped /\ VisitsTyped /\ PricesStored
  BY PricesTypeParts DEF PricesInv
<1>1. FlagsTyped' /\ TablesTyped'
  BY DEF FlagsTyped, TablesTyped, Check, Stamps, Prices!Wait
<1>2. RefreshTyped'
  BY DEF FlagsTyped, RefreshTyped, Stamps, Prices!Wait, Prices!NewRefresh
<1>3. PricesStored'
  BY DEF PricesStored, Prices!Wait, Prices!NewRefresh
<1>4. VisitsTyped'
  BY DEF VisitsTyped, Prices!Wait
<1>5. CopiesTyped'
  BY DEF PricesInv, CopiesTyped, Check, Stamps, Prices!Wait
<1>6. TablesBacked'
  BY DEF PricesInv, TablesBacked, Prices!Wait
<1>7. CopiesBacked'
  BY DEF PricesInv, CopiesBacked, TablesBacked, Prices!Wait
<1>8. IdleIsUntold'
  BY DEF PricesInv, IdleIsUntold, Prices!Wait
<1>9. Prices!NoOfferAfterNegative'
  BY DEF PricesInv, Prices!NoOfferAfterNegative, Prices!Wait
<1>10. Prices!NoMixture'
  BY DEF PricesInv, Prices!NoMixture, Prices!Wait
<1>11. Prices!TypeOK'
  BY <1>1, <1>2, <1>3, <1>4
  DEF Prices!TypeOK, FlagsTyped, TablesTyped, RefreshTyped, VisitsTyped, PricesStored, Check, Stamps, Findings
<1> QED
  BY <1>5, <1>6, <1>7, <1>8, <1>9, <1>10, <1>11 DEF PricesInv

LEMMA PricesRefusedKeeps ==
  ASSUME Prices!Assumptions, PricesInv, NEW v \in Visitor, Prices!Refused(v)
  PROVE  PricesInv'
<1>. FlagsTyped /\ TablesTyped /\ RefreshTyped /\ VisitsTyped /\ PricesStored
  BY PricesTypeParts DEF PricesInv
<1>1. FlagsTyped' /\ TablesTyped'
  BY DEF FlagsTyped, TablesTyped, Check, Stamps, Prices!Refused
<1>2. RefreshTyped'
  BY DEF RefreshTyped, Stamps, Prices!Refused
<1>3. PricesStored'
  BY DEF PricesStored, Prices!Refused
<1>4. VisitsTyped'
  BY DEF VisitsTyped, Prices!Answers, Prices!Refused
<1>5. CopiesTyped'
  BY DEF PricesInv, CopiesTyped, Check, Stamps, Prices!Refused
<1>6. TablesBacked'
  BY DEF PricesInv, TablesBacked, Prices!Refused
<1>7. CopiesBacked'
  BY DEF PricesInv, CopiesBacked, TablesBacked, Prices!Refused
<1>8. IdleIsUntold'
  BY DEF PricesInv, IdleIsUntold, Prices!Refused
<1>9. Prices!NoOfferAfterNegative'
  BY DEF PricesInv, Prices!NoOfferAfterNegative, Prices!Refused
<1>10. Prices!NoMixture'
  BY DEF PricesInv, Prices!NoMixture, Prices!Refused
<1>11. Prices!TypeOK'
  BY <1>1, <1>2, <1>3, <1>4
  DEF Prices!TypeOK, FlagsTyped, TablesTyped, RefreshTyped, VisitsTyped, PricesStored, Check, Stamps, Findings
<1> QED
  BY <1>5, <1>6, <1>7, <1>8, <1>9, <1>10, <1>11 DEF PricesInv

LEMMA PricesLeaveKeeps ==
  ASSUME Prices!Assumptions, PricesInv, NEW v \in Visitor, Prices!Leave(v)
  PROVE  PricesInv'
<1>. FlagsTyped /\ TablesTyped /\ RefreshTyped /\ VisitsTyped /\ PricesStored
  BY PricesTypeParts DEF PricesInv
<1>1. FlagsTyped' /\ TablesTyped'
  BY DEF FlagsTyped, TablesTyped, Check, Stamps, Prices!Leave
<1>2. RefreshTyped'
  BY DEF RefreshTyped, Stamps, Prices!Leave
<1>3. PricesStored'
  BY DEF PricesStored, Prices!Leave
<1>4. VisitsTyped'
  BY DEF VisitsTyped, Prices!Answers, Prices!Nothing, Prices!Leave
<1>5. CopiesTyped'
  BY DEF PricesInv, CopiesTyped, Check, Stamps, Findings, Prices!Leave, Prices!NoCopy
<1>6. TablesBacked'
  BY DEF PricesInv, TablesBacked, Prices!Leave
<1>7. CopiesBacked'
  BY DEF PricesInv, CopiesBacked, TablesBacked, Backed, Prices!Leave, Prices!NoCopy
<1>8. IdleIsUntold'
  BY DEF PricesInv, VisitsTyped, IdleIsUntold, Prices!Leave
<1>9. Prices!NoOfferAfterNegative'
  BY DEF PricesInv, VisitsTyped, Prices!NoOfferAfterNegative, Prices!Nothing, Prices!Leave
<1>10. Prices!NoMixture'
  BY DEF PricesInv, Prices!NoMixture, Prices!Nothing, Prices!Leave
<1>11. Prices!TypeOK'
  BY <1>1, <1>2, <1>3, <1>4
  DEF Prices!TypeOK, FlagsTyped, TablesTyped, RefreshTyped, VisitsTyped, PricesStored, Check, Stamps, Findings
<1> QED
  BY <1>5, <1>6, <1>7, <1>8, <1>9, <1>10, <1>11 DEF PricesInv


LEMMA PricesInitHolds == ASSUME Prices!Assumptions, Prices!Init PROVE PricesInv
<1>1. Prices!TypeOK
  <2>1. Prices!Nothing \in [Request -> Prices!Answers]
    BY DEF Prices!Nothing, Prices!Answers
  <2>2. FlagsTyped /\ TablesTyped /\ RefreshTyped /\ PricesStored
    <3>1. row \in Stamps /\ latest \in Findings
      BY DEF Prices!Init, Stamps, Findings
    <3>2. FlagsTyped
      <4>1. now \in Prices!Time
        BY DEF Prices!Init
      <4>2. failing \in BOOLEAN /\ owing \in BOOLEAN
        BY DEF Prices!Init
      <4> QED
        BY <4>1, <4>2 DEF FlagsTyped
    <3>3. refresh = None /\ check = None
      BY DEF Prices!Init
    <3> QED
      BY <3>1, <3>2, <3>3 DEF TablesTyped, RefreshTyped, PricesStored
  <2>3. VisitsTyped
    BY <2>1 DEF Prices!Init, VisitsTyped
  <2> QED
    BY <2>2, <2>3, PricesTypeParts
<1>2. CopiesTyped /\ TablesBacked /\ CopiesBacked
  BY DEF Prices!Init, CopiesTyped, TablesBacked, CopiesBacked, Backed, Prices!NoCopy, Stamps, Findings
<1> QED
  BY <1>1, <1>2 DEF Prices!Init, PricesInv, IdleIsUntold, Prices!NoOfferAfterNegative, Prices!NoMixture, Prices!Nothing

LEMMA PricesStutterKeeps == ASSUME PricesInv, UNCHANGED Prices!vars PROVE PricesInv'
BY DEF Prices!vars, PricesInv, Prices!TypeOK, CopiesTyped, TablesBacked, CopiesBacked, IdleIsUntold, 
       Prices!NoOfferAfterNegative, Prices!NoMixture, Check, Stamps, Findings

LEMMA PricesNextKeeps ==
  ASSUME Prices!Assumptions, PricesInv, [Prices!Next]_(Prices!vars)
  PROVE  PricesInv'
<1>1. CASE Prices!Tick \/ Prices!StartRefresh \/ Prices!RecordFailure \/ Prices!RecordCheck \/ Prices!RefreshFails
  BY <1>1, PricesTickKeeps, PricesStartRefreshKeeps, PricesRecordFailureKeeps, PricesRecordCheckKeeps, PricesRefreshFailsKeeps
<1>2. ASSUME NEW r \in Request, Prices!NoPrice(r) \/ Prices!StoreUnanswered(r) \/ \E at \in Prices!Time : Prices!StorePrice(r, at)
      PROVE  PricesInv'
  BY <1>2, PricesNoPriceKeeps, PricesStoreUnansweredKeeps, PricesStorePriceKeeps
<1>3. ASSUME NEW v \in Visitor, Prices!Read(v) \/ Prices!Answering(v) \/ Prices!Leave(v)
      PROVE  PricesInv'
  BY <1>3, PricesReadKeeps, PricesAnswerCachedKeeps, PricesWaitKeeps, PricesRefusedKeeps, PricesLeaveKeeps DEF Prices!Answering
<1> QED
  BY <1>1, <1>2, <1>3, PricesStutterKeeps DEF Prices!Next, Prices!Refreshing

\* The invariant of the prices.
THEOREM PricesInvariant == ASSUME Prices!Assumptions PROVE Prices!Init /\ [][Prices!Next]_(Prices!vars) => []PricesInv
<1>1. Prices!Init => PricesInv
  BY PricesInitHolds
<1>2. PricesInv /\ [Prices!Next]_(Prices!vars) => PricesInv'
  BY PricesNextKeeps
<1> QED
  BY <1>1, <1>2, PTL

\* A price is answered from the cache only when the last finding of its retailer was one,
\* and an answer is one refresh's or the cache's (getComparison of src/priceService.js).
THEOREM OffersAreCurrent ==
  ASSUME Prices!Assumptions
  PROVE  Prices!Init /\ [][Prices!Next]_(Prices!vars) => [](Prices!TypeOK /\ Prices!NoOfferAfterNegative /\ Prices!NoMixture)
BY PricesInvariant, PTL DEF PricesInv

\* What v is told of r without a warning is young enough, or a refresh's.
SaysAge(v, r) ==
  told'[v] # told[v] /\ told'[v][r].kind \in {"cached", "missing"} /\ told'[v][r].at # None /\ ~told'[v][r].stale
    => now - told'[v][r].at < MaxAge \/ visit[v] = "waiting"

LEMMA PricesSaysStale ==
  ASSUME Prices!Assumptions, PricesInv, Prices!Next, NEW v \in Visitor, NEW r \in Request
  PROVE  SaysAge(v, r)
<1>. VisitsTyped /\ CopiesTyped /\ FlagsTyped
  BY PricesTypeParts DEF PricesInv
<1>1. CASE told' = told
  BY <1>1 DEF SaysAge
<1>2. CASE Prices!AnswerCached(v)
  <2>1. told'[v] = Prices!FromCache(copy[v])
    BY <1>2 DEF VisitsTyped, Prices!AnswerCached
  <2>2. Prices!Observed(copy[v], r).at \in Nat \cup {None}
    BY DEF CopiesTyped, Stamps, Check, Prices!Observed, Prices!Hidden
  <2>3. Prices!FromCache(copy[v])[r].kind = "progress" \/ Prices!Observed(copy[v], r).kind # "none"
    BY DEF Prices!FromCache
  <2>4. /\ Prices!FromCache(copy[v])[r].at = Prices!Observed(copy[v], r).at
        /\ Prices!FromCache(copy[v])[r].stale = (r \in Prices!Stale(copy[v]))
    BY DEF Prices!FromCache
  <2>5. r \notin Prices!Stale(copy[v]) => Prices!Observed(copy[v], r).kind = "none" \/ ~(now - Prices!Observed(copy[v], r).at >= MaxAge)
    BY DEF Prices!Stale
  <2>6. ASSUME Prices!FromCache(copy[v])[r].kind \in {"cached", "missing"}, Prices!Observed(copy[v], r).at # None, r \notin Prices!Stale(copy[v])
        PROVE  now - Prices!Observed(copy[v], r).at < MaxAge
    BY <2>2, <2>3, <2>5, <2>6 DEF FlagsTyped
  <2> QED
    BY <2>1, <2>4, <2>6 DEF SaysAge
<1>3. CASE Prices!RecordCheck \/ Prices!RefreshFails
  BY <1>3 DEF SaysAge, Prices!RecordCheck, Prices!RefreshFails, Prices!Settle, Prices!Waiters
<1>4. ASSUME NEW w \in Visitor, w # v, Prices!AnswerCached(w) \/ Prices!Refused(w) \/ Prices!Leave(w)
      PROVE  SaysAge(v, r)
  BY <1>4 DEF SaysAge, VisitsTyped, Prices!AnswerCached, Prices!Refused, Prices!Leave
<1>5. CASE Prices!Refused(v) \/ Prices!Leave(v)
  BY <1>5 DEF SaysAge, VisitsTyped, Prices!Refused, Prices!Leave, Prices!Nothing
<1>6. CASE \E x \in Request : Prices!NoPrice(x) \/ Prices!StoreUnanswered(x) \/ \E at \in Prices!Time : Prices!StorePrice(x, at)
  BY <1>1, <1>6 DEF Prices!NoPrice, Prices!StoreUnanswered, Prices!StorePrice
<1>7. CASE Prices!Tick \/ Prices!StartRefresh \/ Prices!RecordFailure \/ \E w \in Visitor : Prices!Read(w) \/ Prices!Wait(w)
  BY <1>1, <1>7 DEF Prices!Tick, Prices!StartRefresh, Prices!RecordFailure, Prices!Read, Prices!Wait
<1> QED
  BY <1>2, <1>3, <1>4, <1>5, <1>6, <1>7 DEF Prices!Next, Prices!Refreshing, Prices!Answering

\* A cached answer that is not called stale was younger than the limit when it was given
\* (cacheIsStale of src/priceService.js).
THEOREM OldPricesAreCalledStale == 
  ASSUME Prices!Assumptions
  PROVE  Prices!Init /\ [][Prices!Next]_(Prices!vars) => Prices!StaleIsSaid
<1>1. PricesInv /\ [Prices!Next]_(Prices!vars) => [\A v \in Visitor, r \in Request : SaysAge(v, r)]_(Prices!vars)
  BY PricesSaysStale
<1>. HIDE DEF Prices!Assumptions, Prices!Time, Prices!stored
<1> QED
  BY <1>1, PricesInvariant, PTL DEF Prices!StaleIsSaid, SaysAge

HIDE DEF Prices!Assumptions, Prices!Time, Prices!stored

--------------------------------------------------------------------------------
(* What is told of a product's health. *)

\* The parts of what is remembered of products and of lookups.
EntriesTyped == cache \in Seq(Health!Entries) /\ \A i \in DOMAIN cache : cache[i].stored <= healthNow /\ cache[i].data.at <= cache[i].stored
OneEntryEach   == \A i, j \in DOMAIN cache : cache[i].barcode = cache[j].barcode => i = j
LookupsTyped ==
  /\ pc \in [Request -> {"idle", "fetching", "answered"}] /\ wants \in [Request -> Barcode]
  /\ began \in [Request -> 0..healthNow] /\ answer \in [Request -> Health!Data] /\ saved \in [Request -> Health!Entries \cup {None}]
OutcomesTyped == last \in [Barcode -> {"found", "failed", None}]

\* What the source gave is known of every entry, and of every copy of one.
Known(e) ==
  /\ e.stored <= healthNow /\ e.data.at <= e.stored
  /\ e.data.facts => <<e.barcode, e.data.at>> \in given
CopiesKnown == \A l \in Request : saved[l] # None =>
  pc[l] = "fetching" /\ saved[l].barcode = wants[l] /\ Known(saved[l])
EntriesKnown == \A i \in DOMAIN cache :
  /\ Known(cache[i])
  /\ cache[i].data.facts /\ ~cache[i].data.stale => ~cache[i].data.down /\ cache[i].expires = cache[i].data.at + SourceTTL

\* Only a lookup whose entry was evicted meanwhile can make the cache longer than its limit.
Evicted(l) == saved[l] # None /\ Health!Places(wants[l]) = {}
Room == Len(cache) + Cardinality({l \in Request : Evicted(l)}) <= MaxEntries + Cardinality(Request) - 1

HealthInv ==
  /\ healthNow \in Health!Time /\ EntriesTyped /\ OneEntryEach /\ LookupsTyped /\ OutcomesTyped
  /\ CopiesKnown /\ EntriesKnown /\ Health!FreshIsFresh /\ Health!FailureShows /\ Room

NewEntry(b, data, at, ttl) == [barcode |-> b, data |-> data, stored |-> at, expires |-> at + ttl]

\* The instance counts as this module does.
LEMMA SizesAgree == \A S : (Health!IsFiniteSet(S) <=> IsFiniteSet(S)) /\ Health!Cardinality(S) = Cardinality(S)
BY DEF Health!IsFiniteSet, IsFiniteSet, Health!Cardinality, Cardinality

\* The entry of a product, where there is one.
LEMMA EntryFacts ==
  ASSUME Health!Assumptions, EntriesTyped, OneEntryEach, NEW b \in Barcode
  PROVE  /\ Health!Places(b) # {} => Health!Place(b) \in DOMAIN cache /\ cache[Health!Place(b)].barcode = b /\ Health!Entry(b) = cache[Health!Place(b)]
         /\ Health!Entry(b) = None <=> Health!Places(b) = {}
         /\ \A i \in DOMAIN cache : cache[i].barcode = b => i = Health!Place(b) /\ Health!Places(b) # {}
<1>1. ASSUME Health!Places(b) # {}
      PROVE  Health!Place(b) \in DOMAIN cache /\ cache[Health!Place(b)].barcode = b /\ Health!Entry(b) = cache[Health!Place(b)] /\ Health!Entry(b) # None
  <2>1. Health!Place(b) \in Health!Places(b)
    BY <1>1 DEF Health!Place
  <2>2. Health!Place(b) \in DOMAIN cache /\ cache[Health!Place(b)].barcode = b
    BY <2>1 DEF Health!Places
  <2>3. cache[Health!Place(b)] \in Health!Entries
    BY <2>2 DEF EntriesTyped
  <2> QED
    BY <1>1, <2>2, <2>3 DEF Health!Entry, Health!Assumptions
<1>2. \A i \in DOMAIN cache : cache[i].barcode = b => i \in Health!Places(b)
  BY DEF Health!Places
<1> QED
  BY <1>1, <1>2 DEF OneEntryEach, Health!Entry

\* A sequence of entries with one for each product, each the entry e or an old one of
\* another product than e's.
Follows(s, e) ==
  /\ s \in Seq(Health!Entries)
  /\ \A i \in DOMAIN s : s[i] = e \/ \E j \in DOMAIN cache : s[i] = cache[j] /\ cache[j].barcode # e.barcode
  /\ \A i, j \in DOMAIN s : s[i].barcode = s[j].barcode => i = j

LEMMA WithoutFacts ==
  ASSUME Health!Assumptions, EntriesTyped, OneEntryEach, NEW b \in Barcode
  PROVE  /\ Health!Without(b) \in Seq(Health!Entries)
         /\ \A i \in DOMAIN Health!Without(b) : \E j \in DOMAIN cache : Health!Without(b)[i] = cache[j] /\ cache[j].barcode # b
         /\ \A i, j \in DOMAIN Health!Without(b) : Health!Without(b)[i].barcode = Health!Without(b)[j].barcode => i = j
<1>1. CASE Health!Places(b) = {}
  BY <1>1, EntryFacts DEF Health!Without, EntriesTyped, OneEntryEach
<1>2. CASE Health!Places(b) # {}
  <2> DEFINE p == Health!Place(b)
             n == Len(cache)
  <2>1. p \in 1..n /\ n \in Nat /\ cache[p].barcode = b
    BY <1>2, EntryFacts DEF EntriesTyped
  <2>2. Health!Without(b) = [i \in 1..(n - 1) |-> IF i < p THEN cache[i] ELSE cache[i + 1]]
    BY <1>2 DEF Health!Without
  <2>3. \A i \in 1..n : cache[i] \in Health!Entries /\ (cache[i].barcode = b => i = p)
    BY EntryFacts DEF EntriesTyped
  <2>4. \A i, j \in 1..n : cache[i].barcode = cache[j].barcode => i = j
    BY DEF OneEntryEach, EntriesTyped
  <2>5. DOMAIN cache = 1..n /\ DOMAIN Health!Without(b) = 1..(n - 1)
    BY <2>2 DEF EntriesTyped
  <2> HIDE DEF p, n
  <2>6. \A i \in 1..(n - 1) : Health!Without(b)[i] \in Health!Entries
    BY <2>1, <2>2, <2>3
  <2>7. Health!Without(b) \in Seq(Health!Entries)
    <3>1. n - 1 \in Nat
      BY <2>1
    <3> QED
      BY <3>1, <2>2, <2>6
  <2>8. \A i \in 1..(n - 1) : \E j \in 1..n : Health!Without(b)[i] = cache[j] /\ cache[j].barcode # b
    BY <2>1, <2>2, <2>3
  <2>9. \A i, j \in 1..(n - 1) : Health!Without(b)[i].barcode = Health!Without(b)[j].barcode => i = j
    BY <2>1, <2>2, <2>4
  <2> QED
    BY <2>5, <2>7, <2>8, <2>9
<1> QED
  BY <1>1, <1>2

LEMMA StoredFacts ==
  ASSUME Health!Assumptions, EntriesTyped, OneEntryEach, NEW b \in Barcode, NEW data \in Health!Data, NEW at \in Health!Time, NEW ttl \in Nat
  PROVE  Follows(Health!Stored(b, data, at, ttl), NewEntry(b, data, at, ttl)) /\ Len(Health!Stored(b, data, at, ttl)) <= MaxEntries
<1> DEFINE e == NewEntry(b, data, at, ttl)
           w == Health!Without(b)
           all == Append(w, e)
<1>1. e \in Health!Entries /\ e.barcode = b
  BY DEF NewEntry, Health!Entries, Health!Time
<1>2. w \in Seq(Health!Entries) /\ (\A i \in DOMAIN w : \E j \in DOMAIN cache : w[i] = cache[j] /\ cache[j].barcode # b)
      /\ (\A i, j \in DOMAIN w : w[i].barcode = w[j].barcode => i = j)
  BY WithoutFacts
<1>3. Health!Stored(b, data, at, ttl) = IF Len(all) <= MaxEntries THEN all ELSE [i \in 1..MaxEntries |-> all[i + Len(all) - MaxEntries]]
  BY DEF Health!Stored, NewEntry
<1> HIDE DEF e, w
<1>4. Follows(all, e)
  <2>1. all \in Seq(Health!Entries) /\ Len(all) = Len(w) + 1 /\ all[Len(w) + 1] = e /\ \A i \in 1..Len(w) : all[i] = w[i]
    BY <1>1, <1>2
  <2>2. DOMAIN all = 1..(Len(w) + 1) /\ DOMAIN w = 1..Len(w) /\ Len(w) \in Nat
    BY <1>2, <2>1
  <2> HIDE DEF all
  <2>3. \A i \in DOMAIN all : i \in DOMAIN w \/ i = Len(w) + 1
    BY <2>2
  <2>4. \A i \in DOMAIN w : w[i].barcode # b
    BY <1>2
  <2> QED
    BY <1>1, <1>2, <2>1, <2>2, <2>3, <2>4 DEF Follows
<1>5. all \in Seq(Health!Entries) /\ Len(all) \in Nat /\ DOMAIN all = 1..Len(all) /\ MaxEntries \in Nat
  BY <1>4 DEF Follows, Health!Assumptions
<1> HIDE DEF all
<1>6. CASE Len(all) <= MaxEntries
  BY <1>3, <1>4, <1>6 DEF e
<1>7. CASE ~(Len(all) <= MaxEntries)
  <2> DEFINE s == [i \in 1..MaxEntries |-> all[i + Len(all) - MaxEntries]]
  <2>1. \A i \in 1..MaxEntries : s[i] = all[i + Len(all) - MaxEntries] /\ i + Len(all) - MaxEntries \in DOMAIN all
    BY <1>5, <1>7
  <2>2. \A i \in 1..MaxEntries : s[i] \in Health!Entries
    BY <1>5, <2>1
  <2>3. s \in Seq(Health!Entries) /\ Len(s) = MaxEntries /\ DOMAIN s = 1..MaxEntries
    BY <1>5, <2>2
  <2> HIDE DEF s
  <2>4. \A i, j \in 1..MaxEntries : s[i].barcode = s[j].barcode => i = j
    <3> SUFFICES ASSUME NEW i \in 1..MaxEntries, NEW j \in 1..MaxEntries, s[i].barcode = s[j].barcode
                 PROVE  i = j
      OBVIOUS
    <3>1. i + Len(all) - MaxEntries = j + Len(all) - MaxEntries
      BY <1>4, <2>1 DEF Follows
    <3> QED
      BY <1>5, <3>1
  <2>5. Follows(s, e)
    <3>1. \A i \in DOMAIN s : s[i] = e \/ \E j \in DOMAIN cache : s[i] = cache[j] /\ cache[j].barcode # e.barcode
      <4> TAKE i \in DOMAIN s
      <4>1. i + Len(all) - MaxEntries \in DOMAIN all /\ s[i] = all[i + Len(all) - MaxEntries]
        BY <2>1, <2>3
      <4> QED
        BY <1>4, <4>1 DEF Follows
    <3> QED
      BY <2>3, <2>4, <3>1 DEF Follows
  <2> QED
    BY <1>3, <1>5, <1>7, <2>3, <2>5 DEF s, e
<1> QED
  BY <1>6, <1>7 DEF e

LEMMA ReplacedFacts ==
  ASSUME Health!Assumptions, EntriesTyped, OneEntryEach, NEW e \in Health!Entries
  PROVE  /\ Follows(Health!Replaced(e.barcode, e), e)
         /\ Len(Health!Replaced(e.barcode, e)) = IF Health!Places(e.barcode) = {} THEN Len(cache) + 1 ELSE Len(cache)
         /\ \A b \in Barcode : Health!Places(b) # {} => \E i \in DOMAIN Health!Replaced(e.barcode, e) : Health!Replaced(e.barcode, e)[i].barcode = b
         /\ \E i \in DOMAIN Health!Replaced(e.barcode, e) : Health!Replaced(e.barcode, e)[i] = e
<1> DEFINE b == e.barcode
           r == Health!Replaced(b, e)
           n == Len(cache)
<1>1. b \in Barcode /\ n \in Nat /\ cache \in Seq(Health!Entries) /\ DOMAIN cache = 1..n
  BY DEF Health!Entries, EntriesTyped
<1>2. \A i \in 1..n : cache[i].barcode = b <=> i \in Health!Places(b)
  BY <1>1 DEF Health!Places
<1>3. \A i, j \in 1..n : cache[i].barcode = cache[j].barcode => i = j
  BY <1>1 DEF OneEntryEach
<1>4. \A i \in 1..n : cache[i] \in Health!Entries
  BY <1>1
<1>5. CASE Health!Places(b) = {}
  <2>1. r = Append(cache, e)
    BY <1>5 DEF Health!Replaced
  <2>2. r \in Seq(Health!Entries) /\ Len(r) = n + 1 /\ DOMAIN r = 1..(n + 1) /\ r[n + 1] = e /\ \A i \in 1..n : r[i] = cache[i]
    BY <1>1, <2>1
  <2> HIDE DEF r, b, n
  <2>3. \A i \in 1..(n + 1) : i \in 1..n \/ i = n + 1
    BY <1>1
  <2>4. \A i \in 1..n : i \in DOMAIN r
    BY <1>1, <2>2
  <2>5. Follows(r, e)
    BY <1>1, <1>2, <1>3, <1>5, <2>2, <2>3 DEF Follows, b
  <2>6. \A c \in Barcode : Health!Places(c) # {} => \E i \in DOMAIN r : r[i].barcode = c
    BY <1>1, <2>2, <2>4 DEF Health!Places
  <2> QED
    BY <1>1, <1>5, <2>2, <2>5, <2>6 DEF r, b, n
<1>6. CASE Health!Places(b) # {}
  <2>1. r = [i \in 1..n |-> IF i \in Health!Places(b) THEN e ELSE cache[i]]
    BY <1>1, <1>6 DEF Health!Replaced
  <2>2. DOMAIN r = 1..n /\ \A i \in 1..n : r[i] = (IF i \in Health!Places(b) THEN e ELSE cache[i]) /\ r[i] \in Health!Entries
    BY <1>4, <2>1
  <2>3. r \in Seq(Health!Entries) /\ Len(r) = n
    BY <1>1, <2>1, <2>2
  <2>4. PICK p \in 1..n : p \in Health!Places(b)
    BY <1>1, <1>6 DEF Health!Places
  <2> HIDE DEF r, b, n
  <2>5. \A i \in 1..n : r[i].barcode = cache[i].barcode
    BY <1>2, <2>2 DEF b
  <2>6. Follows(r, e)
    BY <1>1, <1>2, <1>3, <2>2, <2>3, <2>5 DEF Follows, b
  <2>7. \A c \in Barcode : Health!Places(c) # {} => \E i \in DOMAIN r : r[i].barcode = c
    BY <1>1, <2>2, <2>5 DEF Health!Places
  <2> QED
    BY <1>6, <2>2, <2>3, <2>4, <2>6, <2>7 DEF r, b, n
<1> QED
  BY <1>5, <1>6


KnownThen(e) ==
  /\ e.stored <= healthNow' /\ e.data.at <= e.stored
  /\ e.data.facts => <<e.barcode, e.data.at>> \in given'

\* What ends a lookup: the cache goes on with one entry for its product.
LEMMA EndKeepsHealth ==
  ASSUME Health!Assumptions, HealthInv, NEW l \in Request, pc[l] = "fetching", NEW e \in Health!Entries, e.barcode = wants[l],
         Follows(cache', e), Health!End(l, e.data), given \subseteq given', KnownThen(e),
         e.data.facts => (~e.data.stale => ~e.data.down /\ e.expires = e.data.at + SourceTTL /\ e.data.at = began[l]),
         last' = [last EXCEPT ![wants[l]] = IF e.data.down THEN "failed" ELSE "found"]
  PROVE  /\ EntriesTyped' /\ OneEntryEach' /\ LookupsTyped' /\ OutcomesTyped'
         /\ CopiesKnown' /\ EntriesKnown' /\ Health!FreshIsFresh' /\ Health!FailureShows'
<1>1. healthNow' = healthNow /\ wants' = wants /\ began' = began
  BY DEF Health!End
<1>2. wants[l] \in Barcode /\ healthNow \in Health!Time /\ cache \in Seq(Health!Entries) /\ cache' \in Seq(Health!Entries)
  BY DEF HealthInv, LookupsTyped, EntriesTyped, Follows
<1>3. \A i \in DOMAIN cache' : cache'[i] \in Health!Entries /\ (cache'[i] = e \/ \E j \in DOMAIN cache : cache'[i] = cache[j] /\ cache[j].barcode # wants[l])
  BY <1>2 DEF Follows
<1>4. LookupsTyped'
  BY <1>1 DEF HealthInv, LookupsTyped, Health!End, Health!Entries
<1>5. OutcomesTyped'
  BY <1>2 DEF HealthInv, OutcomesTyped
<1>6. OneEntryEach'
  BY DEF Follows, OneEntryEach
<1>7. \A i \in DOMAIN cache : KnownThen(cache[i])
  BY <1>1 DEF HealthInv, EntriesKnown, Known, KnownThen
<1>8. EntriesKnown'
  BY <1>3, <1>7 DEF HealthInv, EntriesKnown, Known, KnownThen
<1>9. EntriesTyped'
  BY <1>1, <1>2, <1>8 DEF EntriesTyped, EntriesKnown, Known
<1>10. CopiesKnown'
  BY <1>1 DEF HealthInv, CopiesKnown, LookupsTyped, Known, Health!End
<1>11. Health!FailureShows'
  <2> SUFFICES ASSUME NEW i \in DOMAIN cache'
               PROVE  cache'[i].data.down <=> last'[cache'[i].barcode] = "failed"
    BY DEF Health!FailureShows
  <2>1. CASE cache'[i] = e
    BY <1>2, <2>1 DEF HealthInv, OutcomesTyped
  <2>2. CASE \E j \in DOMAIN cache : cache'[i] = cache[j] /\ cache[j].barcode # wants[l]
    <3>1. PICK j \in DOMAIN cache : cache'[i] = cache[j] /\ cache[j].barcode # wants[l]
      BY <2>2
    <3>2. cache[j] \in Health!Entries
      BY <1>2
    <3>. cache[j].barcode \in Barcode
      BY <3>2 DEF Health!Entries
    <3>3. last'[cache[j].barcode] = last[cache[j].barcode]
      BY <1>2, <3>1, <3>2 DEF HealthInv, OutcomesTyped
    <3> QED
      BY <3>1, <3>3 DEF HealthInv, Health!FailureShows
  <2> QED
    BY <1>3, <2>1, <2>2
<1>12. Health!FreshIsFresh'
  <2> SUFFICES ASSUME NEW k \in Request, pc'[k] = "answered", answer'[k].facts
               PROVE  /\ <<wants[k], answer'[k].at>> \in given'
                      /\ ~answer'[k].stale => ~answer'[k].down /\ began[k] - answer'[k].at < SourceTTL
    BY <1>1 DEF Health!FreshIsFresh
  <2>1. CASE k = l
    <3>1. answer'[l] = e.data
      BY DEF HealthInv, LookupsTyped, Health!End
    <3>2. began[l] \in Int /\ began[l] - began[l] = 0 /\ 0 < SourceTTL
      BY DEF HealthInv, LookupsTyped, Health!Time, Health!Assumptions
    <3> QED
      BY <2>1, <3>1, <3>2 DEF KnownThen
  <2>2. CASE k # l
    <3>1. answer'[k] = answer[k] /\ pc[k] = "answered"
      BY <2>2 DEF HealthInv, LookupsTyped, Health!End
    <3> QED
      BY <3>1 DEF HealthInv, Health!FreshIsFresh
  <2> QED
    BY <2>1, <2>2
<1> QED
  BY <1>4, <1>5, <1>6, <1>8, <1>9, <1>10, <1>11, <1>12

\* A lookup that ends leaves the others, and they are one fewer.
LEMMA OthersEvicted ==
  ASSUME Health!Assumptions, HealthInv, NEW l \in Request, NEW S, S \subseteq Request, l \notin S
  PROVE  Cardinality(S) \in Nat /\ Cardinality(Request) \in Nat /\ Cardinality(S) <= Cardinality(Request) - 1
<1>1. IsFiniteSet(Request) /\ IsFiniteSet(Request \ {l})
  BY FS_RemoveElement, SizesAgree DEF Health!Assumptions
<1>2. Cardinality(Request \ {l}) = Cardinality(Request) - 1
  BY <1>1, FS_RemoveElement
<1>3. S \subseteq Request \ {l}
  OBVIOUS
<1>4. Cardinality(S) <= Cardinality(Request \ {l}) /\ IsFiniteSet(S)
  BY <1>1, <1>3, FS_Subset
<1> QED
  BY <1>1, <1>2, <1>4, FS_CardinalityType

\* A lookup whose entry has just become the newest leaves the cache within its limit.
LEMMA StoredRoom ==
  ASSUME Health!Assumptions, HealthInv, NEW l \in Request, NEW data, Health!End(l, data), Len(cache') \in Nat, Len(cache') <= MaxEntries
  PROVE  Room'
<1> DEFINE S == {k \in Request : Evicted(k)'}
<1>1. l \notin S
  BY DEF Evicted, Health!End, HealthInv, LookupsTyped
<1>2. Cardinality(S) \in Nat /\ Cardinality(Request) \in Nat /\ Cardinality(S) <= Cardinality(Request) - 1
  BY <1>1, OthersEvicted
<1>3. {k \in Request : Evicted(k)}' = S
  OBVIOUS
<1> HIDE DEF S
<1>4. Len(cache') + Cardinality(S) <= MaxEntries + Cardinality(Request) - 1
  BY <1>2 DEF Health!Assumptions
<1> QED
  BY <1>3, <1>4 DEF Room

LEMMA FoundKeeps ==
  ASSUME Health!Assumptions, HealthInv, NEW l \in Request, NEW facts \in BOOLEAN, Health!Found(l, facts)
  PROVE  HealthInv'
<1> DEFINE data == [facts |-> facts, at |-> began[l], stale |-> FALSE, down |-> FALSE]
           ttl == IF facts THEN SourceTTL ELSE MissTTL
           e == NewEntry(wants[l], data, began[l], ttl)
<1>1. wants[l] \in Barcode /\ began[l] \in Health!Time /\ began[l] <= healthNow /\ healthNow \in Health!Time /\ ttl \in Nat
  BY DEF HealthInv, LookupsTyped, Health!Time, Health!Assumptions
<1>2. data \in Health!Data /\ e \in Health!Entries
  BY <1>1 DEF Health!Data, Health!Entries, NewEntry, Health!Time
<1>3. Follows(cache', e) /\ Len(cache') <= MaxEntries
  BY <1>1, <1>2, StoredFacts DEF HealthInv, Health!Found
<1>4. e.barcode = wants[l] /\ e.data = data /\ e.stored = began[l] /\ e.expires = began[l] + ttl
  BY DEF NewEntry
<1>5. given \subseteq given' /\ (facts => <<wants[l], began[l]>> \in given')
  BY DEF Health!Found
<1>6. Health!End(l, data) /\ pc[l] = "fetching" /\ last' = [last EXCEPT ![wants[l]] = "found"]
  BY DEF Health!Found
<1>7. KnownThen(e)
  BY <1>1, <1>4, <1>5, <1>6 DEF KnownThen, Health!End, Health!Time
<1> HIDE DEF e
<1>8. /\ EntriesTyped' /\ OneEntryEach' /\ LookupsTyped' /\ OutcomesTyped'
      /\ CopiesKnown' /\ EntriesKnown' /\ Health!FreshIsFresh' /\ Health!FailureShows'
  <2>1. e.data.facts => (~e.data.stale => ~e.data.down /\ e.expires = e.data.at + SourceTTL /\ e.data.at = began[l])
    BY <1>4
  <2>2. last' = [last EXCEPT ![wants[l]] = IF e.data.down THEN "failed" ELSE "found"]
    BY <1>4, <1>6
  <2>3. Health!End(l, e.data)
    BY <1>4, <1>6
  <2> HIDE DEF data
  <2> QED
    BY <1>2, <1>3, <1>4, <1>5, <1>6, <1>7, <2>1, <2>2, <2>3, EndKeepsHealth
<1>9. Room'
  BY <1>3, <1>6, StoredRoom DEF Follows
<1> QED
  BY <1>1, <1>6, <1>8, <1>9 DEF HealthInv, Health!End

LEMMA FailsKeeps ==
  ASSUME Health!Assumptions, HealthInv, NEW l \in Request, Health!Fails(l)
  PROVE  HealthInv'
<1> DEFINE data == [facts |-> FALSE, at |-> began[l], stale |-> FALSE, down |-> TRUE]
           e == NewEntry(wants[l], data, began[l], FailureTTL)
<1>1. wants[l] \in Barcode /\ began[l] \in Health!Time /\ began[l] <= healthNow /\ healthNow \in Health!Time /\ FailureTTL \in Nat
  BY DEF HealthInv, LookupsTyped, Health!Time, Health!Assumptions
<1>2. data \in Health!Data /\ e \in Health!Entries
  BY <1>1 DEF Health!Data, Health!Entries, NewEntry, Health!Time
<1>3. Follows(cache', e) /\ Len(cache') <= MaxEntries
  BY <1>1, <1>2, StoredFacts DEF HealthInv, Health!Fails
<1>4. e.barcode = wants[l] /\ e.data = data /\ e.stored = began[l]
  BY DEF NewEntry
<1>5. Health!End(l, data) /\ pc[l] = "fetching" /\ last' = [last EXCEPT ![wants[l]] = "failed"] /\ given' = given
  BY DEF Health!Fails
<1>6. KnownThen(e)
  BY <1>1, <1>4, <1>5 DEF KnownThen, Health!End, Health!Time
<1> HIDE DEF e
<1>7. /\ EntriesTyped' /\ OneEntryEach' /\ LookupsTyped' /\ OutcomesTyped'
      /\ CopiesKnown' /\ EntriesKnown' /\ Health!FreshIsFresh' /\ Health!FailureShows'
  <2>1. e.data.facts => (~e.data.stale => ~e.data.down /\ e.expires = e.data.at + SourceTTL /\ e.data.at = began[l])
    BY <1>4
  <2>2. last' = [last EXCEPT ![wants[l]] = IF e.data.down THEN "failed" ELSE "found"]
    BY <1>4, <1>5
  <2>3. Health!End(l, e.data)
    BY <1>4, <1>5
  <2> HIDE DEF data
  <2> QED
    BY <1>2, <1>3, <1>4, <1>5, <1>6, <2>1, <2>2, <2>3, EndKeepsHealth
<1>8. Room'
  BY <1>3, <1>5, StoredRoom DEF Follows
<1> QED
  BY <1>1, <1>5, <1>7, <1>8 DEF HealthInv, Health!End

LEMMA OutdatedKeeps ==
  ASSUME Health!Assumptions, HealthInv, NEW l \in Request, Health!Outdated(l)
  PROVE  HealthInv'
<1> DEFINE data == [saved[l].data EXCEPT !.stale = TRUE, !.down = TRUE]
           e == [barcode |-> wants[l], data |-> data, stored |-> saved[l].stored, expires |-> began[l] + FailureTTL]
<1>1. wants[l] \in Barcode /\ began[l] \in Health!Time /\ began[l] <= healthNow /\ healthNow \in Health!Time /\ FailureTTL \in Nat
  BY DEF HealthInv, LookupsTyped, Health!Time, Health!Assumptions
<1>2. saved[l] \in Health!Entries /\ saved[l].barcode = wants[l] /\ Known(saved[l]) /\ saved[l] # None
  BY DEF HealthInv, LookupsTyped, CopiesKnown, Health!Outdated
<1>. saved[l].data \in Health!Data /\ saved[l].stored \in Health!Time
  BY <1>2 DEF Health!Entries
<1>. data \in Health!Data
  BY DEF Health!Data
<1>3. e \in Health!Entries
  <2> HIDE DEF data
  <2>1. began[l] + FailureTTL \in Nat
    BY <1>1 DEF Health!Time, Health!Assumptions
  <2> QED
    BY <1>1, <2>1 DEF Health!Entries
<1>4. cache' = Health!Replaced(wants[l], e) /\ Health!End(l, data) /\ pc[l] = "fetching"
      /\ last' = [last EXCEPT ![wants[l]] = "failed"] /\ given' = given
  BY DEF Health!Outdated
<1>5. e.barcode = wants[l] /\ e.data = data /\ e.stored = saved[l].stored /\ data.at = saved[l].data.at
      /\ data.facts = saved[l].data.facts /\ data.stale /\ data.down
  BY <1>2 DEF Health!Entries, Health!Data
<1>. healthNow' = healthNow
  BY <1>4 DEF Health!End
<1> HIDE DEF e, data
<1>6. KnownThen(e)
  BY <1>2, <1>4, <1>5 DEF Known, KnownThen
<1>7. /\ Follows(cache', e)
      /\ Len(cache') = IF Health!Places(wants[l]) = {} THEN Len(cache) + 1 ELSE Len(cache)
      /\ \A b \in Barcode : Health!Places(b) # {} => \E i \in DOMAIN cache' : cache'[i].barcode = b
      /\ \E i \in DOMAIN cache' : cache'[i] = e
  <2>1. EntriesTyped /\ OneEntryEach
    BY DEF HealthInv
  <2>2. cache' = Health!Replaced(e.barcode, e)
    BY <1>4, <1>5
  <2>3. /\ Follows(Health!Replaced(e.barcode, e), e)
        /\ Len(Health!Replaced(e.barcode, e)) = IF Health!Places(e.barcode) = {} THEN Len(cache) + 1 ELSE Len(cache)
        /\ \A b \in Barcode : Health!Places(b) # {} => \E i \in DOMAIN Health!Replaced(e.barcode, e) : Health!Replaced(e.barcode, e)[i].barcode = b
        /\ \E i \in DOMAIN Health!Replaced(e.barcode, e) : Health!Replaced(e.barcode, e)[i] = e
    BY <1>3, <2>1, ReplacedFacts
  <2> QED
    BY <1>5, <2>2, <2>3
<1>8. /\ EntriesTyped' /\ OneEntryEach' /\ LookupsTyped' /\ OutcomesTyped'
      /\ CopiesKnown' /\ EntriesKnown' /\ Health!FreshIsFresh' /\ Health!FailureShows'
  <2>1. e.data.facts => (~e.data.stale => ~e.data.down /\ e.expires = e.data.at + SourceTTL /\ e.data.at = began[l])
    BY <1>5
  <2>2. last' = [last EXCEPT ![wants[l]] = IF e.data.down THEN "failed" ELSE "found"]
    BY <1>4, <1>5
  <2>3. Health!End(l, e.data)
    BY <1>4, <1>5
  <2> QED
    BY <1>3, <1>4, <1>5, <1>6, <1>7, <2>1, <2>2, <2>3, EndKeepsHealth
<1>9. Room'
  <2> DEFINE S == {k \in Request : Evicted(k)}
             T == {k \in Request : Evicted(k)'}
  <2>1. T \subseteq S \ {l}
    <3> SUFFICES ASSUME NEW k \in Request, Evicted(k)'
                 PROVE  Evicted(k) /\ k # l
      OBVIOUS
    <3>1. k # l /\ saved'[k] = saved[k] /\ wants'[k] = wants[k]
      BY <1>4 DEF Evicted, Health!End, HealthInv, LookupsTyped
    <3>2. wants[k] \in Barcode
      BY DEF HealthInv, LookupsTyped
    <3>3. Health!Places(wants[k]) = {}
      BY <1>7, <3>1, <3>2 DEF Evicted, Health!Places
    <3> QED
      BY <3>1, <3>3 DEF Evicted
  <2>2. IsFiniteSet(Request) /\ IsFiniteSet(S)
    BY FS_Subset, SizesAgree DEF Health!Assumptions
  <2>3. Cardinality(S) \in Nat /\ Cardinality(T) \in Nat /\ Cardinality(T) <= Cardinality(S \ {l}) /\ Cardinality(Request) \in Nat
        /\ Cardinality(S \ {l}) = IF l \in S THEN Cardinality(S) - 1 ELSE Cardinality(S)
    BY <2>1, <2>2, FS_Subset, FS_RemoveElement, FS_CardinalityType
  <2>4. l \in S <=> Health!Places(wants[l]) = {}
    BY <1>2 DEF Evicted
  <2>5. Len(cache) \in Nat /\ MaxEntries \in Nat
    BY DEF HealthInv, EntriesTyped, Health!Assumptions
  <2>6. {k \in Request : Evicted(k)}' = T
    OBVIOUS
  <2>7. Len(cache) + Cardinality(S) <= MaxEntries + Cardinality(Request) - 1
    BY DEF HealthInv, Room
  <2> HIDE DEF S, T
  <2>8. Len(cache') + Cardinality(T) <= MaxEntries + Cardinality(Request) - 1
    BY <1>7, <2>3, <2>4, <2>5, <2>7
  <2> QED
    BY <2>6, <2>8 DEF Room
<1> QED
  BY <1>1, <1>4, <1>8, <1>9 DEF HealthInv, Health!End

\* A lookup that begins changes neither the cache nor what is told of it.
LEMMA RoomStays ==
  ASSUME Health!Assumptions, HealthInv, cache' = cache, \A k \in Request : Evicted(k)' => Evicted(k)
  PROVE  Room'
<1> DEFINE S == {k \in Request : Evicted(k)}
           T == {k \in Request : Evicted(k)'}
<1>1. T \subseteq S /\ IsFiniteSet(S)
  BY FS_Subset, SizesAgree DEF Health!Assumptions
<1>2. Cardinality(S) \in Nat /\ Cardinality(T) \in Nat /\ Cardinality(T) <= Cardinality(S) /\ Cardinality(Request) \in Nat
  BY <1>1, FS_Subset, FS_CardinalityType, SizesAgree DEF Health!Assumptions
<1>3. Len(cache) \in Nat /\ MaxEntries \in Nat /\ Len(cache) + Cardinality(S) <= MaxEntries + Cardinality(Request) - 1
  BY DEF HealthInv, EntriesTyped, Health!Assumptions, Room
<1>4. {k \in Request : Evicted(k)}' = T
  OBVIOUS
<1> HIDE DEF S, T
<1>5. Len(cache') + Cardinality(T) <= MaxEntries + Cardinality(Request) - 1
  BY <1>2, <1>3
<1> QED
  BY <1>4, <1>5 DEF Room

LEMMA FetchKeeps ==
  ASSUME Health!Assumptions, HealthInv, NEW l \in Request, NEW b \in Barcode, NEW force \in BOOLEAN, Health!Fetch(l, b, force)
  PROVE  HealthInv'
<1>1. healthNow' = healthNow /\ cache' = cache /\ given' = given /\ last' = last /\ answer' = answer
  BY DEF Health!Fetch
<1>2. Health!Entry(b) # None => Health!Entry(b) \in Health!Entries /\ Health!Entry(b).barcode = b /\ Known(Health!Entry(b)) /\ Health!Places(b) # {}
  BY EntryFacts DEF HealthInv, EntriesTyped, EntriesKnown
<1>3. LookupsTyped'
  BY <1>2 DEF HealthInv, LookupsTyped, Health!Fetch, Health!Time
<1>4. CopiesKnown'
  BY <1>1, <1>2 DEF HealthInv, CopiesKnown, LookupsTyped, Known, Health!Fetch
<1>5. Room'
  <2>1. \A k \in Request : Evicted(k)' => Evicted(k)
    BY <1>1, <1>2 DEF HealthInv, LookupsTyped, Evicted, Health!Fetch, Health!Places
  <2> QED
    BY <1>1, <2>1, RoomStays
<1>6. Health!FreshIsFresh'
  BY <1>1 DEF HealthInv, LookupsTyped, Health!FreshIsFresh, Health!Fetch
<1>7. EntriesTyped' /\ OneEntryEach' /\ OutcomesTyped' /\ EntriesKnown' /\ Health!FailureShows'
  BY <1>1 DEF HealthInv, EntriesTyped, OneEntryEach, OutcomesTyped, EntriesKnown, Health!FailureShows, Known
<1> QED
  BY <1>1, <1>3, <1>4, <1>5, <1>6, <1>7 DEF HealthInv

LEMMA FromCacheKeeps ==
  ASSUME Health!Assumptions, HealthInv, NEW l \in Request, NEW b \in Barcode, Health!FromCache(l, b)
  PROVE  HealthInv'
<1>1. healthNow' = healthNow /\ cache' = cache /\ given' = given /\ last' = last /\ saved' = saved
  BY DEF Health!FromCache
<1>2. PICK i \in DOMAIN cache : Health!Entry(b) = cache[i] /\ cache[i].barcode = b
  BY EntryFacts DEF HealthInv, Health!FromCache, Health!Hit
<1>. Health!Entry(b) \in Health!Entries
  BY <1>2 DEF HealthInv, EntriesTyped
<1>3. Health!Entry(b).data \in Health!Data /\ Known(Health!Entry(b)) /\ Health!Entry(b).expires > healthNow
  BY <1>2 DEF HealthInv, EntriesKnown, Health!Entries, Health!FromCache, Health!Hit
<1>4. LookupsTyped'
  BY <1>3 DEF HealthInv, LookupsTyped, Health!FromCache, Health!Time
<1>5. CopiesKnown' /\ \A k \in Request : Evicted(k)' => Evicted(k)
  BY <1>1 DEF HealthInv, CopiesKnown, LookupsTyped, Known, Health!FromCache, Evicted, Health!Places
<1>6. Room'
  BY <1>1, <1>5, RoomStays
<1>7. Health!FreshIsFresh'
  <2> SUFFICES ASSUME NEW k \in Request, pc'[k] = "answered", answer'[k].facts
               PROVE  /\ <<wants'[k], answer'[k].at>> \in given'
                      /\ ~answer'[k].stale => ~answer'[k].down /\ began'[k] - answer'[k].at < SourceTTL
    BY DEF Health!FreshIsFresh
  <2>1. CASE k = l
    <3>1. answer'[l] = Health!Entry(b).data /\ wants'[l] = b /\ began'[l] = healthNow
      BY DEF HealthInv, LookupsTyped, Health!FromCache
    <3>2. <<b, Health!Entry(b).data.at>> \in given
      BY <1>2, <1>3, <2>1, <3>1 DEF Known
    <3>3. ~Health!Entry(b).data.stale => ~Health!Entry(b).data.down /\ Health!Entry(b).expires = Health!Entry(b).data.at + SourceTTL
      BY <1>2, <2>1, <3>1 DEF HealthInv, EntriesKnown
    <3>4. Health!Entry(b).data.at \in Int /\ SourceTTL \in Int /\ healthNow \in Int /\ Health!Entry(b).expires \in Int
      BY <1>3 DEF HealthInv, Health!Entries, Health!Data, Health!Time, Health!Assumptions
    <3> QED
      BY <1>1, <1>3, <2>1, <3>1, <3>2, <3>3, <3>4
  <2>2. CASE k # l
    <3>1. answer'[k] = answer[k] /\ pc[k] = "answered" /\ wants'[k] = wants[k] /\ began'[k] = began[k]
      BY <2>2 DEF HealthInv, LookupsTyped, Health!FromCache
    <3> QED
      BY <1>1, <3>1 DEF HealthInv, Health!FreshIsFresh
  <2> QED
    BY <2>1, <2>2
<1>8. EntriesTyped' /\ OneEntryEach' /\ OutcomesTyped' /\ EntriesKnown' /\ Health!FailureShows'
  BY <1>1 DEF HealthInv, EntriesTyped, OneEntryEach, OutcomesTyped, EntriesKnown, Health!FailureShows, Known
<1> QED
  BY <1>1, <1>4, <1>5, <1>6, <1>7, <1>8 DEF HealthInv

LEMMA ReturnKeeps ==
  ASSUME Health!Assumptions, HealthInv, NEW l \in Request, Health!Return(l)
  PROVE  HealthInv'
<1>1. healthNow' = healthNow /\ cache' = cache /\ given' = given /\ last' = last /\ saved' = saved
  BY DEF Health!Return
<1>2. (CHOOSE b \in Barcode : TRUE) \in Barcode
  BY DEF Health!Assumptions
<1>3. LookupsTyped'
  <2>1. Health!NoAnswer \in Health!Data /\ 0 \in 0..healthNow
    BY DEF HealthInv, Health!NoAnswer, Health!Data, Health!Time, Health!Assumptions
  <2> QED
    BY <1>1, <1>2, <2>1 DEF HealthInv, LookupsTyped, Health!Return
<1>4. CopiesKnown' /\ \A k \in Request : Evicted(k)' => Evicted(k)
  BY <1>1 DEF HealthInv, CopiesKnown, LookupsTyped, Known, Health!Return, Evicted, Health!Places
<1>5. Room'
  BY <1>1, <1>4, RoomStays
<1>6. Health!FreshIsFresh'
  BY <1>1 DEF HealthInv, LookupsTyped, Health!FreshIsFresh, Health!Return
<1>7. EntriesTyped' /\ OneEntryEach' /\ OutcomesTyped' /\ EntriesKnown' /\ Health!FailureShows'
  BY <1>1 DEF HealthInv, EntriesTyped, OneEntryEach, OutcomesTyped, EntriesKnown, Health!FailureShows, Known
<1> QED
  BY <1>1, <1>3, <1>4, <1>5, <1>6, <1>7 DEF HealthInv

LEMMA HealthTickKeeps ==
  ASSUME Health!Assumptions, HealthInv, Health!Tick
  PROVE  HealthInv'
<1>1. cache' = cache /\ Health!call' = Health!call /\ given' = given /\ last' = last
  BY DEF Health!Tick
<1>2. healthNow \in Health!Time /\ healthNow' \in Health!Time /\ healthNow <= healthNow' /\ healthNow \in Int /\ healthNow' \in Int
  BY DEF HealthInv, Health!Tick, Health!Time, Health!Assumptions
<1>3. \A i \in DOMAIN cache : KnownThen(cache[i])
  <2> TAKE i \in DOMAIN cache
  <2>1. cache[i] \in Health!Entries /\ Known(cache[i])
    BY DEF HealthInv, EntriesTyped, EntriesKnown
  <2> QED
    BY <1>1, <1>2, <2>1 DEF Known, KnownThen, Health!Entries, Health!Time
<1>4. EntriesTyped' /\ EntriesKnown'
  BY <1>1, <1>3 DEF HealthInv, EntriesTyped, EntriesKnown, Known, KnownThen
<1>5. LookupsTyped'
  BY <1>1, <1>2 DEF HealthInv, LookupsTyped, Health!call
<1>6. CopiesKnown'
  BY <1>1, <1>2 DEF HealthInv, LookupsTyped, CopiesKnown, Known, Health!Entries, Health!Time, Health!call
<1>7. Room'
  BY <1>1, RoomStays DEF Evicted, Health!Places, Health!call
<1>8. OneEntryEach' /\ OutcomesTyped' /\ Health!FailureShows' /\ Health!FreshIsFresh'
  BY <1>1 DEF HealthInv, OneEntryEach, OutcomesTyped, Health!FailureShows, Health!FreshIsFresh, Health!call
<1> QED
  BY <1>2, <1>4, <1>5, <1>6, <1>7, <1>8 DEF HealthInv

LEMMA HealthInit ==
  ASSUME Health!Assumptions, Health!Init
  PROVE  HealthInv
<1>1. (CHOOSE b \in Barcode : TRUE) \in Barcode
  BY DEF Health!Assumptions
<1>2. healthNow \in Health!Time /\ LookupsTyped /\ OutcomesTyped
  BY <1>1 DEF Health!Init, LookupsTyped, OutcomesTyped, Health!NoAnswer, Health!Data, Health!Time, Health!Assumptions
<1>3. cache = <<>> /\ cache \in Seq(Health!Entries) /\ DOMAIN cache = {} /\ Len(cache) = 0
  BY DEF Health!Init
<1>4. EntriesTyped /\ OneEntryEach /\ EntriesKnown /\ Health!FailureShows
  BY <1>3 DEF EntriesTyped, OneEntryEach, EntriesKnown, Health!FailureShows
<1>5. CopiesKnown /\ Health!FreshIsFresh
  BY DEF Health!Init, CopiesKnown, Health!FreshIsFresh
<1>6. Room
  <2>1. {l \in Request : Evicted(l)} = {}
    BY DEF Health!Init, Evicted
  <2>2. Cardinality({l \in Request : Evicted(l)}) = 0 /\ Cardinality(Request) \in Nat
    BY <2>1, FS_EmptySet, FS_CardinalityType, SizesAgree DEF Health!Assumptions
  <2> QED
    BY <1>3, <2>2 DEF Room, Health!Assumptions
<1> QED
  BY <1>2, <1>4, <1>5, <1>6 DEF HealthInv

LEMMA HealthNext ==
  ASSUME Health!Assumptions, HealthInv, [Health!Next]_(Health!vars)
  PROVE  HealthInv'
<1>1. CASE UNCHANGED Health!vars
  BY <1>1, RoomStays DEF HealthInv, EntriesTyped, OneEntryEach, LookupsTyped, OutcomesTyped, CopiesKnown, EntriesKnown, Health!FreshIsFresh,
    Health!FailureShows, Known, Evicted, Health!Places, Health!vars, Health!call
<1>2. CASE Health!Tick
  BY <1>2, HealthTickKeeps
<1>3. ASSUME NEW l \in Request, NEW b \in Barcode, Health!FromCache(l, b) \/ \E force \in BOOLEAN : Health!Fetch(l, b, force)
      PROVE  HealthInv'
  BY <1>3, FromCacheKeeps, FetchKeeps
<1>4. ASSUME NEW l \in Request, (\E facts \in BOOLEAN : Health!Found(l, facts)) \/ Health!Fails(l) \/ Health!Outdated(l) \/ Health!Return(l)
      PROVE  HealthInv'
  BY <1>4, FoundKeeps, FailsKeeps, OutdatedKeeps, ReturnKeeps
<1> QED
  BY <1>1, <1>2, <1>3, <1>4 DEF Health!Next

LEMMA HealthImplied ==
  ASSUME Health!Assumptions, HealthInv
  PROVE  Health!TypeOK /\ Health!FreshIsFresh /\ Health!FailureShows /\ Health!Bounded
<1>1. Health!TypeOK
  <2>1. \A i \in DOMAIN cache :
          /\ cache[i].barcode \in Barcode /\ cache[i].data \in Health!Data
          /\ cache[i].stored \in 0..healthNow /\ cache[i].data.at <= cache[i].stored
    <3> TAKE i \in DOMAIN cache
    <3>1. cache[i] \in Health!Entries /\ cache[i].stored <= healthNow /\ cache[i].data.at <= cache[i].stored
      BY DEF HealthInv, EntriesTyped
    <3> QED
      BY <3>1 DEF HealthInv, Health!Entries, Health!Time
  <2> QED
    BY <2>1 DEF Health!TypeOK, HealthInv, OneEntryEach, LookupsTyped, OutcomesTyped
<1>2. Health!Bounded
  <2>1. IsFiniteSet({l \in Request : Evicted(l)})
    BY FS_Subset, SizesAgree DEF Health!Assumptions
  <2>2. Cardinality({l \in Request : Evicted(l)}) \in Nat /\ Cardinality(Request) \in Nat
    BY <2>1, FS_CardinalityType, SizesAgree DEF Health!Assumptions
  <2> QED
    BY <2>2, SizesAgree DEF HealthInv, Room, Health!Bounded, EntriesTyped, Health!Assumptions
<1> QED
  BY <1>1, <1>2 DEF HealthInv
--------------------------------------------------------------------------------
(* The parts together. *)

\* A step of the server's parts is one of each, or leaves it alone.
LEMMA PartsStep ==
  ASSUME [NextParts]_everything
  PROVE  [Prices!Next]_(Prices!vars) /\ [Health!Next]_(Health!vars)
BY DEF NextParts, everything, vars, priceVars, healthVars, Prices!vars, Prices!stored, Health!vars, Health!call

\* Facts that are not called outdated are no older than they may be, a failed lookup shows
\* until one succeeds, and the cache is bounded: getProductHealth of src/productHealth.js, for
\* any number of products and of lookups at once, any limit and any lifetimes.
THEOREM FactsStayTrue == SpecParts => []FactsAreTrue
<1>1. Prices!Assumptions /\ Health!Assumptions
  BY PartsAssumption
<1>2. InitParts => HealthInv
  BY <1>1, HealthInit DEF InitParts
<1>3. HealthInv /\ [NextParts]_everything => HealthInv'
  BY <1>1, HealthNext, PartsStep
<1>4. HealthInv => FactsAreTrue
  BY <1>1, HealthImplied DEF FactsAreTrue
<1> QED
  BY <1>2, <1>3, <1>4, PTL DEF SpecParts

\* All that the run of the server's state checks of prices, for any number of retailers and
\* visitors and any age limit: src/priceService.js.
THEOREM PricesStayTrue == SpecParts => PricesAreTrue
<1>1. Prices!Assumptions
  BY PartsAssumption
<1>2. SpecParts => Prices!Init /\ [][Prices!Next]_(Prices!vars)
  <2>1. InitParts => Prices!Init
    BY DEF InitParts
  <2> QED
    BY <2>1, PartsStep, PTL DEF SpecParts
<1>3. Prices!Init /\ [][Prices!Next]_(Prices!vars) => [](Prices!TypeOK /\ Prices!NoOfferAfterNegative /\ Prices!NoMixture) /\ Prices!StaleIsSaid
  BY <1>1, OffersAreCurrent, OldPricesAreCalledStale
<1> QED
  BY <1>2, <1>3, PTL DEF PricesAreTrue, Prices!PricesAreTrue

\* Whichever part is at work, what is proved of the accounts by themselves holds.
THEOREM PartsAreSpec == SpecParts => Spec
<1>1. InitParts => Init
  BY DEF InitParts
<1>2. [NextParts]_everything => [Next]_vars
  BY DEF NextParts, everything
<1> QED
  BY <1>1, <1>2, PTL DEF SpecParts, Spec
================================================================================
