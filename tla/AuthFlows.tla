------------------------------- MODULE AuthFlows -------------------------------
(***************************************************************************)
(* Password accounts: src/authFlows.js with the register and login routes  *)
(* of src/server.js and the sessions that pwa/src/lib/auth-options.ts and  *)
(* its account-token route keep.                                           *)
(*                                                                         *)
(* A request asks for an action link by mail: look the account up, issue   *)
(* the link in a transaction that locks the account's row, mail it, and    *)
(* revoke it when mailing fails.  A confirmation uses a link up, in a      *)
(* transaction under the same row lock, and verifies the address or sets a *)
(* new password and raises auth_version.  A session carries the version    *)
(* its sign-in read; a call under it is refused when the version differs.  *)
(*                                                                         *)
(* A link is named after the request that issued it, a password after the  *)
(* registration or confirmation that set it.  Statements may fail, commit  *)
(* with their answer lost, or die with the process.                        *)
(***************************************************************************)
EXTENDS Naturals

CONSTANTS
  User,          \* e-mail addresses, one possible password account each
  Request,       \* requests for a link, and the links they issue
  Confirmation,  \* posts of a link's token
  Registration,  \* posts of the registration form
  Session,       \* sign-ins and the sessions they open
  Call,          \* calls of /users routes
  None

Password == Registration \cup Confirmation
Purpose  == {"verification", "password_reset"}

ASSUME NoneAssumption == None \notin Password \cup Request \cup Session \cup User
ASSUME PasswordAssumption == Registration \cap Confirmation = {} /\ Request \cap Confirmation = {}

VARIABLES
  account,   \* account[u]: the row of users; no password, no row
  link,      \* link[r]: the row of account_action_tokens
  lock,      \* lock[u]: the transaction that holds the row of u FOR UPDATE
  request,   \* request[r]: how far requestLink has come
  confirm,   \* confirm[c]: how far a confirmation has come
  register,  \* register[g]: how far a registration has come
  session,   \* session[s]: what the sign-in read
  call       \* call[k]: how far a call has come

vars == <<account, link, lock, request, confirm, register, session, call>>

NoLink    == [user |-> None, purpose |-> "verification", version |-> 0, used |-> FALSE, expired |-> FALSE]
Untouched == [phase |-> "idle", user |-> None, purpose |-> "verification", sent |-> FALSE]
Unposted  == [phase |-> "idle", link |-> None, inTime |-> FALSE, applied |-> FALSE]
SignedOut == [phase |-> "out", user |-> None, password |-> None, version |-> 0]
Unmade    == [phase |-> "idle", session |-> None, arrived |-> 0]

Init ==
  /\ account = [u \in User |-> [password |-> None, version |-> 0, verified |-> FALSE]]
  /\ link = [r \in Request |-> NoLink]
  /\ lock = [u \in User |-> None]
  /\ request = [r \in Request |-> Untouched]
  /\ confirm = [c \in Confirmation |-> Unposted]
  /\ register = [g \in Registration |-> [phase |-> "idle", user |-> None]]
  /\ session = [s \in Session |-> SignedOut]
  /\ call = [k \in Call |-> Unmade]

Exists(u) == account[u].password # None
RequestMoves(r, phase) == request' = [request EXCEPT ![r].phase = phase]
ConfirmMoves(c, phase) == confirm' = [confirm EXCEPT ![c].phase = phase]

--------------------------------------------------------------------------------
(* requestLink. *)

\* findPasswordUser, outside of any transaction; misses and accounts already
\* verified end here.
Find(r, u, p) ==
  /\ request[r].phase = "idle"
  /\ request' = [request EXCEPT ![r] =
       [phase |-> IF Exists(u) /\ ~(p = "verification" /\ account[u].verified) THEN "found" ELSE "ignored",
        user |-> u, purpose |-> p, sent |-> FALSE]]
  /\ UNCHANGED <<account, link, lock, confirm, register, session, call>>

\* issue: SELECT ... FOR UPDATE waits for the row.
IssueLocks(r) ==
  LET u == request[r].user IN
  /\ request[r].phase = "found"
  /\ lock[u] = None
  /\ IF request[r].purpose = "verification" /\ account[u].verified
       THEN RequestMoves(r, "ignored") /\ UNCHANGED lock
       ELSE RequestMoves(r, "issuing") /\ lock' = [lock EXCEPT ![u] = r]
  /\ UNCHANGED <<account, link, confirm, register, session, call>>

\* Mutant: only links that have expired are replaced.
ReplacedByAge(r) == {q \in Request : link[q].user = request[r].user /\ link[q].expired}

\* The links of the account and purpose that a new one replaces.
Replaced(r) == {q \in Request : link[q].user = request[r].user /\ link[q].purpose = request[r].purpose}

\* The transaction commits: older links are used up and the new one is stored
\* with the version read under the lock.  A lost answer makes the caller revoke.
IssueCommits(r) ==
  LET u == request[r].user IN
  /\ request[r].phase = "issuing"
  /\ link' = [q \in Request |->
       IF q = r THEN [NoLink EXCEPT !.user = u, !.purpose = request[r].purpose, !.version = account[u].version]
       ELSE [link[q] EXCEPT !.used = @ \/ q \in Replaced(r)]]
  /\ lock' = [lock EXCEPT ![u] = None]
  /\ RequestMoves(r, "mailing") \/ RequestMoves(r, "revoking")
  /\ UNCHANGED <<account, confirm, register, session, call>>

\* The provider takes the message or refuses it; when it throws the message
\* may still be on its way.
Mail(r) ==
  /\ request[r].phase = "mailing"
  /\ \/ request' = [request EXCEPT ![r].phase = "accepted", ![r].sent = TRUE]
     \/ \E sent \in BOOLEAN : request' = [request EXCEPT ![r].phase = "revoking", ![r].sent = sent]
  /\ UNCHANGED <<account, link, lock, confirm, register, session, call>>

\* issue throws and nothing is stored; the revocation is attempted all the same.
RequestFails(r) ==
  /\ request[r].phase \in {"found", "issuing"}
  /\ RequestMoves(r, "revoking")
  /\ lock' = [u \in User |-> IF lock[u] = r THEN None ELSE lock[u]]
  /\ UNCHANGED <<account, link, confirm, register, session, call>>

\* revoke; a failure of its own is swallowed.
Revoke(r) ==
  /\ request[r].phase = "revoking"
  /\ \/ link' = [link EXCEPT ![r].used = @ \/ link[r].user # None] /\ RequestMoves(r, "revoked")
     \/ RequestMoves(r, "unrevoked") /\ UNCHANGED link
  /\ UNCHANGED <<account, lock, confirm, register, session, call>>

--------------------------------------------------------------------------------
(* confirm. *)

\* The token is posted; NOW() is the time at which the transaction begins.
Post(c, r) ==
  /\ confirm[c].phase = "idle"
  /\ request[r].sent
  /\ confirm' = [confirm EXCEPT ![c] = [phase |-> "posted", link |-> r, inTime |-> ~link[r].expired, applied |-> FALSE]]
  /\ UNCHANGED <<account, link, lock, request, register, session, call>>

\* consume waits for the account's row; a link that is gone is invalid.
ConsumeLocks(c) ==
  LET r == confirm[c].link
      u == link[r].user IN
  /\ confirm[c].phase = "posted"
  /\ IF u = None THEN ConfirmMoves(c, "invalid") /\ UNCHANGED lock
     ELSE lock[u] = None /\ lock' = [lock EXCEPT ![u] = c] /\ ConfirmMoves(c, "consuming")
  /\ UNCHANGED <<account, link, request, register, session, call>>

\* The conditions of the UPDATE that uses the link up.
Consumable(c) ==
  LET r == confirm[c].link IN
  link[r].user # None /\ ~link[r].used /\ confirm[c].inTime /\ link[r].version = account[link[r].user].version

\* Mutant: a reset leaves the version alone.
ApplyKeepsVersion(c) ==
  LET r == confirm[c].link
      u == link[r].user
      reset == link[r].purpose = "password_reset" IN
  /\ account' = [account EXCEPT ![u] = IF reset THEN [@ EXCEPT !.password = c] ELSE [@ EXCEPT !.verified = TRUE]]
  /\ link' = [q \in Request |-> [link[q] EXCEPT !.used = @ \/ q = r \/ (reset /\ link[q].user = u)]]

\* A verification marks the address, a reset sets the password this
\* confirmation hashed, raises the version and uses up every link.
Apply(c) ==
  LET r == confirm[c].link
      u == link[r].user
      reset == link[r].purpose = "password_reset" IN
  /\ account' = [account EXCEPT ![u] =
       IF reset THEN [@ EXCEPT !.password = c, !.version = account[u].version + 1] ELSE [@ EXCEPT !.verified = TRUE]]
  /\ link' = [q \in Request |-> [link[q] EXCEPT !.used = @ \/ q = r \/ (reset /\ link[q].user = u)]]

\* The transaction commits; the answer is 200, 400, or 503 when it is lost.
ConsumeCommits(c) ==
  /\ confirm[c].phase = "consuming"
  /\ lock' = [u \in User |-> IF lock[u] = c THEN None ELSE lock[u]]
  /\ IF Consumable(c)
       THEN /\ Apply(c)
            /\ \E answer \in {"done", "unavailable"} :
                 confirm' = [confirm EXCEPT ![c].phase = answer, ![c].applied = TRUE]
       ELSE ConfirmMoves(c, "invalid") /\ UNCHANGED <<account, link>>
  /\ UNCHANGED <<request, register, session, call>>

\* A statement throws, the transaction is rolled back and the answer is 503.
ConfirmFails(c) ==
  /\ confirm[c].phase \in {"posted", "consuming"}
  /\ ConfirmMoves(c, "unavailable")
  /\ lock' = [u \in User |-> IF lock[u] = c THEN None ELSE lock[u]]
  /\ UNCHANGED <<account, link, request, register, session, call>>

Expire(r) ==
  /\ link[r].user # None /\ ~link[r].expired
  /\ link' = [link EXCEPT ![r].expired = TRUE]
  /\ UNCHANGED <<account, lock, request, confirm, register, session, call>>

\* cleanup deletes links a week after they expired.
Cleanup(r) ==
  /\ link[r].expired
  /\ link' = [link EXCEPT ![r] = NoLink]
  /\ UNCHANGED <<account, lock, request, confirm, register, session, call>>

--------------------------------------------------------------------------------
(* Registration, sign-in and calls. *)

\* createPasswordUser: an account seen by the SELECT is left alone.
RegisterLooks(g, u) ==
  /\ register[g].phase = "idle"
  /\ register' = [register EXCEPT ![g] = [phase |-> IF Exists(u) THEN "over" ELSE "inserting", user |-> u]]
  /\ UNCHANGED <<account, link, lock, request, confirm, session, call>>

\* INSERT ... ON CONFLICT DO NOTHING: the row appeared meanwhile, or is made.
RegisterInserts(g) ==
  LET u == register[g].user IN
  /\ register[g].phase = "inserting"
  /\ register' = [register EXCEPT ![g].phase = "over"]
  /\ account' = IF Exists(u) THEN account ELSE [account EXCEPT ![u].password = g]
  /\ UNCHANGED <<link, lock, request, confirm, session, call>>

\* /auth/login reads hash and version in one statement; a wrong password opens
\* no session and is left out.
LoginReads(s, u) ==
  /\ session[s].phase = "out"
  /\ Exists(u)
  /\ session' = [session EXCEPT ![s] =
       [phase |-> "checking", user |-> u, password |-> account[u].password, version |-> account[u].version]]
  /\ UNCHANGED <<account, link, lock, request, confirm, register, call>>

\* The hash is verified, which takes a while; the session keeps what was read.
LoginAnswers(s) ==
  /\ session[s].phase = "checking"
  /\ session' = [session EXCEPT ![s].phase = "open"]
  /\ UNCHANGED <<account, link, lock, request, confirm, register, call>>

\* A call arrives with a token signed from the session.
Arrive(k, s) ==
  /\ call[k].phase = "idle"
  /\ session[s].phase = "open"
  /\ call' = [call EXCEPT ![k] = [phase |-> "arrived", session |-> s, arrived |-> account[session[s].user].version]]
  /\ UNCHANGED <<account, link, lock, request, confirm, register, session>>

\* enforceCredentialVersion compares the token's version with the row's, or
\* answers 503; the handler runs later and does not look again.
Enforce(k) ==
  LET s == call[k].session IN
  /\ call[k].phase = "arrived"
  /\ \/ call' = [call EXCEPT ![k].phase =
            IF session[s].version = account[session[s].user].version THEN "admitted" ELSE "refused"]
     \/ call' = [call EXCEPT ![k].phase = "refused"]
  /\ UNCHANGED <<account, link, lock, request, confirm, register, session>>

Serve(k) ==
  /\ call[k].phase = "admitted"
  /\ call' = [call EXCEPT ![k].phase = "served"]
  /\ UNCHANGED <<account, link, lock, request, confirm, register, session>>

\* The process dies: its transactions are rolled back, nothing is revoked, and
\* a message may be on its way.
CrashRequest(r) ==
  /\ request[r].phase \in {"found", "issuing", "mailing", "revoking"}
  /\ \E sent \in BOOLEAN :
       /\ sent => request[r].phase = "mailing" \/ request[r].sent
       /\ request' = [request EXCEPT ![r].phase = "crashed", ![r].sent = @ \/ sent]
  /\ lock' = [u \in User |-> IF lock[u] = r THEN None ELSE lock[u]]
  /\ UNCHANGED <<account, link, confirm, register, session, call>>

Next ==
  \/ \E r \in Request :
       \/ \E u \in User, p \in Purpose : Find(r, u, p)
       \/ IssueLocks(r) \/ IssueCommits(r) \/ Mail(r) \/ RequestFails(r) \/ Revoke(r)
       \/ Expire(r) \/ Cleanup(r) \/ CrashRequest(r)
  \/ \E c \in Confirmation :
       (\E r \in Request : Post(c, r)) \/ ConsumeLocks(c) \/ ConsumeCommits(c) \/ ConfirmFails(c)
  \/ \E g \in Registration : (\E u \in User : RegisterLooks(g, u)) \/ RegisterInserts(g)
  \/ \E s \in Session : (\E u \in User : LoginReads(s, u)) \/ LoginAnswers(s)
  \/ \E k \in Call : (\E s \in Session : Arrive(k, s)) \/ Enforce(k) \/ Serve(k)

Spec == Init /\ [][Next]_vars

--------------------------------------------------------------------------------
(* Properties. *)

\* The types of the variables.
TypeOK ==
  /\ account \in [User -> [password : Password \cup {None}, version : Nat, verified : BOOLEAN]]
  /\ link \in [Request -> [user : User \cup {None}, purpose : Purpose, version : Nat, used : BOOLEAN, expired : BOOLEAN]]
  /\ lock \in [User -> Request \cup Confirmation \cup {None}]
  /\ request \in [Request -> [phase : {"idle", "found", "ignored", "issuing", "mailing", "revoking", "accepted",
                                       "revoked", "unrevoked", "crashed"},
                              user : User \cup {None}, purpose : Purpose, sent : BOOLEAN]]
  /\ confirm \in [Confirmation -> [phase : {"idle", "posted", "consuming", "done", "invalid", "unavailable"},
                                   link : Request \cup {None}, inTime : BOOLEAN, applied : BOOLEAN]]
  /\ register \in [Registration -> [phase : {"idle", "inserting", "over"}, user : User \cup {None}]]
  /\ session \in [Session -> [phase : {"out", "checking", "open"}, user : User \cup {None},
                              password : Password \cup {None}, version : Nat]]
  /\ call \in [Call -> [phase : {"idle", "arrived", "admitted", "refused", "served"},
                        session : Session \cup {None}, arrived : Nat]]
  /\ \A s \in Session : session[s].phase # "out" => session[s].user \in User /\ session[s].password \in Password
  /\ \A k \in Call : call[k].phase # "idle" => call[k].session \in Session

\* A link that a confirmation beginning now could use.
Live(r) == link[r].user # None /\ ~link[r].used /\ ~link[r].expired /\ link[r].version = account[link[r].user].version

\* Of an account's links of one purpose at most one can be used, however
\* requests, confirmations and revocations cross.
OneLiveLink ==
  \A q, r \in Request :
    Live(q) /\ Live(r) /\ link[q].user = link[r].user /\ link[q].purpose = link[r].purpose => q = r

\* Once an address is verified, none of its verification links can be used.
VerifiedNeedsNoLink ==
  \A r \in Request : Live(r) /\ link[r].purpose = "verification" => ~account[link[r].user].verified

\* A link changes its account at most once, although answers are lost and the
\* token is posted again, perhaps while the first post is still at work.
SingleUse ==
  \A c, d \in Confirmation : confirm[c].applied /\ confirm[d].applied /\ confirm[c].link = confirm[d].link => c = d

\* A request that reported a failed delivery and revoked leaves no link that
\* works, whether or not the message is on its way.
RevokedLinkIsDead == \A r \in Request : request[r].phase = "revoked" => ~Live(r)

\* A session whose version is current was opened with the current password,
\* also when the reset was committed while the sign-in compared hashes.
SessionKnowsPassword ==
  \A s \in Session :
    LET u == session[s].user IN
    session[s].phase # "out" /\ session[s].version = account[u].version => session[s].password = account[u].password

\* A call that arrives after a reset is committed is not served under a
\* session from before it.
RevokedSessionStaysOut ==
  \A k \in Call : call[k].phase \in {"admitted", "served"} => session[call[k].session].version >= call[k].arrived

\* Only a reset replaces the password of an account, and it raises the
\* version: a registration of the same address never does.
PasswordChangesByReset ==
  [][\A u \in User : account[u].password \notin {None, account'[u].password}
       => account'[u].version = account[u].version + 1]_vars

\* Of an account one link at most is live, a link works once and never after it
\* was revoked, and a verified account needs none.
LinksAreSound == TypeOK /\ OneLiveLink /\ VerifiedNeedsNoLink /\ SingleUse /\ RevokedLinkIsDead

\* A session stems from the password of its version, stays out once it was
\* revoked, and only a reset changes a password.
SessionsAreSound == [](SessionKnowsPassword /\ RevokedSessionStaysOut) /\ PasswordChangesByReset
================================================================================
