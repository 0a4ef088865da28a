-------------------------------- MODULE Sessions --------------------------------
(***************************************************************************)
(* AuthService of src/src/auth over the tables users and user_sessions:    *)
(* registration, login, refresh token rotation and logout.  Every request  *)
(* is a process, each await ends a step, and nothing here is transactional *)
(* beyond a single statement.                                              *)
(*                                                                         *)
(* A refresh token is a JWT whose payload is the user and whose times have *)
(* a resolution of one second, the tick of the clock here: two tokens of   *)
(* one user issued in one tick are the same string.  The database keeps its*)
(* hash, which identifies it.  A session row is named after the request    *)
(* that inserts it.  Access tokens are left to the guards.                 *)
(***************************************************************************)
EXTENDS Naturals, FiniteSets

CONSTANTS Calls,         \* the requests, and the ids of the sessions they store
          Emails,        \* registered or not; a user is known by the email
          TokenLife,     \* jwtRefreshExpiresIn, in ticks
          SessionLife,   \* the seven days issueTokenPair gives a session, in ticks
          MaxTime,       \* bound on the clock
          Null

ASSUME LivesAssumption == TokenLife \in Nat \ {0} /\ SessionLife \in Nat \ {0} /\ MaxTime \in Nat

VARIABLES now,        \* the clock, in seconds
          users,      \* users[e]: UserStatus of the account, Null before it exists
          sessions,   \* sessions[s]: the row of a session, Null before it is stored
          call        \* the requests

sessionVars == <<now, users, sessions, call>>

Times == 0 .. MaxTime
Token == [user : Emails, iat : Times]
Session == [token : Token, expires : Nat, revoked : BOOLEAN]
UserStates == {"ACTIVE", "SUSPENDED", Null}

ASSUME SessionNullAssumption ==
    Null \notin Calls \cup Emails \cup Token \cup Session \cup {"ACTIVE", "SUSPENDED", "ok"}

\* session is the row a refresh or logout holds; token the pair it has issued.
Call == [op : {"none", "register", "login", "refresh", "logout"},
         pc : {"new", "hash", "find", "revoke", "issue", "store", "done"},
         user : Emails \cup {Null}, session : Calls \cup {Null},
         shown : Token \cup {Null}, token : Token \cup {Null},
         answer : {Null, "ok", "unauthorized", "conflict", "error", "lost"}]

NoCall == [op |-> "none", pc |-> "new", user |-> Null, session |-> Null,
           shown |-> Null, token |-> Null, answer |-> Null]

Active(r) == call[r].pc \notin {"new", "done"}

End(r, answer) == call' = [call EXCEPT ![r].pc = "done", ![r].answer = answer]

\* A refused call leaves nothing behind that anything depends on.
Refuse(r, op, answer) ==
    call' = [call EXCEPT ![r] = [NoCall EXCEPT !.op = op, !.pc = "done", !.answer = answer]]

Begin(r, op, pc, user, shown) ==
    call' = [call EXCEPT ![r] = [NoCall EXCEPT !.op = op, !.pc = pc, !.user = user, !.shown = shown]]

-----------------------------------------------------------------------------
SessionInit ==
    /\ now = 0
    /\ users \in [Emails -> {Null, "ACTIVE"}]
    /\ sessions = [s \in Calls |-> Null]
    /\ call = [r \in Calls |-> NoCall]

\* register: the email is looked up, then the password is hashed ...
Register(r, e) ==
    /\ call[r] = NoCall
    /\ IF users[e] # Null THEN Refuse(r, "register", "conflict")
                          ELSE Begin(r, "register", "hash", e, Null)
    /\ UNCHANGED <<now, users, sessions>>

\* Faulty variant: no index on the email.
SaveUserUnchecked(r) ==
    /\ call[r].pc = "hash"
    /\ End(r, "ok") /\ users' = [users EXCEPT ![call[r].user] = "ACTIVE"]
    /\ UNCHANGED <<now, sessions>>

\* ... and the user saved.  The violation of the unique index on LOWER(email)
\* is not caught.
SaveUser(r) ==
    /\ call[r].pc = "hash"
    /\ IF users[call[r].user] # Null
       THEN Refuse(r, "register", "error") /\ UNCHANGED users
       ELSE End(r, "ok") /\ users' = [users EXCEPT ![call[r].user] = "ACTIVE"]
    /\ UNCHANGED <<now, sessions>>

\* login up to bcrypt.compare, with the right password or a wrong one.
Login(r, e) ==
    /\ call[r] = NoCall
    /\ \/ users[e] = "ACTIVE" /\ Begin(r, "login", "issue", e, Null)
       \/ Refuse(r, "login", "unauthorized")
    /\ UNCHANGED <<now, users, sessions>>

\* Faulty variant: revoked sessions match.
MatchesRevoked(s, token) == /\ sessions[s] # Null
                            /\ sessions[s].token = token
                            /\ sessions[s].expires > now

\* findOneActive: the session may be any that matches.
Matches(s, token) == /\ sessions[s] # Null
                     /\ sessions[s].token = token
                     /\ ~sessions[s].revoked
                     /\ sessions[s].expires > now

\* Faulty variant: the status of the account is not looked at.
RefreshAnyStatus(r, token) ==
    /\ call[r] = NoCall
    /\ IF token.iat + TokenLife <= now
       THEN Refuse(r, "refresh", "unauthorized")
       ELSE Begin(r, "refresh", "find", token.user, token)
    /\ UNCHANGED <<now, users, sessions>>

\* refresh up to the lookup of the session: the token is verified (it expires
\* by the clock) and the user read.
Refresh(r, token) ==
    /\ call[r] = NoCall
    /\ IF token.iat + TokenLife <= now \/ users[token.user] # "ACTIVE"
       THEN Refuse(r, "refresh", "unauthorized")
       ELSE Begin(r, "refresh", "find", token.user, token)
    /\ UNCHANGED <<now, users, sessions>>

\* logout decodes the token without verifying it.
Logout(r, token) ==
    /\ call[r] = NoCall
    /\ Begin(r, "logout", "find", token.user, token)
    /\ UNCHANGED <<now, users, sessions>>

\* A logout that finds no session is answered like one that does.
FindSession(r) ==
    /\ call[r].pc = "find"
    /\ \/ \E s \in Calls :
            /\ Matches(s, call[r].shown)
            /\ call' = [call EXCEPT ![r].pc = "revoke", ![r].session = s]
       \/ /\ \A s \in Calls : ~Matches(s, call[r].shown)
          /\ IF call[r].op = "refresh" THEN Refuse(r, "refresh", "unauthorized")
                                       ELSE End(r, "ok")
    /\ UNCHANGED <<now, users, sessions>>

\* Faulty variant: the revocation is not saved.
RevokeUnsaved(r) ==
    /\ call[r].pc = "revoke"
    /\ IF call[r].op = "refresh" THEN call' = [call EXCEPT ![r].pc = "issue"]
                                 ELSE End(r, "ok")
    /\ UNCHANGED <<now, users, sessions>>

\* session.revokedAt is set and saved, whatever the row has become meanwhile.
Revoke(r) ==
    /\ call[r].pc = "revoke"
    /\ sessions' = [sessions EXCEPT ![call[r].session].revoked = TRUE]
    /\ IF call[r].op = "refresh" THEN call' = [call EXCEPT ![r].pc = "issue"]
                                 ELSE End(r, "ok")
    /\ UNCHANGED <<now, users>>

\* issueTokenPair: the new refresh token carries the user and the second.
IssueTokenPair(r) ==
    /\ call[r].pc = "issue"
    /\ call' = [call EXCEPT ![r].pc = "store", ![r].token = [user |-> call[r].user, iat |-> now]]
    /\ UNCHANGED <<now, users, sessions>>

\* Faulty variant: the session stores the token that was shown.
StoreSessionShown(r, answer) ==
    /\ call[r].pc = "store"
    /\ sessions' = [sessions EXCEPT ![r] =
         [token |-> call[r].shown, expires |-> call[r].token.iat + SessionLife,
          revoked |-> FALSE]]
    /\ End(r, answer)
    /\ UNCHANGED <<now, users>>

\* The new session is inserted; the answer that carries the tokens may be lost.
\* expiresAt was computed when the pair was issued.
StoreSession(r, answer) ==
    /\ call[r].pc = "store"
    /\ sessions' = [sessions EXCEPT ![r] =
         [token |-> call[r].token, expires |-> call[r].token.iat + SessionLife,
          revoked |-> FALSE]]
    /\ End(r, answer)
    /\ UNCHANGED <<now, users>>

\* A query fails or the process dies: what has been committed stays.  logout
\* swallows the failure of its queries.
FailCall(r) ==
    /\ Active(r)
    /\ \/ End(r, "lost")
       \/ call[r].op = "logout" /\ End(r, "ok")
    /\ UNCHANGED <<now, users, sessions>>

\* Accounts are suspended and restored by nobody in this code, from outside.
SetStatus(e) ==
    /\ users[e] # Null
    /\ users' = [users EXCEPT ![e] = IF @ = "ACTIVE" THEN "SUSPENDED" ELSE "ACTIVE"]
    /\ UNCHANGED <<now, sessions, call>>

Tick == now < MaxTime /\ now' = now + 1 /\ UNCHANGED <<users, sessions, call>>

\* The tokens the service has given out.
Issued == {call[r].token : r \in {q \in Calls : call[q].answer = "ok" /\ call[q].token # Null}}

CallStep(r) ==
    \/ SaveUser(r) \/ FindSession(r) \/ Revoke(r) \/ IssueTokenPair(r)
    \/ StoreSession(r, "ok") \/ StoreSession(r, "lost") \/ FailCall(r)

SessionNext ==
    \/ \E r \in Calls : \/ \E e \in Emails : Register(r, e) \/ Login(r, e)
                        \/ \E t \in Issued : Refresh(r, t) \/ Logout(r, t)
                        \/ CallStep(r)
    \/ \E e \in Emails : SetStatus(e)
    \/ Tick

SessionSpec == SessionInit /\ [][SessionNext]_sessionVars
-----------------------------------------------------------------------------
(* Properties *)

\* Every variable has its type.
SessionTypeOK ==
    /\ now \in Times
    /\ users \in [Emails -> UserStates]
    /\ sessions \in [Calls -> Session \cup {Null}]
    /\ call \in [Calls -> Call]

\* Of all concurrent registrations of an email at most one succeeds: the index
\* decides what the lookup before the hashing cannot.
RegisteredOnce ==
    \A r, q \in Calls :
        /\ call[r].op = "register" /\ call[r].answer = "ok"
        /\ call[q].op = "register" /\ call[q].answer = "ok"
        /\ call[r].user = call[q].user
        => r = q

\* A rotation, wherever it fails, never leaves the old session behind with the
\* new one: a pair is issued only after the session it replaces is revoked.
RotationRevokesFirst ==
    \A r \in Calls :
        call[r].op = "refresh" /\ call[r].token # Null =>
            sessions[call[r].session].revoked

SessionsOf(e) == {s \in Calls : sessions[s] # Null /\ sessions[s].token.user = e}

\* e is suspended and no login or refresh that read it before is under way.
ShutOut(e) == users[e] = "SUSPENDED"
              /\ \A r \in Calls : call[r].user = e => ~Active(r) \/ call[r].op = "logout"

\* A suspended account gets no session: once the calls that read it before have
\* ended, neither a password nor a refresh token opens one until it is restored.
SuspendedGetsNoSession ==
    [][\A e \in Emails : ShutOut(e) =>
          /\ ShutOut(e)' \/ users'[e] = "ACTIVE"
          /\ SessionsOf(e)' = SessionsOf(e)]_sessionVars

\* The second of t has passed, each of its sessions is revoked or expired, and
\* no call has one of them in hand or is about to store one.
Spent(t) ==
    /\ t.iat < now
    /\ \A s \in Calls : sessions[s] # Null /\ sessions[s].token = t =>
                         sessions[s].revoked \/ sessions[s].expires <= now
    /\ \A r \in Calls : Active(r) => /\ call[r].token # t
                                     /\ call[r].session # Null => call[r].shown # t

\* A refresh token that is spent stays spent: no order of calls brings it back.
SpentStaysSpent == [][\A t \in Token : Spent(t) => Spent(t)']_sessionVars

(* What the repository says and concurrent refreshes break *)

\* `Validate session & revoke old token (RTR)': a session is rotated once, the
\* token it stood for buys one new pair.
RotatedOnce ==
    \A r, q \in Calls :
        /\ call[r].op = "refresh" /\ call[r].token # Null
        /\ call[q].op = "refresh" /\ call[q].token # Null
        /\ call[r].session = call[q].session
        => r = q
===============================================================================
