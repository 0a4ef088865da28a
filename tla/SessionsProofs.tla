----------------------------- MODULE SessionsProofs -----------------------------
(***************************************************************************)
(* What holds of sessions and tokens for any number of requests and users  *)
(* and any lifetimes.  One invariant says what every call in progress may  *)
(* count on; because accounts and sessions only ever move one way, a step  *)
(* of one call leaves what the others count on intact.                     *)
(***************************************************************************)
EXTENDS Sessions, TLAPS

\* What a call c counts on, given the accounts U and the sessions S: the session
\* it holds is stored, a refresh that may issue a pair has revoked it, and who
\* has registered has an account.
CallSound(c, U, S) ==
    /\ c.pc = "hash" => c.op = "register"
    /\ c.pc \in {"find", "revoke"} => c.op \in {"refresh", "logout"} /\ c.shown \in Token
    /\ c.pc \in {"issue", "store"} => c.op \in {"login", "refresh"}
    /\ c.pc \notin {"new", "done"} => c.user \in Emails
    /\ c.pc \notin {"store", "done"} => c.token = Null
    /\ c.pc = "revoke" => c.session \in Calls /\ S[c.session] # Null
    /\ c.pc = "store" => c.token \in Token /\ c.token.user = c.user
    /\ c.op = "register" /\ c.answer = "ok" => c.user \in Emails /\ U[c.user] # Null
    /\ c.op = "refresh" /\ (c.pc = "issue" \/ c.token # Null) =>
         c.session \in Calls /\ S[c.session] # Null /\ S[c.session].revoked

CallsSound == \A r \in Calls : CallSound(call[r], users, sessions)

\* A session is stored by the last step of the call it is named after.
StoredOnce == \A s \in Calls : sessions[s] # Null => call[s].pc = "done"

SessionInv == SessionTypeOK /\ CallsSound /\ StoredOnce /\ RegisteredOnce

\* Accounts and sessions never disappear, sessions keep their token and their
\* time, and what is revoked stays revoked.
Onward(U, V, S, T) ==
    /\ \A e \in Emails : U[e] # Null => V[e] # Null
    /\ \A s \in Calls : S[s] # Null =>
         T[s] # Null /\ T[s].token = S[s].token /\ T[s].expires = S[s].expires
         /\ (S[s].revoked => T[s].revoked)

LEMMA SoundOnward ==
    ASSUME NEW c, NEW U, NEW V, NEW S, NEW T, Onward(U, V, S, T), CallSound(c, U, S)
    PROVE  CallSound(c, V, T)
BY DEF CallSound, Onward

LEMMA NullApart ==
    Null \notin Calls /\ Null \notin Emails /\ Null \notin Token /\ Null \notin Session
    /\ Null # "ACTIVE" /\ Null # "SUSPENDED" /\ Null # "ok"
BY SessionNullAssumption

LEMMA NoCallSound ==
    /\ NoCall \in Call /\ NoCall.op = "none" /\ NoCall.pc = "new" /\ NoCall.user = Null
    /\ NoCall.token = Null /\ NoCall.answer = Null
BY DEF NoCall, Call

LEMMA InitSound == SessionInit => SessionInv
<1> SUFFICES ASSUME SessionInit PROVE SessionInv
  OBVIOUS
<1>1. SessionTypeOK
  BY NoCallSound, LivesAssumption DEF SessionInit, SessionTypeOK, Times, UserStates
<1>2. \A r \in Calls : sessions[r] = Null /\ call[r] = NoCall
  BY DEF SessionInit
<1>3. CallsSound
  BY <1>2, NoCallSound DEF CallsSound, CallSound
<1>4. StoredOnce /\ RegisteredOnce
  BY <1>2, NoCallSound DEF StoredOnce, RegisteredOnce
<1> QED BY <1>1, <1>3, <1>4 DEF SessionInv

\* A step of one call that leaves the tables going onward, and after which the
\* call may count on what it did, keeps the invariant.  It does not register.
LEMMA StepSound ==
    ASSUME SessionInv, NEW r \in Calls, NEW next \in Call, call' = [call EXCEPT ![r] = next],
           now' \in Times, users' \in [Emails -> UserStates],
           sessions' \in [Calls -> Session \cup {Null}],
           Onward(users, users', sessions, sessions'),
           CallSound(next, users', sessions'),
           \A s \in Calls : sessions'[s] # Null => sessions[s] # Null \/ (s = r /\ next.pc = "done"),
           sessions[r] # Null => next.pc = "done",
           next.op = "register" /\ next.answer = "ok" =>
             users[next.user] = Null \/ next = call[r]
    PROVE  SessionInv'
<1>1. \A q \in Calls : call'[q] = IF q = r THEN next ELSE call[q]
  BY DEF SessionInv, SessionTypeOK
<1>2. SessionTypeOK'
  BY DEF SessionInv, SessionTypeOK
<1>3. CallsSound'
  BY <1>1, SoundOnward DEF SessionInv, CallsSound
<1>4. StoredOnce'
  BY <1>1 DEF SessionInv, StoredOnce
<1>5. RegisteredOnce'
  <2> SUFFICES ASSUME NEW p \in Calls, NEW q \in Calls,
                      call'[p].op = "register", call'[p].answer = "ok",
                      call'[q].op = "register", call'[q].answer = "ok",
                      call'[p].user = call'[q].user, p # q
               PROVE  FALSE
    BY DEF RegisteredOnce
  <2>1. CASE (p # r /\ q # r) \/ next = call[r]
    BY <1>1, <2>1 DEF SessionInv, RegisteredOnce
  <2>2. CASE next # call[r] /\ p = r
    BY <1>1, <2>2 DEF SessionInv, CallsSound, CallSound
  <2>3. CASE next # call[r] /\ q = r
    BY <1>1, <2>3 DEF SessionInv, CallsSound, CallSound
  <2> QED BY <2>1, <2>2, <2>3
<1> QED BY <1>2, <1>3, <1>4, <1>5 DEF SessionInv

\* The same for a step that changes neither table nor clock.
LEMMA QuietSound ==
    ASSUME SessionInv, NEW r \in Calls, NEW next \in Call, call' = [call EXCEPT ![r] = next],
           UNCHANGED <<now, users, sessions>>, CallSound(next, users, sessions),
           call[r].pc # "done",
           next.op # "register" \/ next.answer # "ok"
    PROVE  SessionInv'
<1>1. sessions[r] = Null
  BY DEF SessionInv, StoredOnce
<1>2. Onward(users, users', sessions, sessions')
  BY DEF Onward
<1>3. CallSound(next, users', sessions')
  BY DEF CallSound
<1>4. /\ now' \in Times /\ users' \in [Emails -> UserStates]
      /\ sessions' \in [Calls -> Session \cup {Null}]
  BY DEF SessionInv, SessionTypeOK
<1>5. \A s \in Calls : sessions'[s] # Null => sessions[s] # Null \/ (s = r /\ next.pc = "done")
  OBVIOUS
<1>6. sessions[r] # Null => next.pc = "done"
  BY <1>1
<1>7. next.op = "register" /\ next.answer = "ok" => users[next.user] = Null \/ next = call[r]
  OBVIOUS
<1> QED BY <1>2, <1>3, <1>4, <1>5, <1>6, <1>7, StepSound

LEMMA RefuseSound ==
    ASSUME SessionInv, NEW r \in Calls, call[r].pc # "done",
           NEW op \in {"register", "login", "refresh"},
           NEW a \in {"unauthorized", "conflict", "error"},
           Refuse(r, op, a), UNCHANGED <<now, users, sessions>>
    PROVE  SessionInv'
<1> DEFINE next == [NoCall EXCEPT !.op = op, !.pc = "done", !.answer = a]
<1>1. call' = [call EXCEPT ![r] = next]
  BY DEF Refuse
<1>2. /\ next \in Call /\ next.op = op /\ next.pc = "done" /\ next.answer = a /\ next.user = Null
      /\ next.token = Null
  BY DEF NoCall, Call
<1> HIDE DEF next
<1>3. CallSound(next, users, sessions)
  BY <1>2 DEF CallSound
<1> QED BY <1>1, <1>2, <1>3, QuietSound

\* A call that ends with what it knows, and has not registered, goes on to be sound.
LEMMA EndSound ==
    ASSUME SessionInv, NEW r \in Calls, Active(r), NEW a \in {"ok", "lost"},
           End(r, a), a = "ok" => call[r].op # "register", UNCHANGED <<now, users, sessions>>
    PROVE  SessionInv'
<1> DEFINE next == [call[r] EXCEPT !.pc = "done", !.answer = a]
<1>1. call' = [call EXCEPT ![r] = next]
  BY DEF End, SessionInv, SessionTypeOK, Call
<1>2. call[r] \in Call /\ CallSound(call[r], users, sessions)
  BY DEF SessionInv, SessionTypeOK, CallsSound
<1>3. /\ next \in Call /\ next.pc = "done" /\ next.answer = a /\ next.op = call[r].op
      /\ next.user = call[r].user /\ next.session = call[r].session /\ next.token = call[r].token
  BY <1>2 DEF Call
<1> HIDE DEF next
<1>4. CallSound(next, users, sessions)
  BY <1>2, <1>3 DEF CallSound
<1> QED BY <1>1, <1>3, <1>4, QuietSound DEF Active

LEMMA BeginSound ==
    ASSUME SessionInv, NEW r \in Calls, call[r] = NoCall,
           NEW op \in {"register", "login", "refresh", "logout"},
           NEW pc \in {"hash", "find", "issue"}, NEW u \in Emails, NEW shown \in Token \cup {Null},
           pc = "hash" => op = "register",
           pc = "find" => op \in {"refresh", "logout"} /\ shown \in Token,
           pc = "issue" => op = "login",
           Begin(r, op, pc, u, shown), UNCHANGED <<now, users, sessions>>
    PROVE  SessionInv'
<1> DEFINE next == [NoCall EXCEPT !.op = op, !.pc = pc, !.user = u, !.shown = shown]
<1>1. call' = [call EXCEPT ![r] = next]
  BY DEF Begin
<1>2. /\ next \in Call /\ next.op = op /\ next.pc = pc /\ next.user = u /\ next.shown = shown
      /\ next.token = Null /\ next.answer = Null
  BY DEF NoCall, Call
<1> HIDE DEF next
<1>3. CallSound(next, users, sessions)
  BY <1>2, NullApart DEF CallSound
<1>4. call[r].pc # "done"
  BY NoCallSound
<1>5. next.op # "register" \/ next.answer # "ok"
  BY <1>2, NullApart
<1> QED BY <1>1, <1>2, <1>3, <1>4, <1>5, QuietSound

-----------------------------------------------------------------------------
(* One lemma per action *)

LEMMA RegisterSound ==
    ASSUME SessionInv, NEW r \in Calls, NEW e \in Emails, Register(r, e) PROVE SessionInv'
<1>1. call[r] = NoCall /\ call[r].pc # "done" /\ UNCHANGED <<now, users, sessions>>
  BY NoCallSound DEF Register
<1>2. CASE users[e] # Null
  BY <1>1, <1>2, RefuseSound DEF Register
<1>3. CASE users[e] = Null
  BY <1>1, <1>3, BeginSound DEF Register
<1> QED BY <1>2, <1>3

LEMMA LoginSound ==
    ASSUME SessionInv, NEW r \in Calls, NEW e \in Emails, Login(r, e) PROVE SessionInv'
<1>1. call[r] = NoCall /\ call[r].pc # "done" /\ UNCHANGED <<now, users, sessions>>
  BY NoCallSound DEF Login
<1>2. CASE Refuse(r, "login", "unauthorized")
  BY <1>1, <1>2, RefuseSound
<1>3. CASE Begin(r, "login", "issue", e, Null)
  BY <1>1, <1>3, BeginSound
<1> QED BY <1>2, <1>3 DEF Login

\* What the service has given out are tokens.
LEMMA IssuedTokens == SessionInv => Issued \subseteq Token
<1> SUFFICES ASSUME SessionInv, NEW r \in Calls, call[r].token # Null PROVE call[r].token \in Token
  BY DEF Issued
<1> QED BY DEF SessionInv, SessionTypeOK, Call

LEMMA RefreshSound ==
    ASSUME SessionInv, NEW r \in Calls, NEW t \in Token, Refresh(r, t) PROVE SessionInv'
<1>1. call[r] = NoCall /\ call[r].pc # "done" /\ UNCHANGED <<now, users, sessions>>
  BY NoCallSound DEF Refresh
<1>2. CASE Refuse(r, "refresh", "unauthorized")
  BY <1>1, <1>2, RefuseSound
<1>3. CASE Begin(r, "refresh", "find", t.user, t)
  <2>1. t.user \in Emails
    BY DEF Token
  <2> QED BY <1>1, <1>3, <2>1, BeginSound
<1> QED BY <1>2, <1>3 DEF Refresh

LEMMA LogoutSound ==
    ASSUME SessionInv, NEW r \in Calls, NEW t \in Token, Logout(r, t) PROVE SessionInv'
<1>1. call[r] = NoCall /\ UNCHANGED <<now, users, sessions>>
  BY DEF Logout
<1>2. t.user \in Emails /\ Begin(r, "logout", "find", t.user, t)
  BY DEF Logout, Token
<1> QED BY <1>1, <1>2, BeginSound

LEMMA FailCallSound == ASSUME SessionInv, NEW r \in Calls, FailCall(r) PROVE SessionInv'
<1>1. Active(r) /\ UNCHANGED <<now, users, sessions>>
  BY DEF FailCall
<1>2. PICK a \in {"ok", "lost"} : End(r, a) /\ (a = "ok" => call[r].op # "register")
  BY DEF FailCall
<1> QED BY <1>1, <1>2, EndSound

LEMMA SaveUserSound == ASSUME SessionInv, NEW r \in Calls, SaveUser(r) PROVE SessionInv'
<1> DEFINE c == call[r]
<1> DEFINE next == [c EXCEPT !.pc = "done", !.answer = "ok"]
<1>1. /\ c.pc = "hash" /\ c \in Call /\ CallSound(c, users, sessions)
      /\ c.user \in Emails /\ c.op = "register" /\ c.token = Null
      /\ UNCHANGED <<now, sessions>>
  BY DEF SaveUser, SessionInv, SessionTypeOK, CallsSound, CallSound
<1>2. CASE users[c.user] # Null
  BY <1>1, <1>2, RefuseSound DEF SaveUser
<1>3. CASE users[c.user] = Null
  <2>1. /\ call' = [call EXCEPT ![r] = next]
        /\ users' = [users EXCEPT ![c.user] = "ACTIVE"] /\ sessions' = sessions /\ now' = now
    BY <1>3 DEF SaveUser, End, SessionInv, SessionTypeOK, Call
  <2>2. /\ next \in Call /\ next.pc = "done" /\ next.op = c.op /\ next.user = c.user
        /\ next.token = c.token
    BY <1>1 DEF Call
  <2> HIDE DEF next
  <2>3. users' \in [Emails -> UserStates] /\ users'[c.user] = "ACTIVE"
    BY <1>1, <2>1 DEF SessionInv, SessionTypeOK, UserStates
  <2>4. Onward(users, users', sessions, sessions')
    BY <1>1, <2>1, NullApart DEF Onward, SessionInv, SessionTypeOK
  <2>5. CallSound(next, users', sessions')
    BY <1>1, <2>2, <2>3, NullApart DEF CallSound
  <2>6. users[next.user] = Null
    BY <1>3, <2>2
  <2>7. now' \in Times /\ sessions' \in [Calls -> Session \cup {Null}]
    BY <2>1 DEF SessionInv, SessionTypeOK
  <2> HIDE DEF c
  <2> QED BY <2>1, <2>2, <2>3, <2>4, <2>5, <2>6, <2>7, StepSound
<1> QED BY <1>2, <1>3

LEMMA FindSessionSound == ASSUME SessionInv, NEW r \in Calls, FindSession(r) PROVE SessionInv'
<1> DEFINE c == call[r]
<1>1. /\ c.pc = "find" /\ c \in Call /\ CallSound(c, users, sessions) /\ Active(r)
      /\ c.op \in {"refresh", "logout"} /\ c.token = Null /\ c.pc # "done"
      /\ UNCHANGED <<now, users, sessions>>
  BY DEF FindSession, SessionInv, SessionTypeOK, CallsSound, CallSound, Active
<1>2. CASE Refuse(r, "refresh", "unauthorized")
  BY <1>1, <1>2, RefuseSound
<1>3. CASE End(r, "ok")
  BY <1>1, <1>3, EndSound
<1>4. ASSUME NEW s \in Calls, Matches(s, c.shown),
             call' = [call EXCEPT ![r].pc = "revoke", ![r].session = s]
      PROVE  SessionInv'
  <2> DEFINE next == [c EXCEPT !.pc = "revoke", !.session = s]
  <2>1. call' = [call EXCEPT ![r] = next]
    BY <1>4 DEF SessionInv, SessionTypeOK, Call
  <2>2. /\ next \in Call /\ next.pc = "revoke" /\ next.op = c.op /\ next.user = c.user
        /\ next.token = c.token /\ next.session = s /\ next.shown = c.shown
    BY <1>1 DEF Call
  <2> HIDE DEF next
  <2>3. CallSound(next, users, sessions)
    BY <1>1, <1>4, <2>2 DEF CallSound, Matches
  <2> QED BY <1>1, <2>1, <2>2, <2>3, QuietSound
<1> QED BY <1>2, <1>3, <1>4 DEF FindSession

\* Revoking a session that is stored leaves it stored.
LEMMA RevokedSession ==
    ASSUME SessionInv, NEW s \in Calls, sessions[s] # Null,
           sessions' = [sessions EXCEPT ![s].revoked = TRUE]
    PROVE  /\ sessions' \in [Calls -> Session \cup {Null}]
           /\ sessions'[s] # Null /\ sessions'[s].revoked
           /\ Onward(users, users, sessions, sessions')
           /\ \A q \in Calls : sessions'[q] # Null => sessions[q] # Null
<1> DEFINE row == [sessions[s] EXCEPT !.revoked = TRUE]
<1>1. sessions[s] \in Session /\ sessions' = [sessions EXCEPT ![s] = row]
  BY DEF SessionInv, SessionTypeOK
<1>2. row \in Session /\ row.revoked /\ row.token = sessions[s].token
      /\ row.expires = sessions[s].expires
  BY <1>1 DEF Session
<1> HIDE DEF row
<1>3. row # Null
  BY <1>2, NullApart
<1>4. \A q \in Calls : sessions'[q] = IF q = s THEN row ELSE sessions[q]
  BY <1>1 DEF SessionInv, SessionTypeOK
<1>5. sessions' \in [Calls -> Session \cup {Null}]
  BY <1>1, <1>2 DEF SessionInv, SessionTypeOK
<1> QED BY <1>2, <1>3, <1>4, <1>5 DEF Onward

LEMMA RevokeSound == ASSUME SessionInv, NEW r \in Calls, Revoke(r) PROVE SessionInv'
<1> DEFINE c == call[r]
<1>1. /\ c.pc = "revoke" /\ c \in Call /\ CallSound(c, users, sessions)
      /\ c.op \in {"refresh", "logout"} /\ c.session \in Calls /\ sessions[c.session] # Null
      /\ c.token = Null /\ c.user \in Emails
      /\ now' = now /\ users' = users
      /\ sessions' = [sessions EXCEPT ![c.session].revoked = TRUE]
  BY DEF Revoke, SessionInv, SessionTypeOK, CallsSound, CallSound
<1>2. PICK next \in Call :
        /\ call' = [call EXCEPT ![r] = next]
        /\ next.pc = IF c.op = "refresh" THEN "issue" ELSE "done"
        /\ next.op = c.op /\ next.user = c.user /\ next.session = c.session
        /\ next.token = c.token
  <2>1. CASE c.op = "refresh"
    <3> DEFINE next == [c EXCEPT !.pc = "issue"]
    <3>1. call' = [call EXCEPT ![r] = next]
      BY <2>1 DEF Revoke, SessionInv, SessionTypeOK, Call
    <3>2. next \in Call /\ next.pc = "issue" /\ next.op = c.op /\ next.user = c.user
          /\ next.session = c.session /\ next.token = c.token
      BY <1>1 DEF Call
    <3> QED BY <2>1, <3>1, <3>2
  <2>2. CASE c.op # "refresh"
    <3> DEFINE next == [c EXCEPT !.pc = "done", !.answer = "ok"]
    <3>1. call' = [call EXCEPT ![r] = next]
      BY <2>2 DEF Revoke, End, SessionInv, SessionTypeOK, Call
    <3>2. next \in Call /\ next.pc = "done" /\ next.op = c.op /\ next.user = c.user
          /\ next.session = c.session /\ next.token = c.token
      BY <1>1 DEF Call
    <3> QED BY <2>2, <3>1, <3>2
  <2> QED BY <2>1, <2>2
<1> HIDE DEF c
<1>3. /\ sessions' \in [Calls -> Session \cup {Null}]
      /\ sessions'[c.session] # Null /\ sessions'[c.session].revoked
      /\ Onward(users, users', sessions, sessions')
      /\ \A q \in Calls : sessions'[q] # Null => sessions[q] # Null
  BY <1>1, RevokedSession
<1>4. CallSound(next, users', sessions')
  BY <1>1, <1>2, <1>3 DEF CallSound
<1>5. now' \in Times /\ users' \in [Emails -> UserStates] /\ sessions[r] = Null
  BY <1>1 DEF c, SessionInv, SessionTypeOK, StoredOnce
<1>6. next.op # "register"
  BY <1>1, <1>2
<1> QED BY <1>2, <1>3, <1>4, <1>5, <1>6, StepSound

LEMMA IssueSound == ASSUME SessionInv, NEW r \in Calls, IssueTokenPair(r) PROVE SessionInv'
<1> DEFINE c == call[r]
<1> DEFINE pair == [user |-> c.user, iat |-> now]
<1> DEFINE next == [c EXCEPT !.pc = "store", !.token = pair]
<1>1. /\ c.pc = "issue" /\ c \in Call /\ CallSound(c, users, sessions) /\ c.user \in Emails
      /\ c.op \in {"login", "refresh"} /\ c.pc # "done" /\ UNCHANGED <<now, users, sessions>>
  BY DEF IssueTokenPair, SessionInv, SessionTypeOK, CallsSound, CallSound
<1>2. call' = [call EXCEPT ![r] = next]
  BY DEF IssueTokenPair, SessionInv, SessionTypeOK, Call
<1>3. pair \in Token /\ pair.user = c.user
  BY <1>1 DEF SessionInv, SessionTypeOK, Token
<1> HIDE DEF pair
<1>4. /\ next \in Call /\ next.pc = "store" /\ next.op = c.op /\ next.user = c.user
      /\ next.session = c.session /\ next.token = pair
  BY <1>1, <1>3 DEF Call
<1> HIDE DEF next, c
<1>5. CallSound(next, users, sessions)
  BY <1>1, <1>3, <1>4 DEF CallSound
<1>6. call[r].pc # "done" /\ next.op # "register"
  BY <1>1, <1>4 DEF c
<1> QED BY <1>1, <1>2, <1>4, <1>5, <1>6, QuietSound

\* What storing a session does to the sessions: one appears.
LEMMA StoredSession ==
    ASSUME SessionInv, NEW r \in Calls, NEW a \in {"ok", "lost"}, StoreSession(r, a)
    PROVE  /\ call[r].pc = "store" /\ sessions[r] = Null /\ call[r].token \in Token
           /\ sessions' \in [Calls -> Session \cup {Null}]
           /\ sessions'[r] # Null /\ sessions'[r].token = call[r].token
           /\ \A s \in Calls : s # r => sessions'[s] = sessions[s]
<1> DEFINE row == [token |-> call[r].token, expires |-> call[r].token.iat + SessionLife,
                  revoked |-> FALSE]
<1>1. /\ call[r].pc = "store" /\ sessions' = [sessions EXCEPT ![r] = row]
      /\ call[r].token \in Token /\ sessions[r] = Null
  BY DEF StoreSession, SessionInv, SessionTypeOK, CallsSound, CallSound, StoredOnce
<1>2. call[r].token.iat \in Nat
  BY <1>1, LivesAssumption DEF Token, Times
<1>3. row \in Session /\ row.token = call[r].token
  BY <1>1, <1>2, LivesAssumption DEF Session
<1> HIDE DEF row
<1>4. row # Null
  BY <1>3, NullApart
<1> QED BY <1>1, <1>3, <1>4 DEF SessionInv, SessionTypeOK

LEMMA StoreSound ==
    ASSUME SessionInv, NEW r \in Calls, NEW a \in {"ok", "lost"}, StoreSession(r, a)
    PROVE  SessionInv'
<1> DEFINE c == call[r]
<1> DEFINE next == [c EXCEPT !.pc = "done", !.answer = a]
<1>1. /\ c.pc = "store" /\ c \in Call /\ CallSound(c, users, sessions)
      /\ c.op \in {"login", "refresh"} /\ now' = now /\ users' = users
  BY DEF StoreSession, SessionInv, SessionTypeOK, CallsSound, CallSound
<1>2. call' = [call EXCEPT ![r] = next]
  BY DEF StoreSession, End, SessionInv, SessionTypeOK, Call
<1>3. /\ next \in Call /\ next.pc = "done" /\ next.op = c.op /\ next.user = c.user
      /\ next.session = c.session /\ next.token = c.token
  BY <1>1 DEF Call
<1> HIDE DEF next, c
<1>4. /\ sessions[r] = Null /\ sessions' \in [Calls -> Session \cup {Null}]
      /\ \A s \in Calls : s # r => sessions'[s] = sessions[s]
  BY StoredSession
<1>5. Onward(users, users', sessions, sessions')
  BY <1>1, <1>4 DEF Onward
<1>6. CallSound(c, users', sessions')
  BY <1>1, <1>5, SoundOnward
<1>7. CallSound(next, users', sessions')
  BY <1>1, <1>3, <1>6 DEF CallSound
<1>8. now' \in Times /\ users' \in [Emails -> UserStates]
  BY <1>1 DEF SessionInv, SessionTypeOK
<1>9. /\ next.op # "register"
      /\ \A s \in Calls : sessions'[s] # Null => sessions[s] # Null \/ (s = r /\ next.pc = "done")
  BY <1>1, <1>3, <1>4
<1> QED BY <1>2, <1>3, <1>4, <1>5, <1>7, <1>8, <1>9, StepSound

\* The clock and the accounts' status touch no call.
LEMMA OutsideSound ==
    ASSUME SessionInv, (\E e \in Emails : SetStatus(e)) \/ Tick
    PROVE  SessionInv'
<1>1. sessions' = sessions /\ call' = call
  BY DEF SetStatus, Tick
<1>2. /\ now' \in Times /\ users' \in [Emails -> UserStates]
      /\ \A e \in Emails : users[e] # Null => users'[e] # Null
  <2>1. CASE Tick
    <3>1. now' = now + 1 /\ now < MaxTime /\ users' = users
      BY <2>1 DEF Tick
    <3>2. now' \in Times
      BY <3>1, LivesAssumption DEF SessionInv, SessionTypeOK, Times
    <3> QED BY <3>1, <3>2 DEF SessionInv, SessionTypeOK
  <2>2. ASSUME NEW e \in Emails, SetStatus(e)
        PROVE  /\ now' \in Times /\ users' \in [Emails -> UserStates]
               /\ \A d \in Emails : users[d] # Null => users'[d] # Null
    BY <2>2, NullApart DEF SetStatus, SessionInv, SessionTypeOK, UserStates
  <2> QED BY <2>1, <2>2
<1>3. Onward(users, users', sessions, sessions')
  BY <1>1, <1>2 DEF Onward
<1>4. SessionTypeOK'
  BY <1>1, <1>2 DEF SessionInv, SessionTypeOK
<1>5. CallsSound'
  BY <1>1, <1>3, SoundOnward DEF SessionInv, CallsSound
<1>6. StoredOnce' /\ RegisteredOnce'
  BY <1>1 DEF SessionInv, StoredOnce, RegisteredOnce
<1> QED BY <1>4, <1>5, <1>6 DEF SessionInv

LEMMA NextSound == SessionInv /\ [SessionNext]_sessionVars => SessionInv'
<1> SUFFICES ASSUME SessionInv, [SessionNext]_sessionVars PROVE SessionInv'
  OBVIOUS
<1>1. CASE UNCHANGED sessionVars
  BY <1>1 DEF sessionVars, SessionInv, SessionTypeOK, CallsSound, CallSound, StoredOnce,
              RegisteredOnce
<1>2. ASSUME NEW r \in Calls, NEW e \in Emails, Register(r, e) \/ Login(r, e) PROVE SessionInv'
  BY <1>2, RegisterSound, LoginSound
<1>3. ASSUME NEW r \in Calls, NEW t \in Issued, Refresh(r, t) \/ Logout(r, t) PROVE SessionInv'
  BY <1>3, RefreshSound, LogoutSound, IssuedTokens
<1>4. ASSUME NEW r \in Calls, CallStep(r) PROVE SessionInv'
  BY <1>4, SaveUserSound, FindSessionSound, RevokeSound, IssueSound, StoreSound, FailCallSound
     DEF CallStep
<1>5. CASE (\E e \in Emails : SetStatus(e)) \/ Tick
  BY <1>5, OutsideSound
<1> QED BY <1>1, <1>2, <1>3, <1>4, <1>5 DEF SessionNext

-----------------------------------------------------------------------------
(* The theorems *)

\* In every reachable state every call may count on what it has found and done.
THEOREM SessionInvariant == SessionSpec => []SessionInv
BY InitSound, NextSound, PTL DEF SessionSpec

\* However the calls overlap and fail, every variable has its type.
THEOREM SessionTypeCorrect == SessionSpec => []SessionTypeOK
<1>1. SessionInv => SessionTypeOK
  BY DEF SessionInv
<1> QED BY <1>1, SessionInvariant, PTL

\* Of all registrations of an email, however they overlap, at most one succeeds.
THEOREM RegisteredOnceHolds == SessionSpec => []RegisteredOnce
<1>1. SessionInv => RegisteredOnce
  BY DEF SessionInv
<1> QED BY <1>1, SessionInvariant, PTL

\* Wherever a rotation fails, a new pair is issued only after the session it
\* replaces is revoked.
THEOREM RotationsRevokeFirst == SessionSpec => []RotationRevokesFirst
<1>1. SessionInv => RotationRevokesFirst
  BY DEF SessionInv, CallsSound, CallSound, RotationRevokesFirst
<1> QED BY <1>1, SessionInvariant, PTL

-----------------------------------------------------------------------------
(* The action properties *)

\* How a call that is under way after a step came to be so: it was not part of
\* the step; or it was under way, and found a session or was given a pair; or it
\* has begun, a registration, login or refresh only for an account not suspended.
CallMoved(q) ==
    \/ call'[q] = call[q]
    \/ /\ Active(q)
       /\ call'[q].op = call[q].op /\ call'[q].user = call[q].user
       /\ call'[q].shown = call[q].shown
       /\ \/ call'[q].session = call[q].session
          \/ \E s \in Calls : Matches(s, call[q].shown)
       /\ call'[q].token = call[q].token \/ call'[q].token.iat = now
    \/ /\ call'[q].token = Null /\ call'[q].session = Null
       /\ call'[q].op = "logout" \/ users[call'[q].user] # "SUSPENDED"

LEMMA CallsMove ==
    ASSUME SessionInv, SessionNext, NEW q \in Calls, Active(q)'
    PROVE  CallMoved(q)
<1>1. call \in [Calls -> Call]
  BY DEF SessionInv, SessionTypeOK
<1>2. ASSUME NEW r \in Calls, NEW op, NEW a, Refuse(r, op, a) PROVE CallMoved(q)
  BY <1>1, <1>2 DEF Refuse, Active, CallMoved, NoCall
<1>3. ASSUME NEW r \in Calls, NEW a, End(r, a) PROVE CallMoved(q)
  BY <1>1, <1>3 DEF End, Active, CallMoved, Call
<1>4. ASSUME NEW r \in Calls, NEW op, NEW pc, NEW u, NEW shown, Begin(r, op, pc, u, shown),
             op = "logout" \/ users[u] # "SUSPENDED"
      PROVE  CallMoved(q)
  BY <1>1, <1>4 DEF Begin, CallMoved, NoCall
<1>5. ASSUME NEW r \in Calls, NEW e \in Emails, Register(r, e) \/ Login(r, e)
      PROVE  CallMoved(q)
  BY <1>2, <1>4, <1>5, NullApart DEF Register, Login
<1>6. ASSUME NEW r \in Calls, NEW t \in Issued, Refresh(r, t) \/ Logout(r, t)
      PROVE  CallMoved(q)
  BY <1>2, <1>4, <1>6 DEF Refresh, Logout
<1>7. ASSUME NEW r \in Calls, CallStep(r) PROVE CallMoved(q)
  <2>1. CASE SaveUser(r) \/ StoreSession(r, "ok") \/ StoreSession(r, "lost") \/ FailCall(r)
    BY <1>2, <1>3, <2>1 DEF SaveUser, StoreSession, FailCall
  <2>2. CASE FindSession(r)
    <3>1. CASE \E s \in Calls : /\ Matches(s, call[r].shown)
                               /\ call' = [call EXCEPT ![r].pc = "revoke", ![r].session = s]
      <4>1. PICK s \in Calls : /\ Matches(s, call[r].shown)
                             /\ call' = [call EXCEPT ![r].pc = "revoke", ![r].session = s]
        BY <3>1
      <4>2. CASE q = r
        <5>1. /\ call'[q].op = call[q].op /\ call'[q].user = call[q].user
              /\ call'[q].shown = call[q].shown /\ call'[q].token = call[q].token
          BY <1>1, <4>1, <4>2 DEF Call
        <5>2. Active(q)
          BY <2>2, <4>2 DEF FindSession, Active
        <5> QED BY <4>1, <4>2, <5>1, <5>2 DEF CallMoved
      <4>3. CASE q # r
        BY <1>1, <4>1, <4>3 DEF CallMoved
      <4> QED BY <4>2, <4>3
    <3>2. CASE Refuse(r, "refresh", "unauthorized") \/ End(r, "ok")
      BY <1>2, <1>3, <3>2
    <3> QED BY <2>2, <3>1, <3>2 DEF FindSession
  <2>3. CASE Revoke(r)
    <3>1. CASE call' = [call EXCEPT ![r].pc = "issue"]
      BY <1>1, <2>3, <3>1 DEF Revoke, CallMoved, Active, Call
    <3> QED BY <1>3, <2>3, <3>1 DEF Revoke
  <2>4. CASE IssueTokenPair(r)
    BY <1>1, <2>4 DEF IssueTokenPair, CallMoved, Active, Call
  <2> QED BY <1>7, <2>1, <2>2, <2>3, <2>4 DEF CallStep
<1>8. CASE (\E e \in Emails : SetStatus(e)) \/ Tick
  BY <1>8 DEF SetStatus, Tick, CallMoved
<1> QED BY <1>5, <1>6, <1>7, <1>8 DEF SessionNext

\* A session stays as it was, is revoked, or is stored with the token of the call
\* it is named after.
LEMMA SessionsMove ==
    ASSUME SessionInv, SessionNext, NEW s \in Calls
    PROVE  \/ sessions'[s] = sessions[s]
           \/ /\ sessions[s] # Null /\ sessions'[s] # Null
              /\ sessions'[s].token = sessions[s].token
              /\ sessions'[s].expires = sessions[s].expires
              /\ sessions[s].revoked => sessions'[s].revoked
           \/ /\ sessions[s] = Null /\ sessions'[s] # Null
              /\ call[s].pc = "store" /\ call[s].token \in Token
              /\ sessions'[s].token = call[s].token
<1>1. CASE \E r \in Calls, a \in {"ok", "lost"} : StoreSession(r, a)
  BY <1>1, StoredSession
<1>2. ASSUME NEW r \in Calls, Revoke(r)
      PROVE  \/ sessions'[s] = sessions[s]
             \/ /\ sessions[s] # Null /\ sessions'[s] # Null
                /\ sessions'[s].token = sessions[s].token
                /\ sessions'[s].expires = sessions[s].expires
                /\ sessions[s].revoked => sessions'[s].revoked
  <2>1. /\ call[r].session \in Calls /\ sessions[call[r].session] # Null
        /\ sessions' = [sessions EXCEPT ![call[r].session].revoked = TRUE]
    BY <1>2 DEF Revoke, SessionInv, CallsSound, CallSound
  <2>2. /\ Onward(users, users, sessions, sessions')
        /\ \A q \in Calls : sessions'[q] # Null => sessions[q] # Null
    BY <2>1, RevokedSession
  <2> QED BY <2>2 DEF Onward
<1>3. CASE UNCHANGED sessions
  BY <1>3
<1>4. \/ UNCHANGED sessions \/ \E r \in Calls : Revoke(r)
      \/ \E r \in Calls, a \in {"ok", "lost"} : StoreSession(r, a)
  BY DEF SessionNext, CallStep, Register, Login, Refresh, Logout, SaveUser, FindSession,
         IssueTokenPair, FailCall, SetStatus, Tick
<1> QED BY <1>1, <1>2, <1>3, <1>4

LEMMA OthersMove ==
    ASSUME SessionInv, SessionNext
    PROVE  /\ now \in Nat /\ now' \in Nat /\ now <= now'
           /\ \A e \in Emails : users[e] = "SUSPENDED" => users'[e] \in {"SUSPENDED", "ACTIVE"}
<1>1. now \in Nat /\ users \in [Emails -> UserStates]
  BY LivesAssumption DEF SessionInv, SessionTypeOK, Times
<1>2. (now' = now \/ now' = now + 1)
      /\ \A e \in Emails : users[e] = "SUSPENDED" => users'[e] \in {"SUSPENDED", "ACTIVE"}
  BY <1>1 DEF SessionNext, CallStep, Register, Login, Refresh, Logout, SaveUser, FindSession, Revoke,
              IssueTokenPair, StoreSession, FailCall, SetStatus, Tick
<1> QED BY <1>1, <1>2

\* Once the calls that read a suspended account before have ended, no session is
\* opened for it until it is restored.
THEOREM SuspendedIsShutOut == SessionSpec => SuspendedGetsNoSession
<1>1. ASSUME SessionInv, [SessionNext]_sessionVars, NEW e \in Emails, ShutOut(e)
      PROVE  (ShutOut(e)' \/ users'[e] = "ACTIVE") /\ SessionsOf(e)' = SessionsOf(e)
  <2>1. CASE UNCHANGED sessionVars
    BY <1>1, <2>1 DEF sessionVars, ShutOut, SessionsOf, Active
  <2>2. CASE SessionNext
    <3>1. ASSUME NEW q \in Calls, call'[q].user = e, Active(q)' PROVE call'[q].op = "logout"
      <4>1. CallMoved(q)
        BY <1>1, <2>2, <3>1, CallsMove
      <4> QED BY <1>1, <3>1, <4>1 DEF CallMoved, ShutOut, Active
    <3>2. ShutOut(e)' \/ users'[e] = "ACTIVE"
      BY <1>1, <2>2, <3>1, OthersMove DEF ShutOut
    <3>3. ASSUME NEW s \in Calls
          PROVE  sessions'[s] # Null /\ sessions'[s].token.user = e
                   <=> sessions[s] # Null /\ sessions[s].token.user = e
      <4>1. CASE sessions[s] = Null /\ call[s].pc = "store" /\ sessions'[s].token = call[s].token
        <5>1. call[s].token.user = call[s].user /\ call[s].op # "logout" /\ Active(s)
          BY <1>1, <4>1 DEF SessionInv, CallsSound, CallSound, Active
        <5> QED BY <1>1, <4>1, <5>1 DEF ShutOut
      <4> QED BY <1>1, <2>2, <4>1, SessionsMove
    <3> QED BY <3>2, <3>3 DEF SessionsOf
  <2> QED BY <1>1, <2>1, <2>2
<1>2. SessionInv /\ [SessionNext]_sessionVars =>
        [\A e \in Emails : ShutOut(e) =>
           /\ ShutOut(e)' \/ users'[e] = "ACTIVE"
           /\ SessionsOf(e)' = SessionsOf(e)]_sessionVars
  BY <1>1
<1> QED BY <1>2, SessionInvariant, PTL DEF SessionSpec, SuspendedGetsNoSession

\* A refresh token whose second has passed and whose sessions are revoked or
\* expired is worth nothing for ever.
THEOREM SpentForEver == SessionSpec => SpentStaysSpent
<1>1. ASSUME SessionInv, [SessionNext]_sessionVars, NEW t \in Token, Spent(t)
      PROVE  Spent(t)'
  <2>1. CASE UNCHANGED sessionVars
    BY <1>1, <2>1 DEF sessionVars, Spent, Active
  <2>2. CASE SessionNext
    <3>1. /\ now \in Nat /\ now' \in Nat /\ now <= now' /\ t.iat \in Nat
          /\ \A s \in Calls : sessions[s] # Null => sessions[s].expires \in Nat
      BY <1>1, <2>2, OthersMove, LivesAssumption
         DEF Token, Times, SessionInv, SessionTypeOK, Session
    <3>2. t.iat < now'
      BY <1>1, <3>1 DEF Spent
    <3>3. ASSUME NEW s \in Calls, sessions'[s] # Null, sessions'[s].token = t
          PROVE  sessions'[s].revoked \/ sessions'[s].expires <= now'
      <4>1. CASE call[s].pc = "store" /\ sessions'[s].token = call[s].token
        BY <1>1, <3>3, <4>1 DEF Spent, Active
      <4>2. CASE sessions'[s] = sessions[s]
        BY <1>1, <3>1, <3>3, <4>2 DEF Spent
      <4>3. CASE /\ sessions[s] # Null /\ sessions'[s].token = sessions[s].token
                 /\ sessions'[s].expires = sessions[s].expires
                 /\ sessions[s].revoked => sessions'[s].revoked
        BY <1>1, <3>1, <3>3, <4>3 DEF Spent
      <4> QED BY <1>1, <2>2, <4>1, <4>2, <4>3, SessionsMove
    <3>4. ASSUME NEW q \in Calls, Active(q)'
          PROVE  call'[q].token # t /\ (call'[q].session # Null => call'[q].shown # t)
      <4>1. CallMoved(q)
        BY <1>1, <2>2, <3>4, CallsMove
      <4>2. CASE call'[q] = call[q]
        BY <1>1, <3>4, <4>2 DEF Spent, Active
      <4>3. CASE call'[q].token = Null /\ call'[q].session = Null
        BY <4>3, NullApart
      <4>4. CASE /\ Active(q) /\ call'[q].shown = call[q].shown
                 /\ \/ call'[q].session = call[q].session
                    \/ \E s \in Calls : Matches(s, call[q].shown)
                 /\ call'[q].token = call[q].token \/ call'[q].token.iat = now
        <5>1. call'[q].token # t
          BY <1>1, <3>1, <4>4 DEF Spent
        <5>2. \A s \in Calls : ~Matches(s, t)
          BY <1>1, <3>1 DEF Spent, Matches
        <5>3. call'[q].session # Null => call'[q].shown # t
          BY <1>1, <4>4, <5>2 DEF Spent
        <5> QED BY <5>1, <5>3
      <4> QED BY <4>1, <4>2, <4>3, <4>4 DEF CallMoved
    <3> QED BY <3>2, <3>3, <3>4 DEF Spent
  <2> QED BY <1>1, <2>1, <2>2
<1>2. SessionInv /\ [SessionNext]_sessionVars =>
        [\A t \in Token : Spent(t) => Spent(t)']_sessionVars
  BY <1>1
<1> QED BY <1>2, SessionInvariant, PTL DEF SessionSpec, SpentStaysSpent
===============================================================================
