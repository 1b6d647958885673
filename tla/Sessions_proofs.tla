-------------------------- MODULE Sessions_proofs ---------------------------
(***************************************************************************)
(* For any calls, users, passwords and requests, and any durations of the  *)
(* tokens: where tokens come from, how long they last, what a blocked      *)
(* session stops, and who changes a password.                              *)
(***************************************************************************)
EXTENDS Sessions, TLAPS

-----------------------------------------------------------------------------
(* The inductive invariant.                                                *)

\* The step of a handler tells which request it serves.
Serves(c) ==
  /\ pc[c] \in {"getUser", "signIn", "createSession"} => req[c].op = "LoginUser"
  /\ pc[c] \in {"verify", "getSession", "renew"} => req[c].op = "RenewAccessToken"
  /\ pc[c] \in {"authenticate", "stamp", "update"} => req[c].op = "UpdateUser"
  /\ pc[c] # "done" => resp[c] = "none"

\* A call has been sent with a token its client held, and the handlers that go
\* on have one.
Presents(c) ==
  /\ shown[c] \in held \cup {Forged}
  /\ pc[c] = "idle" => shown[c] = Forged
  /\ pc[c] \in {"getSession", "renew", "stamp", "update"} => shown[c] # Forged
  /\ pc[c] \in {"stamp", "update"} => shown[c].user = req[c].username

\* LoginUser has the password of a user, and then tokens made at one instant
\* for a password that was the user's.
LoggingIn(c) ==
  LET u == req[c].username
  IN  /\ pc[c] = "signIn" => u \in Users /\ row[c] \subseteq PasswordsOf(u)
      /\ pc[c] = "createSession" =>
           /\ u \in Users /\ req[c].password \in PasswordsOf(u)
           /\ \E at \in 1..MaxTime :
                made[c] = {[id |-> <<c, "access">>, user |-> u, expires |-> at + AccessDuration],
                           [id |-> <<c, "refresh">>, user |-> u, expires |-> at + RefreshDuration]}

\* What GetSession has read stays true of the session, but for its being blocked.
Renewing(c) ==
  pc[c] = "renew" =>
    \E s \in row[c] :
      LET i == shown[c].id
      IN  /\ row[c] = {s}
          /\ i \in DOMAIN sessions
          /\ s.username = sessions[i].username /\ s.token = sessions[i].token
          /\ s.expires = sessions[i].expires

\* A session is the one of its refresh token, stored by the call that made it.
Stored ==
  \A i \in DOMAIN sessions :
    /\ \E c \in Calls : i = <<c, "refresh">> /\ pc[c] = "done"
    /\ sessions[i].token.id = i
    /\ sessions[i].username = sessions[i].token.user
    /\ sessions[i].expires = sessions[i].token.expires

\* A password was set when the server started or by a request of its user.
PasswordsKept == \A u \in Users : password[u] \in PasswordsOf(u)

IInv ==
  /\ TypeOK /\ DOMAIN row = Calls
  /\ \A c \in Calls : Serves(c) /\ Presents(c) /\ LoggingIn(c) /\ Renewing(c)
  /\ Stored
  /\ PasswordsKept
  /\ RefreshHasSession
  /\ TokensComeFromLogins
  /\ AccessBounded

-----------------------------------------------------------------------------
(* What requests are, and what every step leaves alone.                    *)

\* The fields a request has.
LEMMA RequestType ==
  ASSUME NEW r \in Requests
  PROVE  /\ r.op \in {"LoginUser", "RenewAccessToken", "UpdateUser"}
         /\ r.op \in {"LoginUser", "UpdateUser"} =>
              r.username \in Names /\ r.password \in Passwords
BY SessionsAssumption DEF LoginRequest, RenewRequest, ChangeRequest

SessionsKept ==
  \A i \in DOMAIN sessions :
    /\ i \in DOMAIN sessions'
    /\ sessions'[i].username = sessions[i].username
    /\ sessions'[i].token = sessions[i].token
    /\ sessions'[i].expires = sessions[i].expires

\* A step of the calls in C, none of which has ended: it takes no token and no
\* session away, and no call that was sent is sent again.
StepOf(C) ==
  /\ req' = req /\ held \subseteq held' /\ SessionsKept
  /\ \A d \in C : pc[d] # "done" /\ (pc[d] # "idle" => shown'[d] = shown[d])
  /\ \A d \in Calls \ C : /\ pc'[d] = pc[d] /\ resp'[d] = resp[d]
                          /\ shown'[d] = shown[d] /\ row'[d] = row[d]
                          /\ made'[d] = made[d]

\* What was a password of a user remains one.
LEMMA PasswordsRemain ==
  ASSUME IInv, NEW C \in SUBSET Calls, StepOf(C)
  PROVE  \A u : PasswordsOf(u) \subseteq PasswordsOf(u)'
<1>1. \A d \in Calls : shown[d] \in held => shown'[d] \in held' /\ shown'[d] = shown[d]
  <2> SUFFICES ASSUME NEW d \in Calls, shown[d] \in held
               PROVE  shown'[d] \in held' /\ shown'[d] = shown[d]
    OBVIOUS
  <2>1. shown[d] # Forged
    BY SessionsAssumption DEF IInv, TypeOK
  <2>2. pc[d] # "idle"
    BY <2>1 DEF IInv, Presents
  <2> QED BY <2>2 DEF StepOf
<1>2. req' = req
  BY DEF StepOf
<1> QED BY <1>1, <1>2 DEF PasswordsOf

\* The invariant of the calls that do not move.
LEMMA OthersKept ==
  ASSUME IInv, NEW C \in SUBSET Calls, StepOf(C), NEW d \in Calls \ C
  PROVE  Serves(d)' /\ Presents(d)' /\ LoggingIn(d)' /\ Renewing(d)'
<1>1. Serves(d)'
  BY DEF IInv, StepOf, Serves
<1>2. Presents(d)'
  BY DEF IInv, StepOf, Presents
<1>3. LoggingIn(d)'
  BY PasswordsRemain DEF IInv, StepOf, LoggingIn
<1>4. Renewing(d)'
  BY DEF IInv, StepOf, SessionsKept, Renewing
<1> QED BY <1>1, <1>2, <1>3, <1>4

\* What is known of the sessions and the tokens there are.
LEMMA OldSessionsKept ==
  ASSUME IInv, NEW C \in SUBSET Calls, StepOf(C), NEW i \in DOMAIN sessions
  PROVE  /\ \E c \in Calls : i = <<c, "refresh">> /\ pc'[c] = "done"
         /\ sessions'[i].token.id = i
         /\ sessions'[i].username = sessions'[i].token.user
         /\ sessions'[i].expires = sessions'[i].token.expires
<1>1. PICK c \in Calls : i = <<c, "refresh">> /\ pc[c] = "done"
  BY DEF IInv, Stored
<1>2. pc'[c] = "done"
  BY <1>1 DEF StepOf
<1>3. /\ sessions[i].token.id = i
      /\ sessions[i].username = sessions[i].token.user
      /\ sessions[i].expires = sessions[i].token.expires
  BY DEF IInv, Stored
<1> QED BY <1>1, <1>2, <1>3 DEF StepOf, SessionsKept

LEMMA OldTokensKept ==
  ASSUME IInv, NEW C \in SUBSET Calls, StepOf(C), NEW t \in held
  PROVE  /\ t.id[2] = "refresh" => /\ t.id \in DOMAIN sessions'
                                   /\ sessions'[t.id].username = t.user
                                   /\ sessions'[t.id].expires = t.expires
         /\ \E c \in Calls : /\ req'[c].op = "LoginUser" /\ resp'[c] = "OK"
                             /\ req'[c].username = t.user
                             /\ req'[c].password \in PasswordsOf(t.user)'
         /\ t.id[2] = "access" =>
              \E i \in DOMAIN sessions' :
                /\ sessions'[i].username = t.user
                /\ t.expires <= sessions'[i].expires + AccessDuration
<1>1. t.id[2] = "refresh" => /\ t.id \in DOMAIN sessions'
                             /\ sessions'[t.id].username = t.user
                             /\ sessions'[t.id].expires = t.expires
  BY DEF IInv, RefreshHasSession, StepOf, SessionsKept
<1>2. \E c \in Calls : /\ req'[c].op = "LoginUser" /\ resp'[c] = "OK"
                       /\ req'[c].username = t.user
                       /\ req'[c].password \in PasswordsOf(t.user)'
  <2>1. PICK c \in Calls : /\ req[c].op = "LoginUser" /\ resp[c] = "OK"
                           /\ req[c].username = t.user
                           /\ req[c].password \in PasswordsOf(t.user)
    BY DEF IInv, TokensComeFromLogins
  <2>2. pc[c] = "done"
    BY <2>1 DEF IInv, Serves
  <2>3. req' = req /\ resp'[c] = "OK"
    BY <2>1, <2>2 DEF StepOf
  <2> QED BY <2>1, <2>3, PasswordsRemain
<1>3. t.id[2] = "access" =>
        \E i \in DOMAIN sessions' :
          /\ sessions'[i].username = t.user
          /\ t.expires <= sessions'[i].expires + AccessDuration
  BY DEF IInv, AccessBounded, StepOf, SessionsKept
<1> QED BY <1>1, <1>2, <1>3

\* A step that hands out no token, stores no session and changes no password
\* preserves the invariant if it preserves the part of the calls it moves.
LEMMA NothingNew ==
  ASSUME IInv, NEW C \in SUBSET Calls, StepOf(C),
         DOMAIN sessions' = DOMAIN sessions, UNCHANGED <<password, held>>,
         TypeOK', DOMAIN row' = Calls,
         \A c \in C : Serves(c)' /\ Presents(c)' /\ LoggingIn(c)' /\ Renewing(c)'
  PROVE  IInv'
<1>1. \A d \in Calls : Serves(d)' /\ Presents(d)' /\ LoggingIn(d)' /\ Renewing(d)'
  BY OthersKept
<1>2. Stored'
  BY OldSessionsKept DEF Stored
<1>3. PasswordsKept'
  BY PasswordsRemain DEF IInv, PasswordsKept
<1>4. RefreshHasSession'
  BY OldTokensKept DEF RefreshHasSession
<1>5. TokensComeFromLogins'
  BY OldTokensKept DEF TokensComeFromLogins
<1>6. AccessBounded'
  BY OldTokensKept DEF AccessBounded
<1> QED BY <1>1, <1>2, <1>3, <1>4, <1>5, <1>6 DEF IInv

-----------------------------------------------------------------------------
(* The initial states, and the steps that hand out nothing.                *)

LEMMA InitInv == Init => IInv
<1> SUFFICES ASSUME Init PROVE IInv
  OBVIOUS
<1>1. TypeOK /\ DOMAIN row = Calls
  BY SessionsAssumption DEF Init, TypeOK, PC, Codes, None, Session
<1>2. \A c \in Calls : Serves(c) /\ Presents(c) /\ LoggingIn(c) /\ Renewing(c)
  BY DEF Init, Serves, Presents, LoggingIn, Renewing
<1>3. PasswordsKept
  BY DEF Init, PasswordsKept, PasswordsOf
<1>4. Stored /\ RefreshHasSession /\ TokensComeFromLogins /\ AccessBounded
  BY DEF Init, Stored, RefreshHasSession, TokensComeFromLogins, AccessBounded
<1> QED BY <1>1, <1>2, <1>3, <1>4 DEF IInv

\* A request arrives, with a token the client holds or with none.
LEMMA ReceiveInv ==
  ASSUME IInv, NEW c \in Calls, Receive(c)
  PROVE  IInv'
<1>1. StepOf({c})
  BY DEF Receive, Goto, Answer, StepOf, SessionsKept, IInv, TypeOK
<1>2. TypeOK' /\ DOMAIN row' = Calls
  BY RequestType DEF Receive, Goto, Answer, IInv, TypeOK, PC, Codes
<1>3. Serves(c)'
  BY RequestType DEF Receive, Goto, Answer, IInv, TypeOK, Serves
<1>4. Presents(c)'
  BY DEF Receive, Goto, Answer, IInv, TypeOK, Presents
<1>5. LoggingIn(c)'
  BY DEF Receive, Goto, Answer, IInv, TypeOK, LoggingIn
<1>6. Renewing(c)'
  BY DEF Receive, Goto, Answer, IInv, TypeOK, Renewing
<1>7. DOMAIN sessions' = DOMAIN sessions /\ UNCHANGED <<password, held>>
  BY DEF Receive
<1> QED BY <1>1, <1>2, <1>3, <1>4, <1>5, <1>6, <1>7, NothingNew

\* GetUser finds the password a user has at that moment.
LEMMA GetUserInv ==
  ASSUME IInv, NEW c \in Calls, GetUser(c)
  PROVE  IInv'
<1>1. StepOf({c})
  BY DEF GetUser, Goto, Answer, StepOf, SessionsKept, IInv, TypeOK
<1> DEFINE u == req[c].username
<1>u. /\ UNCHANGED <<password, held, req, shown>> /\ DOMAIN row' = Calls
      /\ \A d \in Calls \ {c} : row'[d] = row[d]
      /\ \/ row'[c] = row[c] /\ pc'[c] = "done"
         \/ u \in Users /\ row'[c] = {password[u]}
  BY DEF GetUser, Goto, Answer, IInv, TypeOK
<1>t. req[c].op = "LoginUser"
  BY DEF GetUser, IInv, Serves
<1>2. TypeOK' /\ DOMAIN row' = Calls
  <2>1. \A d \in Calls : \A x \in row'[d] :
          IF req'[d].op = "LoginUser" THEN x \in Passwords ELSE x \in Session
    BY <1>u, <1>t DEF IInv, TypeOK
  <2> QED BY <1>u, <2>1 DEF GetUser, Goto, Answer, IInv, TypeOK, PC, Codes
<1>3. Serves(c)'
  BY RequestType DEF GetUser, Goto, Answer, IInv, TypeOK, Serves
<1>4. Presents(c)'
  BY DEF GetUser, Goto, Answer, IInv, TypeOK, Presents
<1>5. LoggingIn(c)'
  <2>1. pc'[c] # "createSession"
    BY DEF GetUser, Goto, Answer, IInv, TypeOK
  <2>2. pc'[c] = "signIn" => u \in Users /\ row'[c] \subseteq PasswordsOf(u)
    BY <1>u DEF IInv, PasswordsKept
  <2>3. PasswordsOf(u) \subseteq PasswordsOf(u)'
    BY <1>1, <1>u, PasswordsRemain
  <2> QED BY <1>u, <2>1, <2>2, <2>3 DEF LoggingIn
<1>6. Renewing(c)'
  BY DEF GetUser, Goto, Answer, IInv, TypeOK, Renewing
<1>7. DOMAIN sessions' = DOMAIN sessions /\ UNCHANGED <<password, held>>
  BY DEF GetUser
<1> QED BY <1>1, <1>2, <1>3, <1>4, <1>5, <1>6, <1>7, NothingNew

\* Both tokens are made at one instant.
LEMMA SignInInv ==
  ASSUME IInv, NEW c \in Calls, SignIn(c)
  PROVE  IInv'
<1>1. StepOf({c})
  BY DEF SignIn, Goto, Answer, StepOf, SessionsKept, IInv, TypeOK
<1> DEFINE u == req[c].username
           access == [id |-> <<c, "access">>, user |-> u, expires |-> now + AccessDuration]
           refresh == [id |-> <<c, "refresh">>, user |-> u, expires |-> now + RefreshDuration]
<1>u. /\ u \in Users /\ row[c] \subseteq PasswordsOf(u)
      /\ UNCHANGED <<now, req, row>>
      /\ \/ row[c] = {req[c].password} /\ made' = [made EXCEPT ![c] = {access, refresh}]
         \/ pc'[c] = "done" /\ made' = made
  BY DEF SignIn, CheckPassword, NewToken, Goto, Answer, IInv, TypeOK, LoggingIn
<1>2. TypeOK' /\ DOMAIN row' = Calls
  <2>1. access \in Token /\ refresh \in Token
    BY <1>u, SessionsAssumption DEF IInv, TypeOK, Token, TokenIds
  <2>2. made' \in [Calls -> SUBSET Token]
    BY <1>u, <2>1 DEF IInv, TypeOK
  <2>3. pc' \in [Calls -> PC] /\ resp' \in [Calls -> Codes \cup {"none"}]
    BY DEF SignIn, Goto, Answer, IInv, TypeOK, PC, Codes
  <2>4. UNCHANGED <<password, changedAt, sessions, held, now, req, shown, row, stamp>>
    BY DEF SignIn
  <2> QED BY <2>2, <2>3, <2>4 DEF IInv, TypeOK
<1>3. Serves(c)'
  BY RequestType DEF SignIn, Goto, Answer, IInv, TypeOK, Serves
<1>4. Presents(c)'
  BY DEF SignIn, Goto, Answer, IInv, TypeOK, Presents
<1>5. LoggingIn(c)'
  <2>1. pc'[c] # "signIn"
    BY DEF SignIn, Goto, Answer, IInv, TypeOK
  <2>2. CASE pc'[c] = "createSession"
    <3>1. made'[c] = {access, refresh} /\ req[c].password \in PasswordsOf(u)
      BY <1>u, <2>2 DEF IInv, TypeOK
    <3>2. req'[c].password \in PasswordsOf(u)'
      BY <1>1, <1>u, <3>1, PasswordsRemain
    <3>3. now \in 1..MaxTime
      BY DEF IInv, TypeOK
    <3> QED BY <1>u, <2>1, <3>1, <3>2, <3>3 DEF LoggingIn
  <2>3. CASE pc'[c] # "createSession"
    BY <2>1, <2>3 DEF LoggingIn
  <2> QED BY <2>2, <2>3
<1>6. Renewing(c)'
  BY DEF SignIn, Goto, Answer, IInv, TypeOK, Renewing
<1>7. DOMAIN sessions' = DOMAIN sessions /\ UNCHANGED <<password, held>>
  BY DEF SignIn
<1> QED BY <1>1, <1>2, <1>3, <1>4, <1>5, <1>6, <1>7, NothingNew

\* A refresh token is verified before its session is read.
LEMMA VerifyInv ==
  ASSUME IInv, NEW c \in Calls, VerifyRefreshToken(c)
  PROVE  IInv'
<1>1. StepOf({c})
  BY DEF VerifyRefreshToken, Goto, Answer, StepOf, SessionsKept, IInv, TypeOK
<1>2. TypeOK' /\ DOMAIN row' = Calls
  BY RequestType DEF VerifyRefreshToken, Goto, Answer, IInv, TypeOK, PC, Codes
<1>3. Serves(c)'
  BY RequestType DEF VerifyRefreshToken, Goto, Answer, IInv, TypeOK, Serves
<1>4. Presents(c)'
  BY DEF VerifyRefreshToken, Goto, Answer, IInv, TypeOK, Presents, VerifyToken
<1>5. LoggingIn(c)'
  BY DEF VerifyRefreshToken, Goto, Answer, IInv, TypeOK, LoggingIn
<1>6. Renewing(c)'
  BY DEF VerifyRefreshToken, Goto, Answer, IInv, TypeOK, Renewing
<1>7. DOMAIN sessions' = DOMAIN sessions /\ UNCHANGED <<password, held>>
  BY DEF VerifyRefreshToken
<1> QED BY <1>1, <1>2, <1>3, <1>4, <1>5, <1>6, <1>7, NothingNew

\* GetSession reads the session of the token.
LEMMA GetSessionInv ==
  ASSUME IInv, NEW c \in Calls, GetSession(c)
  PROVE  IInv'
<1>1. StepOf({c})
  BY DEF GetSession, Goto, Answer, StepOf, SessionsKept, IInv, TypeOK
<1> DEFINE i == shown[c].id
<1>u. /\ UNCHANGED <<sessions, req, shown>> /\ DOMAIN row' = Calls
      /\ \A d \in Calls \ {c} : row'[d] = row[d]
      /\ \/ row'[c] = row[c] /\ pc'[c] = "done"
         \/ i \in DOMAIN sessions /\ row'[c] = {sessions[i]}
  BY DEF GetSession, Goto, Answer, IInv, TypeOK
<1>t. req[c].op = "RenewAccessToken"
  BY DEF GetSession, IInv, Serves
<1>2. TypeOK' /\ DOMAIN row' = Calls
  <2>1. \A d \in Calls : \A x \in row'[d] :
          IF req'[d].op = "LoginUser" THEN x \in Passwords ELSE x \in Session
    BY <1>u, <1>t DEF IInv, TypeOK
  <2> QED BY <1>u, <2>1 DEF GetSession, Goto, Answer, IInv, TypeOK, PC, Codes
<1>3. Serves(c)'
  BY RequestType DEF GetSession, Goto, Answer, IInv, TypeOK, Serves
<1>4. Presents(c)'
  BY DEF GetSession, Goto, Answer, IInv, TypeOK, Presents
<1>5. LoggingIn(c)'
  BY DEF GetSession, Goto, Answer, IInv, TypeOK, LoggingIn
<1>6. Renewing(c)'
  BY <1>u DEF Renewing
<1>7. DOMAIN sessions' = DOMAIN sessions /\ UNCHANGED <<password, held>>
  BY DEF GetSession
<1> QED BY <1>1, <1>2, <1>3, <1>4, <1>5, <1>6, <1>7, NothingNew

\* The interceptor and the handler let only the owner go on.
LEMMA AuthenticateInv ==
  ASSUME IInv, NEW c \in Calls, Authenticate(c)
  PROVE  IInv'
<1>1. StepOf({c})
  BY DEF Authenticate, Goto, Answer, StepOf, SessionsKept, IInv, TypeOK
<1>2. TypeOK' /\ DOMAIN row' = Calls
  BY RequestType DEF Authenticate, Goto, Answer, IInv, TypeOK, PC, Codes
<1>3. Serves(c)'
  BY RequestType DEF Authenticate, Goto, Answer, IInv, TypeOK, Serves
<1>4. Presents(c)'
  BY DEF Authenticate, Goto, Answer, IInv, TypeOK, Presents, VerifyToken, MayUpdate
<1>5. LoggingIn(c)'
  BY DEF Authenticate, Goto, Answer, IInv, TypeOK, LoggingIn
<1>6. Renewing(c)'
  BY DEF Authenticate, Goto, Answer, IInv, TypeOK, Renewing
<1>7. DOMAIN sessions' = DOMAIN sessions /\ UNCHANGED <<password, held>>
  BY DEF Authenticate
<1> QED BY <1>1, <1>2, <1>3, <1>4, <1>5, <1>6, <1>7, NothingNew

\* The time of a change is read.
LEMMA StampInv ==
  ASSUME IInv, NEW c \in Calls, StampChange(c)
  PROVE  IInv'
<1>1. StepOf({c})
  BY DEF StampChange, Goto, Answer, StepOf, SessionsKept, IInv, TypeOK
<1>2. TypeOK' /\ DOMAIN row' = Calls
  BY RequestType DEF StampChange, Goto, Answer, IInv, TypeOK, PC, Codes
<1>3. Serves(c)'
  BY RequestType DEF StampChange, Goto, Answer, IInv, TypeOK, Serves
<1>4. Presents(c)'
  BY DEF StampChange, Goto, Answer, IInv, TypeOK, Presents
<1>5. LoggingIn(c)'
  BY DEF StampChange, Goto, Answer, IInv, TypeOK, LoggingIn
<1>6. Renewing(c)'
  BY DEF StampChange, Goto, Answer, IInv, TypeOK, Renewing
<1>7. DOMAIN sessions' = DOMAIN sessions /\ UNCHANGED <<password, held>>
  BY DEF StampChange
<1> QED BY <1>1, <1>2, <1>3, <1>4, <1>5, <1>6, <1>7, NothingNew

\* A statement fails.
LEMMA FailInv ==
  ASSUME IInv, NEW c \in Calls, Fail(c)
  PROVE  IInv'
<1>1. StepOf({c})
  BY DEF Fail, Goto, Answer, StepOf, SessionsKept, IInv, TypeOK
<1>2. TypeOK' /\ DOMAIN row' = Calls
  BY RequestType DEF Fail, Goto, Answer, IInv, TypeOK, PC, Codes
<1>3. Serves(c)'
  BY RequestType DEF Fail, Goto, Answer, IInv, TypeOK, Serves
<1>4. Presents(c)'
  BY DEF Fail, Goto, Answer, IInv, TypeOK, Presents
<1>5. LoggingIn(c)'
  BY DEF Fail, Goto, Answer, IInv, TypeOK, LoggingIn
<1>6. Renewing(c)'
  BY DEF Fail, Goto, Answer, IInv, TypeOK, Renewing
<1>7. DOMAIN sessions' = DOMAIN sessions /\ UNCHANGED <<password, held>>
  BY DEF Fail
<1> QED BY <1>1, <1>2, <1>3, <1>4, <1>5, <1>6, <1>7, NothingNew

-----------------------------------------------------------------------------
(* The steps that store sessions, hand out tokens and change passwords.    *)

\* The session is stored for the token before the client has it.
LEMMA CreateSessionInv ==
  ASSUME IInv, NEW c \in Calls, CreateSession(c)
  PROVE  IInv'
<1> DEFINE u == req[c].username
           i == <<c, "refresh">>
<1>1. PICK at \in 1..MaxTime :
        made[c] = {[id |-> <<c, "access">>, user |-> u, expires |-> at + AccessDuration],
                   [id |-> <<c, "refresh">>, user |-> u, expires |-> at + RefreshDuration]}
  BY DEF CreateSession, IInv, LoggingIn
<1> DEFINE access == [id |-> <<c, "access">>, user |-> u, expires |-> at + AccessDuration]
           refresh == [id |-> i, user |-> u, expires |-> at + RefreshDuration]
           session == [username |-> u, token |-> refresh, blocked |-> FALSE,
                       expires |-> refresh.expires]
<1>2. /\ u \in Users /\ req[c].password \in PasswordsOf(u) /\ req[c].op = "LoginUser"
      /\ pc[c] = "createSession"
  BY DEF CreateSession, IInv, LoggingIn, Serves
<1>3. RefreshToken(c) = refresh
  BY <1>1 DEF RefreshToken
<1>4. i \notin DOMAIN sessions
  BY <1>2 DEF IInv, Stored
<1>5. /\ sessions' = [j \in DOMAIN sessions \cup {i} |-> IF j = i THEN session ELSE sessions[j]]
      /\ UNCHANGED <<password, req, shown, row, made>>
      /\ pc'[c] = "done" /\ \A d \in Calls \ {c} : pc'[d] = pc[d]
      /\ \/ resp'[c] = "OK" /\ held' = held \cup {access, refresh}
         \/ held' = held
  BY <1>1, <1>3 DEF CreateSession, NewSession, Insert, Hand, Answer, IInv, TypeOK
<1>6. StepOf({c})
  <2>1. SessionsKept
    BY <1>4, <1>5 DEF SessionsKept
  <2> QED BY <1>2, <1>5, <2>1 DEF CreateSession, Answer, StepOf, IInv, TypeOK
<1>7. TypeOK' /\ DOMAIN row' = Calls
  <2>1. access \in Token /\ refresh \in Token
    BY <1>2, SessionsAssumption DEF Token, TokenIds
  <2>2. session \in Session
    BY <1>2, <2>1 DEF Session, Token
  <2>3. i \in TokenIds
    BY DEF TokenIds
  <2>4. DOMAIN sessions' \subseteq TokenIds /\ sessions' \in [DOMAIN sessions' -> Session]
    BY <1>5, <2>2, <2>3 DEF IInv, TypeOK
  <2>5. held' \subseteq Token
    BY <1>5, <2>1 DEF IInv, TypeOK
  <2> QED BY <2>4, <2>5 DEF CreateSession, Answer, IInv, TypeOK, PC, Codes
<1>8. Serves(c)' /\ LoggingIn(c)' /\ Renewing(c)'
  BY <1>5 DEF Serves, LoggingIn, Renewing
<1>9. Presents(c)'
  BY <1>5 DEF IInv, Presents
<1>10. \A d \in Calls : Serves(d)' /\ Presents(d)' /\ LoggingIn(d)' /\ Renewing(d)'
  BY <1>6, <1>8, <1>9, OthersKept
<1>11. Stored'
  <2>1. ASSUME NEW j \in DOMAIN sessions'
        PROVE  /\ \E d \in Calls : j = <<d, "refresh">> /\ pc'[d] = "done"
               /\ sessions'[j].token.id = j
               /\ sessions'[j].username = sessions'[j].token.user
               /\ sessions'[j].expires = sessions'[j].token.expires
    <3>1. CASE j = i
      BY <1>5, <3>1
    <3>2. CASE j # i
      BY <1>5, <1>6, <3>2, OldSessionsKept
    <3> QED BY <3>1, <3>2
  <2> QED BY <2>1 DEF Stored
<1>12. PasswordsKept'
  BY <1>5, <1>6, PasswordsRemain DEF IInv, PasswordsKept
<1>13. i \in DOMAIN sessions' /\ sessions'[i] = session
  BY <1>5
<1>14. ASSUME NEW t \in held' \ held
       PROVE  t \in {access, refresh} /\ resp'[c] = "OK"
  BY <1>5
<1>15. RefreshHasSession'
  BY <1>6, <1>13, <1>14, OldTokensKept DEF RefreshHasSession
<1>16. TokensComeFromLogins'
  <2>1. req'[c].password \in PasswordsOf(u)' /\ req' = req
    BY <1>2, <1>5, <1>6, PasswordsRemain
  <2> QED BY <1>2, <1>6, <1>14, <2>1, OldTokensKept DEF TokensComeFromLogins
<1>17. AccessBounded'
  <2>1. at + AccessDuration <= session.expires + AccessDuration
    BY SessionsAssumption
  <2> QED BY <1>6, <1>13, <1>14, <2>1, OldTokensKept DEF AccessBounded
<1> QED BY <1>7, <1>10, <1>11, <1>12, <1>15, <1>16, <1>17 DEF IInv

\* The new access token is for the user of the session, who has logged in, and
\* is made before the session expires.
LEMMA RenewInv ==
  ASSUME IInv, NEW c \in Calls, Renew(c)
  PROVE  IInv'
<1> DEFINE t == shown[c]
           access == [id |-> <<c, "access">>, user |-> t.user, expires |-> now + AccessDuration]
<1>1. /\ pc[c] = "renew" /\ t \in held /\ t \in Token
      /\ UNCHANGED <<password, sessions, now, req, shown, row>>
      /\ pc'[c] = "done" /\ resp'[c] # "none"
  BY DEF Renew, Answer, IInv, TypeOK, Presents
<1>2. \/ UNCHANGED <<made, held>>
      \/ /\ made' = [made EXCEPT ![c] = {access}] /\ held' = held \cup {access}
         /\ \A s \in row[c] : s.username = t.user /\ s.token = t /\ now <= s.expires
  <2>1. CASE \A s \in row[c] : Renewable(s, t)
    <3>1. made' = [made EXCEPT ![c] = {access}] /\ held' = held \cup made'[c]
      BY <2>1 DEF Renew, NewToken
    <3>2. \A s \in row[c] : s \in Session
      BY <1>1 DEF IInv, TypeOK, Serves
    <3>3. \A s \in row[c] : s.username = t.user /\ s.token = t /\ now <= s.expires
      BY <2>1, <3>2 DEF Renewable, After, Session, IInv, TypeOK
    <3> QED BY <3>1, <3>3 DEF IInv, TypeOK
  <2>2. CASE ~\A s \in row[c] : Renewable(s, t)
    BY <2>2 DEF Renew
  <2> QED BY <2>1, <2>2
<1>3. StepOf({c})
  BY <1>1, <1>2 DEF Renew, Answer, StepOf, SessionsKept, IInv, TypeOK
<1>4. TypeOK' /\ DOMAIN row' = Calls
  <2>1. access \in Token
    BY <1>1, SessionsAssumption DEF IInv, TypeOK, Token, TokenIds
  <2>2. held' \subseteq Token /\ made' \in [Calls -> SUBSET Token]
    BY <1>2, <2>1 DEF IInv, TypeOK
  <2> QED BY <2>2 DEF Renew, Answer, IInv, TypeOK, PC, Codes
<1>5. Serves(c)' /\ LoggingIn(c)' /\ Renewing(c)'
  BY <1>1 DEF Serves, LoggingIn, Renewing
<1>6. Presents(c)'
  BY <1>1, <1>2 DEF IInv, Presents
<1>7. \A d \in Calls : Serves(d)' /\ Presents(d)' /\ LoggingIn(d)' /\ Renewing(d)'
  BY <1>3, <1>5, <1>6, OthersKept
<1>8. Stored'
  BY <1>1, <1>3, OldSessionsKept DEF Stored
<1>9. PasswordsKept'
  BY <1>1, <1>3, PasswordsRemain DEF IInv, PasswordsKept
<1>10. \A x \in held' \ held : x = access
  BY <1>2
<1>11. RefreshHasSession'
  BY <1>3, <1>10, OldTokensKept DEF RefreshHasSession
<1>12. TokensComeFromLogins'
  BY <1>1, <1>3, <1>10, OldTokensKept DEF TokensComeFromLogins
<1>13. AccessBounded'
  <2>1. CASE held' = held
    BY <1>3, <2>1, OldTokensKept DEF AccessBounded
  <2>2. CASE held' # held
    <3>1. PICK s \in row[c] : /\ t.id \in DOMAIN sessions
                              /\ s.username = sessions[t.id].username
                              /\ s.expires = sessions[t.id].expires
      BY <1>1 DEF IInv, Renewing
    <3>2. s.username = t.user /\ now <= s.expires
      BY <1>2, <2>2
    <3>3. now + AccessDuration <= sessions[t.id].expires + AccessDuration
      BY <3>1, <3>2, SessionsAssumption DEF IInv, TypeOK, Session
    <3>4. \A x \in held' \ held :
            \E i \in DOMAIN sessions' :
              /\ sessions'[i].username = x.user
              /\ x.expires <= sessions'[i].expires + AccessDuration
      <4>1. t.id \in DOMAIN sessions' /\ sessions'[t.id].username = t.user
        BY <1>1, <3>1, <3>2
      <4>2. now + AccessDuration <= sessions'[t.id].expires + AccessDuration
        BY <1>1, <3>3
      <4>3. access.user = t.user /\ access.expires = now + AccessDuration
        OBVIOUS
      <4> QED BY <1>10, <4>1, <4>2, <4>3
    <3> QED BY <1>3, <3>4, OldTokensKept DEF AccessBounded
  <2> QED BY <2>1, <2>2
<1> QED BY <1>4, <1>7, <1>8, <1>9, <1>11, <1>12, <1>13 DEF IInv

\* The password that is written is one the user has asked for.
LEMMA UpdateUserInv ==
  ASSUME IInv, NEW c \in Calls, UpdateUser(c)
  PROVE  IInv'
<1> DEFINE u == req[c].username
<1>1. /\ pc[c] = "update" /\ req[c].op = "UpdateUser" /\ req[c].password \in Passwords
      /\ shown[c] \in held /\ shown[c].user = u /\ u \in Users
      /\ UNCHANGED <<sessions, held, req, shown, row, made>>
      /\ password' = [password EXCEPT ![u] = req[c].password]
      /\ pc'[c] = "done" /\ resp'[c] # "none"
  BY RequestType DEF UpdateUser, Answer, IInv, TypeOK, Presents, Serves, Token
<1>2. StepOf({c})
  BY <1>1 DEF UpdateUser, Answer, StepOf, SessionsKept, IInv, TypeOK
<1>3. TypeOK' /\ DOMAIN row' = Calls
  BY <1>1 DEF UpdateUser, Answer, IInv, TypeOK, PC, Codes
<1>4. Serves(c)' /\ Presents(c)' /\ LoggingIn(c)' /\ Renewing(c)'
  BY <1>1 DEF IInv, Serves, Presents, LoggingIn, Renewing
<1>5. \A d \in Calls : Serves(d)' /\ Presents(d)' /\ LoggingIn(d)' /\ Renewing(d)'
  BY <1>2, <1>4, OthersKept
<1>6. PasswordsKept'
  <2>1. ASSUME NEW v \in Users PROVE password'[v] \in PasswordsOf(v)'
    <3>1. CASE v = u
      <4>1. password'[u] = req[c].password
        BY <1>1 DEF IInv, TypeOK
      <4> QED BY <1>1, <3>1, <4>1 DEF PasswordsOf
    <3>2. CASE v # u
      BY <1>1, <1>2, <3>2, PasswordsRemain DEF IInv, TypeOK, PasswordsKept
    <3> QED BY <3>1, <3>2
  <2> QED BY <2>1 DEF PasswordsKept
<1>7. Stored'
  BY <1>1, <1>2, OldSessionsKept DEF Stored
<1>8. RefreshHasSession' /\ TokensComeFromLogins' /\ AccessBounded'
  BY <1>1, <1>2, OldTokensKept DEF RefreshHasSession, TokensComeFromLogins, AccessBounded
<1> QED BY <1>3, <1>5, <1>6, <1>7, <1>8 DEF IInv

\* Blocking a session, and the passing of time, are not seen by any call.
LEMMA BlockInv ==
  ASSUME IInv, NEW i \in DOMAIN sessions, Block(i)
  PROVE  IInv'
<1>1. DOMAIN sessions' = DOMAIN sessions /\ SessionsKept
  BY DEF Block, SessionsKept, IInv, TypeOK, Session
<1>2. StepOf({})
  BY <1>1 DEF Block, StepOf
<1>3. TypeOK' /\ DOMAIN row' = Calls
  <2>1. sessions' \in [DOMAIN sessions' -> Session]
    <3>1. [sessions[i] EXCEPT !.blocked = TRUE] \in Session
      <4>1. sessions[i] \in Session
        BY DEF IInv, TypeOK
      <4> QED BY <4>1 DEF Session
    <3> QED BY <3>1 DEF Block, IInv, TypeOK
  <2> QED BY <1>1, <2>1 DEF Block, IInv, TypeOK
<1> QED BY <1>1, <1>2, <1>3, NothingNew DEF Block

LEMMA TickInv ==
  ASSUME IInv, Tick
  PROVE  IInv'
<1>1. StepOf({})
  BY DEF Tick, StepOf, SessionsKept
<1>2. TypeOK' /\ DOMAIN row' = Calls
  BY SessionsAssumption DEF Tick, IInv, TypeOK
<1> QED BY <1>1, <1>2, NothingNew DEF Tick

LEMMA StutterInv ==
  ASSUME IInv, UNCHANGED vars
  PROVE  IInv'
<1>1. StepOf({})
  BY DEF vars, StepOf, SessionsKept
<1>2. TypeOK' /\ DOMAIN row' = Calls
  BY DEF vars, IInv, TypeOK
<1> QED BY <1>1, <1>2, NothingNew DEF vars

-----------------------------------------------------------------------------
(* The theorems.                                                           *)

\* IInv holds initially and is preserved by every step.
THEOREM Invariance == Spec => []IInv
<1>1. IInv /\ [Next]_vars => IInv'
  BY ReceiveInv, GetUserInv, SignInInv, CreateSessionInv, VerifyInv, GetSessionInv,
     RenewInv, AuthenticateInv, StampInv, UpdateUserInv, FailInv, BlockInv, TickInv,
     StutterInv DEF Next, Quiescent
<1> QED BY <1>1, InitInv, PTL DEF Spec

\* Every variable keeps its type, tokens that outlive their making included.
THEOREM TypeCorrect == Spec => []TypeOK
<1>1. IInv => TypeOK BY DEF IInv
<1> QED BY <1>1, Invariance, PTL

\* LoginUser: whoever holds a refresh token has a session for it.
THEOREM RefreshHasSessionHolds == Spec => []RefreshHasSession
<1>1. IInv => RefreshHasSession BY DEF IInv
<1> QED BY <1>1, Invariance, PTL

\* LoginUser, RenewAccessToken: however tokens were renewed and passwords changed,
\* each goes back to a login of its user with a password of that user.
THEOREM TokensComeFromLoginsHolds == Spec => []TokensComeFromLogins
<1>1. IInv => TokensComeFromLogins BY DEF IInv
<1> QED BY <1>1, Invariance, PTL

\* RenewAccessToken: an access token outlives some session of its user by its own
\* duration at most, whatever the durations and however slow the calls.
THEOREM AccessBoundedHolds == Spec => []AccessBounded
<1>1. IInv => AccessBounded BY DEF IInv
<1> QED BY <1>1, Invariance, PTL

\* UpdateUser: a password changes only by a call that presents a token of the user.
THEOREM OwnerChanges == Spec => OnlyOwnerChangesPassword
<1> DEFINE Own == \A u \in Users : password'[u] # password[u] =>
              \E c \in Calls : pc[c] = "update" /\ shown[c] \in held /\ shown[c].user = u
<1>1. IInv /\ [Next]_vars => [Own]_vars
  <2> SUFFICES ASSUME IInv, Next, NEW u \in Users, password'[u] # password[u]
               PROVE  \E c \in Calls : pc[c] = "update" /\ shown[c] \in held /\ shown[c].user = u
    BY DEF vars
  <2>1. PICK c \in Calls : UpdateUser(c)
    BY DEF Next, Receive, GetUser, SignIn, CreateSession, VerifyRefreshToken, GetSession,
           Renew, Authenticate, StampChange, Fail, Block, Tick, Quiescent, vars
  <2>2. pc[c] = "update" /\ req[c].username = u
    BY <2>1 DEF UpdateUser, IInv, TypeOK
  <2> QED BY <2>2 DEF IInv, Presents
<1> QED BY <1>1, Invariance, PTL DEF Spec, OnlyOwnerChangesPassword

-----------------------------------------------------------------------------
(* Blocking a session.                                                     *)

\* Nothing unblocks a session.
LEMMA BlocksRemain ==
  ASSUME IInv, [Next]_vars, NEW i \in DOMAIN sessions, sessions[i].blocked
  PROVE  i \in DOMAIN sessions' /\ sessions'[i].blocked
<1>1. ASSUME NEW c \in Calls, CreateSession(c)
      PROVE  i \in DOMAIN sessions' /\ sessions'[i].blocked
  <2>1. i # <<c, "refresh">>
    BY <1>1 DEF CreateSession, IInv, Stored
  <2> QED BY <1>1, <2>1 DEF CreateSession, Insert
<1>2. ASSUME NEW j \in DOMAIN sessions, Block(j)
      PROVE  i \in DOMAIN sessions' /\ sessions'[i].blocked
  <2>1. sessions[j] \in Session
    BY DEF IInv, TypeOK
  <2> QED BY <1>2, <2>1 DEF Block, Session
<1>3. CASE UNCHANGED sessions
  BY <1>3
<1> QED BY <1>1, <1>2, <1>3 DEF Next, Receive, GetUser, SignIn, VerifyRefreshToken,
      GetSession, Renew, Authenticate, StampChange, UpdateUser, Fail, Tick, Quiescent, vars

\* The call is sent with the token of a blocked session, and has not read it,
\* or has read that it is blocked, or has ended without a token.
Stopped(c) ==
  /\ shown[c].id \in DOMAIN sessions
  /\ sessions[shown[c].id].blocked
  /\ \/ pc[c] = "getSession"
     \/ pc[c] = "renew" /\ \A s \in row[c] : s.blocked
     \/ pc[c] = "done"
  /\ resp[c] # "OK"

\* A call that is stopped remains so.
LEMMA StaysStopped ==
  ASSUME IInv, [Next]_vars, NEW c \in Calls, Stopped(c)
  PROVE  Stopped(c)'
<1> DEFINE i == shown[c].id
<1>1. i \in DOMAIN sessions' /\ sessions'[i].blocked
  BY BlocksRemain DEF Stopped
<1>2. CASE UNCHANGED <<pc, resp, shown, row>>
  BY <1>1, <1>2 DEF Stopped
<1>3. ASSUME NEW d \in Calls,
             \/ Receive(d) \/ GetUser(d) \/ SignIn(d) \/ CreateSession(d)
             \/ VerifyRefreshToken(d) \/ GetSession(d) \/ Renew(d)
             \/ Authenticate(d) \/ StampChange(d) \/ UpdateUser(d) \/ Fail(d)
      PROVE  Stopped(c)'
  <2>1. CASE d # c
    <3>1. pc'[c] = pc[c] /\ resp'[c] = resp[c] /\ shown'[c] = shown[c] /\ row'[c] = row[c]
      BY <1>3, <2>1 DEF Receive, GetUser, SignIn, CreateSession, VerifyRefreshToken,
         GetSession, Renew, Authenticate, StampChange, UpdateUser, Fail, Goto, Answer,
         IInv, TypeOK
    <3> QED BY <1>1, <3>1 DEF Stopped
  <2>2. CASE d = c /\ pc[c] = "getSession"
    <3>1. GetSession(c) \/ Fail(c)
      BY <1>3, <2>2 DEF Receive, GetUser, SignIn, CreateSession, VerifyRefreshToken,
         Renew, Authenticate, StampChange, UpdateUser
    <3>2. CASE GetSession(c)
      <4>1. /\ shown' = shown /\ row' = [row EXCEPT ![c] = {sessions[i]}]
            /\ pc'[c] = "renew" /\ resp' = resp
        BY <3>2 DEF GetSession, Goto, Stopped, IInv, TypeOK
      <4> QED BY <1>1, <4>1 DEF Stopped, IInv
    <3>3. CASE Fail(c)
      BY <1>1, <3>3 DEF Fail, Answer, Stopped, IInv, TypeOK
    <3> QED BY <3>1, <3>2, <3>3
  <2>3. CASE d = c /\ pc[c] = "renew"
    <3>1. Renew(c)
      BY <1>3, <2>3 DEF Receive, GetUser, SignIn, CreateSession, VerifyRefreshToken,
         GetSession, Authenticate, StampChange, UpdateUser, Fail
    <3>2. ~\A s \in row[c] : Renewable(s, shown[c])
      BY <2>3 DEF Stopped, Renewable, IInv, Renewing
    <3> QED BY <1>1, <3>1, <3>2 DEF Renew, Answer, Stopped, IInv, TypeOK
  <2>4. CASE d = c /\ pc[c] = "done"
    BY <1>3, <2>4 DEF Receive, GetUser, SignIn, CreateSession, VerifyRefreshToken,
       GetSession, Renew, Authenticate, StampChange, UpdateUser, Fail
  <2> QED BY <2>1, <2>2, <2>3, <2>4 DEF Stopped
<1> QED BY <1>2, <1>3 DEF Next, Block, Tick, Quiescent, vars

\* RenewAccessToken: a call that has not read its session when it is blocked
\* renews nothing, whatever else happens before it reads it.
THEOREM BlockStops == Spec => BlockStopsRenewal
<1> SUFFICES ASSUME NEW c \in Calls
             PROVE  Spec => [](( /\ pc[c] = "getSession"
                                 /\ shown[c].id \in DOMAIN sessions
                                 /\ sessions[shown[c].id].blocked )
                               => [](resp[c] # "OK"))
  BY DEF BlockStopsRenewal
<1>1. IInv => (( /\ pc[c] = "getSession"
                 /\ shown[c].id \in DOMAIN sessions
                 /\ sessions[shown[c].id].blocked ) => Stopped(c))
  BY DEF IInv, Serves, Stopped
<1>2. IInv /\ [Next]_vars => (Stopped(c) => Stopped(c)')
  BY StaysStopped
<1>3. Stopped(c) => resp[c] # "OK"
  BY DEF Stopped
<1> QED BY <1>1, <1>2, <1>3, Invariance, PTL DEF Spec
=============================================================================
