------------------------------ MODULE Sessions ------------------------------
(***************************************************************************)
(* Authentication: LoginUser, RenewAccessToken, the interceptor that       *)
(* verifies bearer tokens, and the protected handler whose writes matter   *)
(* here, the change of a password by UpdateUser; all running concurrently. *)
(*                                                                         *)
(* Each element of Calls is one invocation of a handler.  A token is the   *)
(* payload it seals: the id drawn for it, which no other token has, its    *)
(* user and its expiry.  A client holds the tokens it was answered with    *)
(* and presents one of them, of either kind, or something that is no token *)
(* of this server.  A hash is modelled by the password it matches.         *)
(*                                                                         *)
(* Time advances between the steps of a call, never during the code        *)
(* between two of them, which does no I/O.                                 *)
(***************************************************************************)
EXTENDS Integers, FiniteSets

CONSTANTS
  Calls,             \* handler invocations
  Users,             \* the usernames that are registered
  Strangers,         \* usernames that are not
  Passwords,
  InitPassword,      \* the password of each user when the server starts
  Forged,            \* what is presented instead of a token
  Requests,          \* the requests the clients may send
  AccessDuration,    \* ACCESS_TOKEN_DURATION
  RefreshDuration,   \* REFRESH_TOKEN_DURATION
  MaxTime            \* bound: the last instant

Names == Users \cup Strangers

\* "valid" tells whether the request passes its field validators.
LoginRequest  == [op : {"LoginUser"}, username : Names, password : Passwords,
                  valid : BOOLEAN]
RenewRequest  == [op : {"RenewAccessToken"}, valid : BOOLEAN]
ChangeRequest == [op : {"UpdateUser"}, username : Names, password : Passwords,
                  valid : BOOLEAN]

TokenIds == Calls \X {"access", "refresh"}

Token == [id : TokenIds, user : Users, expires : Nat \ {0}]

ASSUME SessionsAssumption ==
  /\ AccessDuration \in Nat /\ RefreshDuration \in Nat /\ MaxTime \in Nat \ {0}
  /\ Users \cap Strangers = {}
  /\ InitPassword \in [Users -> Passwords]
  /\ Requests \subseteq LoginRequest \cup RenewRequest \cup ChangeRequest
  /\ Forged \notin Token

VARIABLES
  password,    \* users.hashed_password
  changedAt,   \* users.password_changed_at, 0 standing for 0001-01-01
  sessions,    \* the rows of sessions, by the id of the refresh token
  held,        \* the tokens the clients have been answered with
  now,
  req, pc, resp,   \* of each call: request, next step, status code
  shown,       \* the token the call was sent with
  row,         \* what GetUser, or GetSession, has returned
  made,        \* the tokens the call has created
  stamp        \* the time UpdateUser has read for password_changed_at

vars == <<password, changedAt, sessions, held, now, req, pc, resp, shown, row,
          made, stamp>>

Session == [username : Users, token : Token, blocked : BOOLEAN, expires : Nat]

\* No row, no token.
None == {}

PC == {"idle", "getUser", "signIn", "createSession", "verify", "getSession",
       "renew", "authenticate", "stamp", "update", "done"}

Codes == {"OK", "InvalidArgument", "Unauthenticated", "PermissionDenied",
          "NotFound", "Internal"}

Init ==
  /\ password = InitPassword
  /\ changedAt = [u \in Users |-> 0]
  /\ sessions = [i \in {} |-> None]
  /\ held = {}
  /\ now = 1
  /\ req \in [Calls -> Requests]
  /\ pc = [c \in Calls |-> "idle"]
  /\ resp = [c \in Calls |-> "none"]
  /\ shown = [c \in Calls |-> Forged]
  /\ row = [c \in Calls |-> None]
  /\ made = [c \in Calls |-> None]
  /\ stamp = [c \in Calls |-> 0]

-----------------------------------------------------------------------------
Goto(c, label) == /\ pc' = [pc EXCEPT ![c] = label]
                  /\ UNCHANGED resp

Answer(c, code) == /\ pc' = [pc EXCEPT ![c] = "done"]
                   /\ resp' = [resp EXCEPT ![c] = code]

\* MUTANT, TypeOK: the expiry lies as far in the past as it should in the future.
NewTokenBackdated(c, kind, user, duration) ==
  [id |-> <<c, kind>>, user |-> user, expires |-> now - duration]

\* CreateToken.
NewToken(c, kind, user, duration) ==
  [id |-> <<c, kind>>, user |-> user, expires |-> now + duration]

\* time.Now().After(t)
After(t) == now > t

\* VerifyToken: the token was sealed by this server and has not expired.
VerifyToken(t) == t # Forged /\ ~After(t.expires)

\* LoginUser and RenewAccessToken are public; the interceptor verifies the
\* token of UpdateUser before its handler validates the request.
Receive(c) ==
  LET r == req[c]
  IN  /\ pc[c] = "idle"
      /\ \/ r.op # "UpdateUser" /\ ~r.valid /\ Answer(c, "InvalidArgument")
         \/ r.op = "LoginUser" /\ r.valid /\ Goto(c, "getUser")
         \/ r.op = "RenewAccessToken" /\ r.valid /\ Goto(c, "verify")
         \/ r.op = "UpdateUser" /\ Goto(c, "authenticate")
      /\ IF r.op = "LoginUser"
         THEN UNCHANGED shown
         ELSE \E t \in held \cup {Forged} : shown' = [shown EXCEPT ![c] = t]
      /\ UNCHANGED <<password, changedAt, sessions, held, now, req, row, made,
                     stamp>>

-----------------------------------------------------------------------------
(* LoginUser.                                                              *)

GetUser(c) ==
  LET u == req[c].username
  IN  /\ pc[c] = "getUser"
      /\ IF u \in Users
         THEN row' = [row EXCEPT ![c] = {password[u]}] /\ Goto(c, "signIn")
         ELSE Answer(c, "NotFound") /\ UNCHANGED row
      /\ UNCHANGED <<password, changedAt, sessions, held, now, req, shown, made,
                     stamp>>

\* MUTANT, TokensComeFromLogins: any password will do.
CheckPasswordAny(c) == row[c] # None

\* CheckPassword on the hash that was read.
CheckPassword(c) == row[c] = {req[c].password}

\* The access token is created, then the refresh token.
SignIn(c) ==
  LET u == req[c].username
  IN  /\ pc[c] = "signIn"
      /\ IF CheckPassword(c)
         THEN /\ made' = [made EXCEPT ![c] =
                   {NewToken(c, "access", u, AccessDuration),
                    NewToken(c, "refresh", u, RefreshDuration)}]
              /\ Goto(c, "createSession")
         ELSE Answer(c, "Unauthenticated") /\ UNCHANGED made
      /\ UNCHANGED <<password, changedAt, sessions, held, now, req, shown, row,
                     stamp>>

RefreshToken(c) == CHOOSE t \in made[c] : t.id = <<c, "refresh">>

NewSession(c) ==
  LET t == RefreshToken(c)
  IN  [username |-> req[c].username, token |-> t, blocked |-> FALSE,
       expires |-> t.expires]

\* INSERT INTO sessions.
Insert(id, s) ==
  sessions' = [i \in DOMAIN sessions \cup {id} |-> IF i = id THEN s ELSE sessions[i]]

Hand(c) == held' = held \cup made[c]

\* MUTANT, RefreshHasSession: an error of the INSERT is not returned.
CreateSessionOrNot(c) ==
  /\ pc[c] = "createSession"
  /\ \/ Insert(<<c, "refresh">>, NewSession(c))
     \/ UNCHANGED sessions
  /\ Answer(c, "OK") /\ Hand(c)
  /\ UNCHANGED <<password, changedAt, now, req, shown, row, made, stamp>>

\* CreateSession; the client has the tokens only if the answer arrives.
CreateSession(c) ==
  /\ pc[c] = "createSession"
  /\ Insert(<<c, "refresh">>, NewSession(c))
  /\ \/ Answer(c, "OK") /\ Hand(c)
     \/ Answer(c, "Internal") /\ UNCHANGED held
  /\ UNCHANGED <<password, changedAt, now, req, shown, row, made, stamp>>

-----------------------------------------------------------------------------
(* RenewAccessToken.                                                       *)

VerifyRefreshToken(c) ==
  /\ pc[c] = "verify"
  /\ IF VerifyToken(shown[c]) THEN Goto(c, "getSession")
                              ELSE Answer(c, "Unauthenticated")
  /\ UNCHANGED <<password, changedAt, sessions, held, now, req, shown, row, made,
                 stamp>>

\* An access token has an id, too, but no session.
GetSession(c) ==
  LET i == shown[c].id
  IN  /\ pc[c] = "getSession"
      /\ IF i \in DOMAIN sessions
         THEN row' = [row EXCEPT ![c] = {sessions[i]}] /\ Goto(c, "renew")
         ELSE Answer(c, "NotFound") /\ UNCHANGED row
      /\ UNCHANGED <<password, changedAt, sessions, held, now, req, shown, made,
                     stamp>>

\* MUTANT, BlockStopsRenewal: a blocked session is renewed.
RenewableBlocked(s, t) == s.username = t.user /\ s.token = t /\ ~After(s.expires)

\* MUTANT, AccessBounded: an expired session is renewed.
RenewableLate(s, t) == ~s.blocked /\ s.username = t.user /\ s.token = t

\* The session, as it was read, is that of the token, and still good.
Renewable(s, t) == /\ ~s.blocked
                   /\ s.username = t.user
                   /\ s.token = t
                   /\ ~After(s.expires)

Renew(c) ==
  LET t == shown[c]
  IN  /\ pc[c] = "renew"
      /\ IF \A s \in row[c] : Renewable(s, t)
         THEN /\ made' = [made EXCEPT ![c] =
                   {NewToken(c, "access", t.user, AccessDuration)}]
              /\ held' = held \cup made'[c]
              /\ Answer(c, "OK")
         ELSE Answer(c, "Unauthenticated") /\ UNCHANGED <<made, held>>
      /\ UNCHANGED <<password, changedAt, sessions, now, req, shown, row, stamp>>

-----------------------------------------------------------------------------
(* The interceptor, and UpdateUser with a password.                        *)

\* MUTANT, OnlyOwnerChangesPassword: any user may be changed.
MayUpdateAnyone(c) == shown[c] # Forged

\* The handler may change the profile of the user it is asked to change.
MayUpdate(c) == shown[c].user = req[c].username

Authenticate(c) ==
  /\ pc[c] = "authenticate"
  /\ IF ~VerifyToken(shown[c]) THEN Answer(c, "Unauthenticated")
     ELSE IF ~req[c].valid THEN Answer(c, "InvalidArgument")
     ELSE IF ~MayUpdate(c) THEN Answer(c, "PermissionDenied")
     ELSE Goto(c, "stamp")
  /\ UNCHANGED <<password, changedAt, sessions, held, now, req, shown, row, made,
                 stamp>>

\* HashPassword takes its time; then time.Now().
StampChange(c) ==
  /\ pc[c] = "stamp"
  /\ stamp' = [stamp EXCEPT ![c] = now]
  /\ Goto(c, "update")
  /\ UNCHANGED <<password, changedAt, sessions, held, now, req, shown, row, made>>

UpdateUser(c) ==
  LET u == req[c].username
  IN  /\ pc[c] = "update"
      /\ password' = [password EXCEPT ![u] = req[c].password]
      /\ changedAt' = [changedAt EXCEPT ![u] = stamp[c]]
      /\ Answer(c, "OK") \/ Answer(c, "Internal")
      /\ UNCHANGED <<sessions, held, now, req, shown, row, made, stamp>>

-----------------------------------------------------------------------------
\* A statement fails: the connection breaks or the request is cancelled.
Fail(c) ==
  /\ pc[c] \in {"getUser", "createSession", "getSession", "update"}
  /\ Answer(c, "Internal")
  /\ UNCHANGED <<password, changedAt, sessions, held, now, req, shown, row, made,
                 stamp>>

\* No code sets is_blocked: it is set in the database by hand.
Block(i) ==
  /\ ~sessions[i].blocked
  /\ sessions' = [sessions EXCEPT ![i].blocked = TRUE]
  /\ UNCHANGED <<password, changedAt, held, now, req, pc, resp, shown, row, made,
                 stamp>>

Tick == /\ now < MaxTime
        /\ now' = now + 1
        /\ UNCHANGED <<password, changedAt, sessions, held, req, pc, resp, shown,
                       row, made, stamp>>

Quiescent == (\A c \in Calls : pc[c] = "done") /\ UNCHANGED vars

Next == \/ \E c \in Calls :
             \/ Receive(c)
             \/ GetUser(c) \/ SignIn(c) \/ CreateSession(c)
             \/ VerifyRefreshToken(c) \/ GetSession(c) \/ Renew(c)
             \/ Authenticate(c) \/ StampChange(c) \/ UpdateUser(c)
             \/ Fail(c)
        \/ \E i \in DOMAIN sessions : Block(i)
        \/ Tick
        \/ Quiescent

Spec == Init /\ [][Next]_vars

-----------------------------------------------------------------------------
(* Properties.                                                             *)

\* The type of every variable.
TypeOK ==
  /\ password \in [Users -> Passwords]
  /\ changedAt \in [Users -> 0..MaxTime]
  /\ DOMAIN sessions \subseteq TokenIds
  /\ sessions \in [DOMAIN sessions -> Session]
  /\ held \subseteq Token
  /\ now \in 1..MaxTime
  /\ req \in [Calls -> Requests]
  /\ pc \in [Calls -> PC]
  /\ resp \in [Calls -> Codes \cup {"none"}]
  /\ shown \in [Calls -> Token \cup {Forged}]
  /\ \A c \in Calls :
       \A x \in row[c] : IF req[c].op = "LoginUser" THEN x \in Passwords
                                                    ELSE x \in Session
  /\ made \in [Calls -> SUBSET Token]
  /\ stamp \in [Calls -> 0..MaxTime]

\* Whoever holds a refresh token has a session for it, of the same user and
\* with the same expiry: the token is never handed out before the session is
\* stored.
RefreshHasSession ==
  \A t \in held : t.id[2] = "refresh" =>
    /\ t.id \in DOMAIN sessions
    /\ sessions[t.id].username = t.user
    /\ sessions[t.id].expires = t.expires

\* The passwords user u had, or was about to have, at some time.
PasswordsOf(u) ==
  {InitPassword[u]} \cup
    {req[c].password : c \in {d \in Calls : /\ req[d].op = "UpdateUser"
                                            /\ req[d].username = u
                                            /\ shown[d] \in held}}

\* Every token comes, through whatever chain of renewals, from a login of its
\* user with a password that was the user's.
TokensComeFromLogins ==
  \A t \in held : \E c \in Calls :
    /\ req[c].op = "LoginUser" /\ resp[c] = "OK"
    /\ req[c].username = t.user
    /\ req[c].password \in PasswordsOf(t.user)

\* rpc_login_user.proto: after the refresh token expires "the user must log in
\* again".  However slow the calls that renew it, an access token outlives
\* the last session of its user by its own duration at most.
AccessBounded ==
  \A t \in held : t.id[2] = "access" =>
    \E i \in DOMAIN sessions :
      /\ sessions[i].username = t.user
      /\ t.expires <= sessions[i].expires + AccessDuration

\* Blocked sessions are rejected: a call that has not read its session when it
\* is blocked renews nothing.
BlockStopsRenewal ==
  \A c \in Calls :
    [](( /\ pc[c] = "getSession"
         /\ shown[c].id \in DOMAIN sessions
         /\ sessions[shown[c].id].blocked )
       => [](resp[c] # "OK"))

\* A password changes only by a request sent with a token of that very user.
OnlyOwnerChangesPassword ==
  [][\A u \in Users : password'[u] # password[u] =>
       \E c \in Calls : pc[c] = "update" /\ shown[c] \in held /\ shown[c].user = u]_vars

=============================================================================
