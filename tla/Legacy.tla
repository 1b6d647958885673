------------------------------ MODULE Legacy ------------------------------
(***************************************************************************)
(* The Gin server (package api) that main.go keeps for reference, over the *)
(* same store and token maker: all its handlers, running concurrently.     *)
(*                                                                         *)
(* Each element of Calls is one request.  One action is one statement of   *)
(* the store with the code up to the next one, except that TransferTx is a *)
(* single step: module Bank has its statements, and shows that with their  *)
(* locks they act as one.  A handler does not look at the token again once *)
(* authMiddleware has verified it, however long its statements take.       *)
(*                                                                         *)
(* Statuses are those of HTTP.  A username stands for the username and the *)
(* e-mail address, both unique; passwords never change in this server, so  *)
(* a login tells only whether it has the right one.                        *)
(***************************************************************************)
EXTENDS Money, Sequences, FiniteSets, FiniteSetsExt

CONSTANTS
  Calls,             \* requests of clients
  Users,             \* usernames
  Registered,        \* those of the users who have signed up and logged in
  Currencies,        \* util.IsSupportedCurrency
  NoToken,           \* any header authMiddleware cannot get a token of ours from
  Requests,          \* the requests the clients may send
  Scenarios,         \* which of them are sent together
  InitAccounts,      \* the rows of accounts at first, by id
  MaxAccountId,      \* bound: the last value of the accounts.id sequence
  MaxInt32,          \* the largest int32, scaled down so that offsets wrap
  AccessDuration, RefreshDuration,
  MaxTime            \* bound: the last instant

Public    == {"createUser", "loginUser", "renewAccessToken"}
Protected == {"createAccount", "getAccount", "listAccounts", "updateAccount",
              "deleteAccount", "createTransfer"}

Account == [owner : Users, currency : Currencies, balance : Int64]

\* A token by the call that was answered with it, or, of the first ones, its user.
Token == [id : (Calls \cup Users) \X {"access", "refresh"}, user : Users, expires : Nat]

Session == [username : Users, token : Token, expires : Nat]

\* A row as an answer shows it.
Item(a, row) == [id |-> a, row |-> row]
Items == [id : 1..MaxAccountId, row : Account]

ASSUME LegacyAssumption ==
  /\ MaxAccountId \in Nat /\ MaxTime \in Nat /\ MaxInt32 \in Nat \ {0}
  /\ AccessDuration \in Nat /\ RefreshDuration \in Nat
  /\ Registered \subseteq Users
  /\ NoToken \notin Token
  /\ \A r \in Requests :
       /\ r.op \in Public \cup Protected
       /\ r.op \in {"createUser", "loginUser"} => r.username \in Users
       /\ r.op \in {"getAccount", "updateAccount", "deleteAccount"} => r.id \in Int
       /\ r.op = "updateAccount" => r.balance \in Int      \* JSON has no NaN
       /\ r.op = "createTransfer" => {r.from, r.to, r.amount} \subseteq Int
       /\ r.op = "listAccounts" => r.page \in Int /\ r.size \in Int
  /\ Scenarios \subseteq [Calls -> Requests]
  /\ InitAccounts \in Seq(Account) /\ Len(InitAccounts) <= MaxAccountId

VARIABLES
  users, sessions, accounts, nextId,   \* the tables, and the sequence of accounts.id
  moved,     \* the rows of transfers
  held,      \* the tokens the clients have
  now,
  req, pc, status,   \* of each call: its request, next step, answer
  shown,     \* the token it was sent with
  cents,     \* amountCents
  balance,   \* fromAccount.Balance as createTransfer read it
  made,      \* the tokens loginUser has created
  effect,    \* whether it has changed the database
  seen       \* the rows of accounts its answer contains

db   == <<users, sessions, accounts, nextId, moved>>
ctx  == <<shown, cents, balance, made>>
out  == <<held, effect, seen>>
vars == <<db, ctx, out, now, req, pc, status>>

FirstToken(u, kind) ==
  [id |-> <<u, kind>>, user |-> u,
   expires |-> IF kind = "access" THEN AccessDuration ELSE RefreshDuration]

FirstTokens == {FirstToken(u, k) : u \in Registered, k \in {"access", "refresh"}}

SessionOf(t) == [username |-> t.user, token |-> t, expires |-> t.expires]

Init ==
  /\ users = Registered
  /\ sessions = {SessionOf(FirstToken(u, "refresh")) : u \in Registered}
  /\ accounts = InitAccounts
  /\ nextId = Len(InitAccounts) + 1
  /\ moved = {}
  /\ held = FirstTokens
  /\ now = 0
  /\ req \in Scenarios
  /\ pc = [c \in Calls |-> "idle"]
  /\ status = [c \in Calls |-> 0]
  /\ shown = [c \in Calls |-> NoToken]
  /\ cents = [c \in Calls |-> 0]
  /\ balance = [c \in Calls |-> 0]
  /\ made = [c \in Calls |-> {}]
  /\ effect = [c \in Calls |-> FALSE]
  /\ seen = [c \in Calls |-> {}]

-----------------------------------------------------------------------------
Goto(c, label) == pc' = [pc EXCEPT ![c] = label] /\ UNCHANGED status

\* ctx.JSON, ctx.AbortWithStatusJSON
Answer(c, s) == /\ pc' = [pc EXCEPT ![c] = "done"]
                /\ status' = [status EXCEPT ![c] = s]

\* The statement has taken effect; its reply may be lost.
Took(c) == /\ effect' = [effect EXCEPT ![c] = TRUE]
           /\ Answer(c, 200) \/ Answer(c, 500)

\* The rows in the answer, if it is 200.
Show(c, items) == seen' = [seen EXCEPT ![c] = IF status'[c] = 200 THEN items ELSE {}]

VerifyToken(t) == t # NoToken /\ now <= t.expires

NewToken(c, kind, u, duration) ==
  [id |-> <<c, kind>>, user |-> u, expires |-> now + duration]

\* binding:"required,gt=0", and "required,gte=0", which refuses zero as well.
Positive(x) == x > 0

validCurrency(cur) == cur \in Currencies

\* ShouldBindJSON, ShouldBindUri and ShouldBindQuery, up to the first
\* statement; updateAccount binds only the id here.
Bound(r) ==
  CASE r.op \in {"createUser", "loginUser", "renewAccessToken"} -> r.valid
    [] r.op = "createAccount"  -> validCurrency(r.currency)
    [] r.op = "listAccounts"   -> r.page \in 1..MaxInt32 /\ r.size \in 1..100
    [] r.op = "createTransfer" -> /\ r.from >= 1 /\ r.to >= 1
                                  /\ Positive(r.amount) /\ validCurrency(r.currency)
    [] OTHER                   -> r.id >= 1

FirstStatement(op) ==
  CASE op = "createUser"       -> "insertUser"
    [] op = "loginUser"        -> "getUser"
    [] op = "renewAccessToken" -> "verify"
    [] op = "createAccount"    -> "insertAccount"
    [] op = "listAccounts"     -> "list"
    [] op = "createTransfer"   -> "from"
    [] OTHER                   -> "getAccount"

Bind(c) ==
  LET r == req[c]
  IN  /\ pc[c] = IF r.op \in Public THEN "idle" ELSE "bind"
      /\ IF Bound(r) THEN Goto(c, FirstStatement(r.op)) ELSE Answer(c, 400)
      /\ IF r.op = "createTransfer" /\ Bound(r)
         THEN \E n \in FloatToCents(r.amount) : cents' = [cents EXCEPT ![c] = n]
         ELSE UNCHANGED cents
      /\ UNCHANGED <<db, out, now, req, shown, balance, made>>

\* Whatever a client presents as its access token.
authMiddleware(c) ==
  /\ pc[c] = "idle" /\ req[c].op \in Protected
  /\ \E t \in held \cup {NoToken} :
       /\ shown' = [shown EXCEPT ![c] = t]
       /\ IF VerifyToken(t) THEN Goto(c, "bind") ELSE Answer(c, 401)
  /\ UNCHANGED <<db, out, now, req, cents, balance, made>>

User(c) == shown[c].user

-----------------------------------------------------------------------------
(* Users and tokens.                                                       *)

createUser(c) ==
  LET u == req[c].username
  IN  /\ pc[c] = "insertUser"
      /\ IF u \in users
         THEN Answer(c, 403) /\ UNCHANGED <<users, effect>>
         ELSE users' = users \cup {u} /\ Took(c)
      /\ UNCHANGED <<ctx, sessions, accounts, nextId, moved, held, seen, now, req>>

\* GetUser and CheckPassword; then both tokens are created.
loginUser(c) ==
  LET r == req[c]
  IN  /\ pc[c] = "getUser"
      /\ IF r.username \in users /\ r.right
         THEN /\ made' = [made EXCEPT ![c] =
                   {NewToken(c, "access", r.username, AccessDuration),
                    NewToken(c, "refresh", r.username, RefreshDuration)}]
              /\ Goto(c, "createSession")
         ELSE /\ Answer(c, IF r.username \in users THEN 401 ELSE 404)
              /\ UNCHANGED made
      /\ UNCHANGED <<db, out, now, req, shown, cents, balance>>

\* MUTANT, AnswersHonest: an error of the INSERT is not returned.
createSessionOrNot(c) ==
  /\ pc[c] = "createSession"
  /\ \/ UNCHANGED <<sessions, effect>>
     \/ /\ sessions' = sessions \cup {SessionOf(t) : t \in {m \in made[c] : m.id[2] = "refresh"}}
        /\ effect' = [effect EXCEPT ![c] = TRUE]
  /\ Answer(c, 200)
  /\ held' = held \cup made[c]
  /\ UNCHANGED <<ctx, users, accounts, nextId, moved, seen, now, req>>

\* CreateSession; the client has the tokens only if the answer arrives.
createSession(c) ==
  /\ pc[c] = "createSession"
  /\ sessions' = sessions \cup {SessionOf(t) : t \in {m \in made[c] : m.id[2] = "refresh"}}
  /\ Took(c)
  /\ held' = IF status'[c] = 200 THEN held \cup made[c] ELSE held
  /\ UNCHANGED <<ctx, users, accounts, nextId, moved, seen, now, req>>

\* A client sends any token of its own as its refresh token.
verifyRefreshToken(c) ==
  /\ pc[c] = "verify"
  /\ \E t \in held \cup {NoToken} :
       /\ shown' = [shown EXCEPT ![c] = t]
       /\ IF VerifyToken(t) THEN Goto(c, "getSession") ELSE Answer(c, 401)
  /\ UNCHANGED <<db, out, now, req, cents, balance, made>>

\* The session is that of the token and has not expired; no code blocks one.
Renewable(s, t) == s.username = t.user /\ s.token = t /\ now <= s.expires

\* GetSession, by the id of the token: an access token has none.
renewAccessToken(c) ==
  LET t     == shown[c]
      found == {s \in sessions : s.token.id = t.id}
  IN  /\ pc[c] = "getSession"
      /\ IF found = {} THEN Answer(c, 404) /\ UNCHANGED held
         ELSE IF \A s \in found : Renewable(s, t)
           THEN /\ held' = held \cup {NewToken(c, "access", t.user, AccessDuration)}
                /\ Answer(c, 200)
           ELSE Answer(c, 401) /\ UNCHANGED held
      /\ UNCHANGED <<db, ctx, effect, seen, now, req>>

-----------------------------------------------------------------------------
(* Accounts.                                                               *)

KeyTaken(u, cur) ==
  \E a \in DOMAIN accounts : accounts[a].owner = u /\ accounts[a].currency = cur

\* The sequence advances even if the row is refused.
createAccount(c) ==
  LET u   == User(c)
      cur == req[c].currency
  IN  /\ pc[c] = "insertAccount" /\ nextId <= MaxAccountId
      /\ nextId' = nextId + 1
      /\ IF u \notin users \/ KeyTaken(u, cur)
         THEN Answer(c, 403) /\ UNCHANGED <<accounts, effect>>
         ELSE /\ accounts' = [a \in DOMAIN accounts \cup {nextId} |->
                   IF a = nextId THEN [owner |-> u, currency |-> cur, balance |-> 0]
                                 ELSE accounts[a]]
              /\ Took(c)
      /\ Show(c, {Item(nextId, accounts'[nextId])})
      /\ UNCHANGED <<ctx, users, sessions, moved, held, now, req>>

Found(a) == a \in DOMAIN accounts

\* MUTANT, OwnersOnly: deleteAccount does not fetch first to verify ownership.
MayUnlessDeleting(c) == req[c].op = "deleteAccount" \/ accounts[req[c].id].owner = User(c)

\* The account, as it was fetched, belongs to the authenticated user.
May(c) == accounts[req[c].id].owner = User(c)

\* GetAccount and the check of the owner, the same in three handlers.  Only
\* then updateAccount binds the body.
getAccount(c) ==
  LET r == req[c]
  IN  /\ pc[c] = "getAccount"
      /\ IF ~Found(r.id) THEN Answer(c, 404)
         ELSE IF ~May(c) THEN Answer(c, 403)
         ELSE IF r.op = "getAccount" THEN Answer(c, 200)
         ELSE IF r.op = "deleteAccount" THEN Goto(c, "delete")
         ELSE IF Positive(r.balance) THEN Goto(c, "update") ELSE Answer(c, 400)
      /\ Show(c, {Item(r.id, accounts[r.id])})
      /\ UNCHANGED <<db, ctx, held, effect, now, req>>

\* The rows of the user.
Listed(c) == {a \in DOMAIN accounts : accounts[a].owner = User(c)}

\* (req.PageID - 1) * req.PageSize, in int32.
Offset(r) == (((r.page - 1) * r.size + MaxInt32 + 1) % (2 * (MaxInt32 + 1))) - MaxInt32 - 1

\* ListAccounts: the page of those rows in the order of their ids.  Postgres
\* refuses a negative OFFSET.
listAccounts(c) ==
  LET first   == Offset(req[c])
      Rank(a) == Cardinality({b \in Listed(c) : b < a})
      Page    == {a \in Listed(c) : Rank(a) \in first..first + req[c].size - 1}
  IN  /\ pc[c] = "list"
      /\ Answer(c, IF first < 0 THEN 500 ELSE 200)
      /\ Show(c, {Item(a, accounts[a]) : a \in Page})
      /\ UNCHANGED <<db, ctx, held, effect, now, req>>

updateAccount(c) ==
  LET a == req[c].id
  IN  /\ pc[c] = "update"
      /\ IF Found(a)
         THEN /\ \E n \in FloatToCents(req[c].balance) :
                   accounts' = [accounts EXCEPT ![a].balance = n]
              /\ Took(c)
         ELSE Answer(c, 404) /\ UNCHANGED <<accounts, effect>>
      /\ Show(c, {Item(a, accounts'[a])})
      /\ UNCHANGED <<ctx, users, sessions, nextId, moved, held, now, req>>

\* DELETE: refused while transfers or entries refer to the row; to delete
\* nothing is no error.
deleteAccount(c) ==
  LET a == req[c].id
  IN  /\ pc[c] = "delete"
      /\ IF \E t \in moved : a \in {t.from, t.to}
         THEN Answer(c, 500) /\ UNCHANGED <<accounts, effect>>
         ELSE /\ accounts' = [b \in DOMAIN accounts \ {a} |-> accounts[b]]
              /\ IF Found(a) THEN Took(c) ELSE Answer(c, 200) /\ UNCHANGED effect
      /\ UNCHANGED <<ctx, users, sessions, nextId, moved, held, seen, now, req>>

-----------------------------------------------------------------------------
(* Transfers.                                                              *)

\* validAccount: the status it answers with, 0 if the account is valid.
validAccount(c, a) ==
  IF ~Found(a) THEN 404 ELSE IF accounts[a].currency # req[c].currency THEN 400 ELSE 0

FromAccount(c) ==
  LET a == req[c].from
  IN  /\ pc[c] = "from"
      /\ IF validAccount(c, a) # 0 THEN Answer(c, validAccount(c, a)) /\ UNCHANGED balance
         ELSE IF accounts[a].owner # User(c) THEN Answer(c, 401) /\ UNCHANGED balance
         ELSE balance' = [balance EXCEPT ![c] = accounts[a].balance] /\ Goto(c, "to")
      /\ UNCHANGED <<db, out, now, req, shown, cents, made>>

\* The balance that was read is less than the amount.
Insufficient(c) == balance[c] < cents[c]

ToAccount(c) ==
  LET a == req[c].to
  IN  /\ pc[c] = "to"
      /\ IF validAccount(c, a) # 0 THEN Answer(c, validAccount(c, a))
         ELSE IF Insufficient(c) THEN Answer(c, 400)
         ELSE Goto(c, "transfer")
      /\ UNCHANGED <<db, ctx, out, now, req>>

\* MUTANT, TransfersSound: both new balances are computed before one is written.
MovedAtOnce(r, n) ==
  [a \in DOMAIN accounts |->
     IF a = r.to THEN [accounts[a] EXCEPT !.balance = @ + n]
     ELSE IF a = r.from THEN [accounts[a] EXCEPT !.balance = @ + Neg(n)]
     ELSE accounts[a]]

\* The two updates of addMoney, each on the row as it then is: nothing keeps
\* the two accounts apart.
Moved(r, n) ==
  [a \in DOMAIN accounts |->
     [accounts[a] EXCEPT !.balance = @ + (IF a = r.from THEN Neg(n) ELSE 0)
                                       + (IF a = r.to THEN n ELSE 0)]]

\* No sum leaves bigint, in the order of the updates.
InRange(r, n) ==
  /\ {Moved(r, n)[a].balance : a \in {r.from, r.to}} \subseteq Int64
  /\ r.from = r.to => accounts[r.to].balance + n \in Int64

\* Who transfers is shown both rows as the updates returned them, the recipient's
\* with its owner and balance; of a transfer to oneself, `to` was updated first.
TransferTx(c) ==
  LET r == req[c]
      n == cents[c]
  IN  /\ pc[c] = "transfer"
      /\ IF {r.from, r.to} \subseteq DOMAIN accounts /\ InRange(r, n)
         THEN /\ accounts' = Moved(r, n)
              /\ moved' = moved \cup {[id |-> c, from |-> r.from, to |-> r.to, amount |-> n]}
              /\ Took(c)
         ELSE Answer(c, 500) /\ UNCHANGED <<accounts, moved, effect>>
      /\ Show(c, {Item(r.from, accounts'[r.from]),
                  Item(r.to, [accounts[r.to] EXCEPT !.balance = @ + n])})
      /\ UNCHANGED <<ctx, users, sessions, nextId, held, now, req>>

-----------------------------------------------------------------------------
Statements == {"insertUser", "getUser", "createSession", "getSession", "insertAccount",
               "getAccount", "list", "update", "delete", "from", "to", "transfer"}

\* A statement fails, or the transaction of TransferTx is rolled back.
Fail(c) == /\ pc[c] \in Statements
           /\ Answer(c, 500)
           /\ UNCHANGED <<db, ctx, out, now, req>>

Tick == /\ now < MaxTime
        /\ now' = now + 1
        /\ UNCHANGED <<db, ctx, out, req, pc, status>>

Quiescent == (\A c \in Calls : pc[c] = "done") /\ UNCHANGED vars

Next ==
  \/ \E c \in Calls :
       \/ authMiddleware(c) \/ Bind(c) \/ createUser(c) \/ loginUser(c)
       \/ createSession(c) \/ verifyRefreshToken(c) \/ renewAccessToken(c)
       \/ createAccount(c) \/ getAccount(c) \/ listAccounts(c) \/ updateAccount(c)
       \/ deleteAccount(c) \/ FromAccount(c) \/ ToAccount(c) \/ TransferTx(c) \/ Fail(c)
  \/ Tick
  \/ Quiescent

Spec == Init /\ [][Next]_vars

-----------------------------------------------------------------------------
(* Properties.                                                             *)

\* The type of every variable.
TypeOK ==
  /\ users \subseteq Users
  /\ sessions \subseteq Session
  /\ DOMAIN accounts \subseteq 1..MaxAccountId
  /\ \A a \in DOMAIN accounts : accounts[a] \in Account
  /\ nextId \in 1..MaxAccountId + 1
  /\ moved \subseteq [id : Calls, from : DOMAIN accounts, to : DOMAIN accounts,
                      amount : Int64]
  /\ held \subseteq Token
  /\ now \in 0..MaxTime
  /\ req \in [Calls -> Requests]
  /\ pc \in [Calls -> Statements \cup {"idle", "bind", "verify", "done"}]
  /\ status \in [Calls -> {0, 200, 400, 401, 403, 404, 500}]
  /\ shown \in [Calls -> Token \cup {NoToken}]
  /\ cents \in [Calls -> Int64] /\ balance \in [Calls -> Int64]
  /\ made \in [Calls -> SUBSET Token]
  /\ effect \in [Calls -> BOOLEAN]
  /\ seen \in [Calls -> SUBSET Items]

\* The row of an account changes, or goes, only by a call its owner has
\* authenticated, or is credited by a transfer out of an account whose owner
\* has; owners were checked against rows read earlier, and tokens may have
\* expired since.
OwnersOnly ==
  [][\A a \in DOMAIN accounts :
       (a \notin DOMAIN accounts' \/ accounts'[a] # accounts[a]) =>
         \E c \in Calls :
           /\ pc[c] # "done" /\ pc'[c] = "done" /\ shown[c] \in held
           /\ IF req[c].op = "createTransfer"
              THEN a \in {req[c].from, req[c].to} /\ accounts[req[c].from].owner = User(c)
              ELSE accounts[a].owner = User(c)]_vars

Total(rows) == MapThenSumSet(LAMBDA a : rows[a].balance, DOMAIN rows)

\* No transfer makes or loses money, not even one from an account to itself,
\* which this server does not refuse; and it leaves its source overdrawn only
\* if the balance is no longer the one createTransfer compared with the amount.
\* Both unless the amount did not survive its conversion to cents.
TransfersSound ==
  [][\A t \in moved' \ moved : t.amount # MinInt =>
       /\ Total(accounts') = Total(accounts)
       /\ accounts'[t.from].balance < 0 => accounts[t.from].balance # balance[t.id]]_vars

\* 200 means that the change has been made, by this call or, for a deletion, by
\* another; 400 to 404 that this call has made none, so that it may be sent again.
StatusTrue(c) ==
  /\ status[c] = 200 /\ req[c].op \in {"createUser", "loginUser", "createAccount",
                                       "updateAccount", "createTransfer"} => effect[c]
  /\ status[c] = 200 /\ req[c].op = "deleteAccount" => ~Found(req[c].id)
  /\ status[c] \in 400..404 => ~effect[c]

\* The rows shown are the caller's own.  Only who has made a transfer is shown
\* the row it went to as well, whoever owns it.
RowsOwned(c) ==
  \A s \in seen[c] :
    \/ s.row.owner = User(c)
    \/ req[c].op = "createTransfer" /\ effect[c] /\ s.id = req[c].to

\* How a call has come to be answered with a token: by a login with the right
\* password, or by a renewal, which takes a refresh token of the same user that
\* the client had, and that had not expired when the new one was made.
Obtained(t, c) ==
  /\ t.id[1] = c /\ status[c] = 200
  /\ \/ req[c].op = "loginUser" /\ req[c].right /\ t.user = req[c].username
     \/ /\ req[c].op = "renewAccessToken" /\ t.id[2] = "access"
        /\ shown[c] \in held /\ shown[c].id[2] = "refresh" /\ t.user = User(c)
        /\ t.expires <= shown[c].expires + AccessDuration

\* Who holds a token has obtained it so, and a refresh token has its session.
TokensBacked ==
  \A t \in held :
    /\ t \in FirstTokens \/ \E c \in Calls : Obtained(t, c)
    /\ t.id[2] = "refresh" => SessionOf(t) \in sessions

\* An answer tells the truth about what was done, shows no rows but those its
\* caller may see, and gives tokens only to those who have proved who they are.
AnswersHonest == (\A c \in Calls : StatusTrue(c) /\ RowsOwned(c)) /\ TokensBacked
=============================================================================
