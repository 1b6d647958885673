--------------------------- MODULE Legacy_proofs ---------------------------
(***************************************************************************)
(* For any number of calls, any users, requests, accounts, durations and   *)
(* any width of integers: the rows of accounts are changed only by their   *)
(* owners (OwnersOnly), although the owner is checked against a row read   *)
(* before, transfers neither make nor lose money and overdraw only by the  *)
(* race (TransfersSound), and answers tell the truth, show only rows their *)
(* caller may see and give no token away (AnswersHonest).                  *)
(***************************************************************************)
EXTENDS Legacy, Sums, TLAPS

\* Which requests take a step.
Serves(c) ==
  /\ pc[c] = "bind" => req[c].op \in Protected
  /\ pc[c] = "insertUser" => req[c].op = "createUser"
  /\ pc[c] \in {"getUser", "createSession"} => req[c].op = "loginUser"
  /\ pc[c] \in {"verify", "getSession"} => req[c].op = "renewAccessToken"
  /\ pc[c] = "insertAccount" =>
       req[c].op = "createAccount" /\ validCurrency(req[c].currency)
  /\ pc[c] = "getAccount" => req[c].op \in {"getAccount", "updateAccount", "deleteAccount"}
  /\ pc[c] = "update" => req[c].op = "updateAccount"
  /\ pc[c] = "delete" => req[c].op = "deleteAccount"
  /\ pc[c] = "list" => req[c].op = "listAccounts"
  /\ pc[c] \in {"from", "to", "transfer"} => req[c].op = "createTransfer"

\* A call that is not over has done nothing and shown nothing.
Pending(c) == pc[c] # "done" => status[c] = 0 /\ ~effect[c] /\ seen[c] = {}

\* The steps after authMiddleware, or after the refresh token was verified.
Behind == {"bind", "getSession", "insertAccount", "getAccount", "list", "update",
           "delete", "from", "to", "transfer"}

Authenticated(c) == pc[c] \in Behind => shown[c] \in held

\* What the check of the owner still says when the row is written: the row may
\* have gone, but its id has not been given to another one.
OwnerOf(a, c) == a < nextId /\ (Found(a) => accounts[a].owner = User(c))

Owns(c) == /\ pc[c] \in {"update", "delete"} => OwnerOf(req[c].id, c)
           /\ pc[c] \in {"to", "transfer"} => OwnerOf(req[c].from, c)

\* What an answer tells and shows.  A deleted id stays free.
Honest(c) ==
  /\ status[c] = 200 /\ req[c].op \in {"createUser", "loginUser", "createAccount",
                                       "updateAccount", "createTransfer"} => effect[c]
  /\ status[c] = 200 /\ req[c].op = "deleteAccount" =>
       req[c].id < nextId /\ ~Found(req[c].id)
  /\ status[c] \in 400..404 => ~effect[c]
  /\ RowsOwned(c)

CallInv(c) == Serves(c) /\ Pending(c) /\ Authenticated(c) /\ Owns(c) /\ Honest(c)

\* The sequence is ahead of every id.
IdsDrawn == \A a \in DOMAIN accounts : a < nextId

IInv == TypeOK /\ IdsDrawn /\ \A c \in Calls : CallInv(c)

-----------------------------------------------------------------------------
(* Lemmas about the operators.                                             *)

\* Neither rounding nor a conversion that does not fit leaves int64.
LEMMA CentsInRange ==
  ASSUME NEW x \in Int, NEW n \in FloatToCents(x)
  PROVE  n \in Int64
<1>1. MinInt \in Int64 /\ MaxInt \in Int64 /\ 0 \in Int64
  BY MoneyAssumption DEF Int64, MinInt
<1> QED BY <1>1 DEF FloatToCents

LEMMA RequestType ==
  ASSUME TypeOK, NEW c \in Calls
  PROVE  /\ req[c].op \in Public \cup Protected
         /\ req[c].op \in {"createUser", "loginUser"} => req[c].username \in Users
         /\ req[c].op \in {"getAccount", "updateAccount", "deleteAccount"} => req[c].id \in Int
         /\ req[c].op = "updateAccount" => req[c].balance \in Int
         /\ req[c].op = "createTransfer" =>
              req[c].from \in Int /\ req[c].to \in Int /\ req[c].amount \in Int
<1>1. req[c] \in Requests BY DEF TypeOK
<1> QED BY <1>1, LegacyAssumption

\* An answer shows rows, of one call, and only with status 200.
LEMMA Shows ==
  ASSUME IInv, NEW c \in Calls, NEW items, Show(c, items),
         status'[c] = 200 => items \subseteq Items
  PROVE  /\ seen' \in [Calls -> SUBSET Items]
         /\ seen'[c] = IF status'[c] = 200 THEN items ELSE {}
         /\ \A d \in Calls \ {c} : seen'[d] = seen[d]
<1> DEFINE S == IF status'[c] = 200 THEN items ELSE {}
<1>1. S \subseteq Items OBVIOUS
<1>2. seen' = [seen EXCEPT ![c] = S] BY DEF Show
<1> HIDE DEF S
<1>3. /\ seen' \in [Calls -> SUBSET Items] /\ seen'[c] = S
      /\ \A d \in Calls \ {c} : seen'[d] = seen[d]
  BY <1>1, <1>2 DEF IInv, TypeOK
<1> QED BY <1>3 DEF S

LEMMA ItemType ==
  ASSUME NEW a \in 1..MaxAccountId, NEW row \in Account
  PROVE  Item(a, row) \in Items /\ Item(a, row).id = a /\ Item(a, row).row = row
BY DEF Item, Items

\* Only the kind of a request decides where it begins.
LEMMA FirstStatements ==
  ASSUME NEW op \in Public \cup Protected
  PROVE  /\ op = "createUser" => FirstStatement(op) = "insertUser"
         /\ op = "loginUser" => FirstStatement(op) = "getUser"
         /\ op = "renewAccessToken" => FirstStatement(op) = "verify"
         /\ op = "createAccount" => FirstStatement(op) = "insertAccount"
         /\ op = "listAccounts" => FirstStatement(op) = "list"
         /\ op = "createTransfer" => FirstStatement(op) = "from"
         /\ op \in {"getAccount", "updateAccount", "deleteAccount"} =>
              FirstStatement(op) = "getAccount"
BY DEF FirstStatement, Public, Protected

Labels == Statements \cup {"idle", "bind", "verify", "done"}
Codes  == {0, 200, 400, 401, 403, 404, 500}

\* The other calls are where they were.
Alone(c) == \A d \in Calls \ {c} : pc'[d] = pc[d] /\ status'[d] = status[d]

LEMMA Answers ==
  ASSUME IInv, NEW c \in Calls, NEW s \in Codes, Answer(c, s)
  PROVE  /\ pc' \in [Calls -> Labels] /\ status' \in [Calls -> Codes]
         /\ pc'[c] = "done" /\ status'[c] = s /\ Alone(c)
BY DEF Answer, IInv, TypeOK, Alone, Labels, Codes

LEMMA Goes ==
  ASSUME IInv, NEW c \in Calls, NEW label \in Labels, Goto(c, label)
  PROVE  /\ pc' \in [Calls -> Labels] /\ status' \in [Calls -> Codes]
         /\ pc'[c] = label /\ status'[c] = status[c] /\ Alone(c)
BY DEF Goto, IInv, TypeOK, Alone, Labels, Codes

\* A statement took effect, whatever became of its reply.
LEMMA Takes ==
  ASSUME IInv, NEW c \in Calls, Took(c)
  PROVE  /\ pc' \in [Calls -> Labels] /\ status' \in [Calls -> Codes]
         /\ pc'[c] = "done" /\ status'[c] \in {200, 500} /\ Alone(c)
         /\ effect' \in [Calls -> BOOLEAN] /\ effect'[c]
         /\ \A d \in Calls \ {c} : effect'[d] <=> effect[d]
<1>1. /\ effect' \in [Calls -> BOOLEAN] /\ effect'[c]
      /\ \A d \in Calls \ {c} : effect'[d] <=> effect[d]
  BY DEF Took, IInv, TypeOK
<1>2. Answer(c, 200) \/ Answer(c, 500)
  BY DEF Took
<1> QED BY <1>1, <1>2, Answers DEF Codes

-----------------------------------------------------------------------------
(* What a step leaves alone.                                               *)

\* A step of call c: the rows that were there keep their owners, tokens and ids
\* stay given out, and of the other calls nothing changes.
StepOf(c) ==
  /\ req' = req /\ Alone(c)
  /\ \A d \in Calls \ {c} : shown'[d] = shown[d] /\ seen'[d] = seen[d]
  /\ \A d \in Calls \ {c} : effect'[d] <=> effect[d]
  /\ held \subseteq held'
  /\ nextId' \in Int /\ nextId <= nextId'
  /\ \A a \in DOMAIN accounts' : a < nextId =>
       a \in DOMAIN accounts /\ accounts'[a].owner = accounts[a].owner

\* Nothing happens to the accounts.
RowsAlone == accounts' = accounts /\ nextId' = nextId

LEMMA OwnerKept ==
  ASSUME IInv, NEW c \in Calls, StepOf(c), NEW d \in Calls, shown'[d] = shown[d],
         NEW a \in Int, OwnerOf(a, d)
  PROVE  OwnerOf(a, d)'
<1>1. a < nextId' /\ a < nextId
  BY DEF OwnerOf, StepOf, IInv, TypeOK
<1>2. User(d)' = User(d)
  BY DEF User
<1>3. Found(a)' => Found(a) /\ accounts'[a].owner = accounts[a].owner
  BY <1>1 DEF Found, StepOf
<1> QED BY <1>1, <1>2, <1>3 DEF OwnerOf

LEMMA OtherKept ==
  ASSUME IInv, NEW c \in Calls, StepOf(c), NEW d \in Calls, d # c
  PROVE  CallInv(d)'
<1>1. /\ req'[d] = req[d] /\ pc'[d] = pc[d] /\ status'[d] = status[d]
      /\ shown'[d] = shown[d] /\ seen'[d] = seen[d] /\ (effect'[d] <=> effect[d])
      /\ held \subseteq held'
  BY DEF StepOf, Alone
<1>2. Serves(d) /\ Pending(d) /\ Authenticated(d) /\ Owns(d) /\ Honest(d)
  BY DEF IInv, CallInv
<1>3. Serves(d)' /\ Pending(d)' /\ Authenticated(d)'
  BY <1>1, <1>2 DEF Serves, Pending, Authenticated
<1>4. Owns(d)'
  <2>1. TypeOK BY DEF IInv
  <2>2. CASE pc[d] \in {"update", "delete"}
    <3>1. req[d].id \in Int BY <1>2, <2>1, <2>2, RequestType DEF Serves
    <3>2. OwnerOf(req[d].id, d) BY <1>2, <2>2 DEF Owns
    <3>3. PICK a \in Int : a = req[d].id BY <3>1
    <3>4. OwnerOf(a, d)' BY <1>1, <3>2, <3>3, OwnerKept
    <3> QED BY <1>1, <2>2, <3>3, <3>4 DEF Owns
  <2>3. CASE pc[d] \in {"to", "transfer"}
    <3>1. req[d].from \in Int BY <1>2, <2>1, <2>3, RequestType DEF Serves
    <3>2. OwnerOf(req[d].from, d) BY <1>2, <2>3 DEF Owns
    <3>3. PICK a \in Int : a = req[d].from BY <3>1
    <3>4. OwnerOf(a, d)' BY <1>1, <3>2, <3>3, OwnerKept
    <3> QED BY <1>1, <2>3, <3>3, <3>4 DEF Owns
  <2>4. CASE pc[d] \notin {"update", "delete", "to", "transfer"}
    BY <1>1, <2>4 DEF Owns
  <2> QED BY <2>2, <2>3, <2>4
<1>5. Honest(d)'
  <2>1. status[d] = 200 /\ req[d].op = "deleteAccount" =>
          req[d].id < nextId' /\ ~Found(req[d].id)'
    <3>1. SUFFICES ASSUME status[d] = 200, req[d].op = "deleteAccount"
                   PROVE  req[d].id < nextId' /\ req[d].id \notin DOMAIN accounts'
      BY <1>1 DEF Found
    <3>2. req[d].id < nextId /\ req[d].id \notin DOMAIN accounts
      BY <1>2, <3>1 DEF Honest, Found
    <3>3. req[d].id \in Int BY <3>1, RequestType DEF IInv
    <3> QED BY <3>2, <3>3 DEF StepOf, IInv, TypeOK
  <2>2. User(d)' = User(d) BY <1>1 DEF User
  <2>3. RowsOwned(d)' BY <1>1, <1>2, <2>2 DEF Honest, RowsOwned
  <2> QED BY <1>1, <1>2, <2>1, <2>3 DEF Honest
<1> QED BY <1>3, <1>4, <1>5 DEF CallInv

\* A step is looked at for its own call.
LEMMA OneStep ==
  ASSUME IInv, NEW c \in Calls, StepOf(c), TypeOK', IdsDrawn', CallInv(c)'
  PROVE  IInv'
<1>1. \A d \in Calls : CallInv(d)' BY OtherKept
<1> QED BY <1>1 DEF IInv

\* It ends its call without having done or shown anything.
LEMMA Refused ==
  ASSUME IInv, NEW c \in Calls, StepOf(c), pc[c] # "done", pc'[c] = "done",
         status'[c] \in Codes \ {200}, effect'[c] <=> effect[c], seen'[c] \subseteq seen[c]
  PROVE  CallInv(c)'
<1>1. ~effect[c] /\ seen[c] = {} BY DEF IInv, CallInv, Pending
<1>2. RowsOwned(c)' BY <1>1 DEF RowsOwned
<1> QED BY <1>1, <1>2 DEF CallInv, Serves, Pending, Authenticated, Behind, Owns, Honest

-----------------------------------------------------------------------------
(* One lemma for each action: first what the step does, then the types,    *)
(* then the call itself.                                                   *)

LEMMA InitInv == Init => IInv
<1> SUFFICES ASSUME Init PROVE IInv OBVIOUS
<1>1. TypeOK
  <2>1. /\ Len(InitAccounts) \in Nat /\ DOMAIN InitAccounts = 1..Len(InitAccounts)
        /\ \A a \in DOMAIN InitAccounts : InitAccounts[a] \in Account
    BY LegacyAssumption
  <2>2. \A u \in Registered : \A k \in {"access", "refresh"} : FirstToken(u, k) \in Token
    BY LegacyAssumption DEF FirstToken, Token
  <2>3. \A u \in Registered : SessionOf(FirstToken(u, "refresh")) \in Session
    BY <2>2, LegacyAssumption DEF SessionOf, FirstToken, Session
  <2>4. 0 \in Int64 BY MoneyAssumption DEF Int64, MinInt
  <2>5. DOMAIN accounts \subseteq 1..MaxAccountId /\ nextId \in 1..MaxAccountId + 1
    BY <2>1, LegacyAssumption DEF Init
  <2>6. sessions \subseteq Session /\ held \subseteq Token
    BY <2>2, <2>3 DEF Init, FirstTokens
  <2> QED BY <2>1, <2>4, <2>5, <2>6, LegacyAssumption DEF Init, TypeOK
<1>2. IdsDrawn
  BY LegacyAssumption DEF Init, IdsDrawn
<1>3. \A c \in Calls : CallInv(c)
  BY DEF Init, CallInv, Serves, Pending, Authenticated, Behind, Owns, Honest, RowsOwned
<1> QED BY <1>1, <1>2, <1>3 DEF IInv

\* A token a client holds is not NoToken.
LEMMA Verified ==
  ASSUME IInv, NEW t \in held \cup {NoToken}, VerifyToken(t)
  PROVE  t \in held
BY DEF VerifyToken

LEMMA authMiddlewareInv ==
  ASSUME IInv, NEW c \in Calls, authMiddleware(c)
  PROVE  IInv'
<1>1. PICK t \in held \cup {NoToken} :
        /\ shown' = [shown EXCEPT ![c] = t]
        /\ IF VerifyToken(t) THEN Goto(c, "bind") ELSE Answer(c, 401)
  BY DEF authMiddleware
<1>2. /\ pc[c] = "idle" /\ req[c].op \in Protected
      /\ UNCHANGED <<db, out, now, req, cents, balance, made>>
  BY DEF authMiddleware
<1>3. /\ Alone(c) /\ pc' \in [Calls -> Labels] /\ status' \in [Calls -> Codes]
      /\ \/ pc'[c] = "bind" /\ status'[c] = status[c] /\ t \in held
         \/ pc'[c] = "done" /\ status'[c] = 401
  BY <1>1, Verified, Goes, Answers DEF Labels, Codes
<1>4. /\ shown' \in [Calls -> Token \cup {NoToken}] /\ shown'[c] = t
      /\ \A d \in Calls \ {c} : shown'[d] = shown[d]
  BY <1>1 DEF IInv, TypeOK
<1>5. StepOf(c)
  BY <1>2, <1>3, <1>4 DEF StepOf, IInv, TypeOK, db, out
<1>6. TypeOK' /\ IdsDrawn'
  BY <1>2, <1>3, <1>4 DEF IInv, TypeOK, IdsDrawn, Labels, Codes, db, out
<1>7. CallInv(c)'
  <2>1. Pending(c) BY DEF IInv, CallInv
  <2>2. CASE pc'[c] = "bind" /\ status'[c] = status[c] /\ t \in held
    BY <1>2, <1>4, <2>1, <2>2
    DEF CallInv, Serves, Pending, Authenticated, Behind, Owns, Honest, RowsOwned, out
  <2>3. CASE pc'[c] = "done" /\ status'[c] = 401
    BY <1>2, <1>5, <2>3, Refused DEF out, Codes
  <2> QED BY <1>3, <2>2, <2>3
<1> QED BY <1>5, <1>6, <1>7, OneStep

LEMMA BindInv ==
  ASSUME IInv, NEW c \in Calls, Bind(c)
  PROVE  IInv'
<1>1. /\ pc[c] = IF req[c].op \in Public THEN "idle" ELSE "bind"
      /\ IF Bound(req[c]) THEN Goto(c, FirstStatement(req[c].op)) ELSE Answer(c, 400)
      /\ UNCHANGED <<db, out, now, req, shown, balance, made>>
  BY DEF Bind
<1>2. req[c].op \in Public \cup Protected
  BY RequestType DEF IInv
<1>3. FirstStatement(req[c].op) \in Labels
  BY <1>2, FirstStatements DEF Public, Protected, Labels, Statements
<1>4. /\ Alone(c) /\ pc' \in [Calls -> Labels] /\ status' \in [Calls -> Codes]
      /\ \/ pc'[c] = FirstStatement(req[c].op) /\ status'[c] = status[c] /\ Bound(req[c])
         \/ pc'[c] = "done" /\ status'[c] = 400
  BY <1>1, <1>3, Goes, Answers DEF Codes
<1>5. cents' \in [Calls -> Int64]
  <2>1. CASE req[c].op = "createTransfer" /\ Bound(req[c])
    <3>1. PICK n \in FloatToCents(req[c].amount) : cents' = [cents EXCEPT ![c] = n]
      BY <2>1 DEF Bind
    <3>2. n \in Int64 BY <2>1, RequestType, CentsInRange DEF IInv
    <3> QED BY <3>1, <3>2 DEF IInv, TypeOK
  <2>2. CASE ~(req[c].op = "createTransfer" /\ Bound(req[c]))
    BY <2>2 DEF Bind, IInv, TypeOK
  <2> QED BY <2>1, <2>2
<1>6. StepOf(c)
  BY <1>1, <1>4 DEF StepOf, IInv, TypeOK, db, out
<1>7. TypeOK' /\ IdsDrawn'
  BY <1>1, <1>4, <1>5 DEF IInv, TypeOK, IdsDrawn, Labels, Codes, db, out
<1>8. CASE pc'[c] = FirstStatement(req[c].op) /\ status'[c] = status[c] /\ Bound(req[c])
  <2>1. Pending(c) /\ Authenticated(c) BY DEF IInv, CallInv
  <2>2. Serves(c)'
    <3>1. req[c].op = "createAccount" => validCurrency(req[c].currency)
      BY <1>8 DEF Bound
    <3> QED BY <1>1, <1>2, <1>8, <3>1, FirstStatements DEF Serves, Public, Protected
  <2>3. Pending(c)'
    BY <1>1, <1>8, <2>1 DEF Pending, out, Public
  <2>4. Authenticated(c)'
    <3>1. CASE req[c].op \in Public
      BY <1>8, <3>1, FirstStatements DEF Authenticated, Behind, Public
    <3>2. CASE req[c].op \notin Public
      BY <1>1, <2>1, <3>2 DEF Authenticated, Behind, out
    <3> QED BY <3>1, <3>2
  <2>5. Owns(c)'
    BY <1>2, <1>8, FirstStatements DEF Owns, Public, Protected
  <2>6. Honest(c)'
    BY <1>1, <1>8, <2>1 DEF Honest, RowsOwned, Pending, out, Public
  <2>7. CallInv(c)' BY <2>2, <2>3, <2>4, <2>5, <2>6 DEF CallInv
  <2> QED BY <1>6, <1>7, <2>7, OneStep
<1>9. CASE pc'[c] = "done" /\ status'[c] = 400
  <2>1. CallInv(c)' BY <1>1, <1>6, <1>9, Refused DEF out, Codes, Public
  <2> QED BY <1>6, <1>7, <2>1, OneStep
<1> QED BY <1>4, <1>8, <1>9

LEMMA createUserInv ==
  ASSUME IInv, NEW c \in Calls, createUser(c)
  PROVE  IInv'
<1>1. /\ pc[c] = "insertUser" /\ req[c].op = "createUser"
      /\ UNCHANGED <<ctx, sessions, accounts, nextId, moved, held, seen, now, req>>
      /\ \/ Answer(c, 403) /\ UNCHANGED <<users, effect>>
         \/ users' = users \cup {req[c].username} /\ Took(c)
  BY DEF createUser, IInv, CallInv, Serves
<1>2. users' \subseteq Users
  BY <1>1, RequestType DEF IInv, TypeOK
<1>3. /\ pc' \in [Calls -> Labels] /\ status' \in [Calls -> Codes] /\ Alone(c)
      /\ pc'[c] = "done" /\ effect' \in [Calls -> BOOLEAN]
      /\ \A d \in Calls \ {c} : effect'[d] <=> effect[d]
      /\ \/ status'[c] = 403 /\ (effect'[c] <=> effect[c])
         \/ status'[c] \in {200, 500} /\ effect'[c]
  <2>1. CASE Answer(c, 403) /\ UNCHANGED <<users, effect>>
    BY <2>1, Answers DEF Codes, IInv, TypeOK
  <2>2. CASE Took(c) BY <2>2, Takes
  <2> QED BY <1>1, <2>1, <2>2
<1>4. StepOf(c)
  BY <1>1, <1>3 DEF StepOf, IInv, TypeOK, ctx
<1>5. TypeOK' /\ IdsDrawn'
  BY <1>1, <1>2, <1>3 DEF IInv, TypeOK, IdsDrawn, Labels, Codes, ctx
<1>6. CallInv(c)'
  <2>1. CASE status'[c] = 403 /\ (effect'[c] <=> effect[c])
    BY <1>1, <1>3, <1>4, <2>1, Refused DEF Codes
  <2>2. CASE status'[c] \in {200, 500} /\ effect'[c]
    <3>1. seen[c] = {} BY <1>1 DEF IInv, CallInv, Pending
    <3> QED BY <1>1, <1>3, <2>2, <3>1
            DEF CallInv, Serves, Pending, Authenticated, Behind, Owns, Honest, RowsOwned
  <2> QED BY <1>3, <2>1, <2>2
<1> QED BY <1>4, <1>5, <1>6, OneStep

LEMMA TokenMade ==
  ASSUME IInv, NEW c \in Calls, NEW u \in Users, NEW kind \in {"access", "refresh"},
         NEW duration \in Nat
  PROVE  /\ NewToken(c, kind, u, duration) \in Token
         /\ SessionOf(NewToken(c, kind, u, duration)) \in Session
<1>1. now + duration \in Nat BY DEF IInv, TypeOK
<1> QED BY <1>1 DEF NewToken, SessionOf, Token, Session

LEMMA loginUserInv ==
  ASSUME IInv, NEW c \in Calls, loginUser(c)
  PROVE  IInv'
<1> DEFINE u == req[c].username
<1>1. /\ pc[c] = "getUser" /\ req[c].op = "loginUser" /\ u \in Users
      /\ UNCHANGED <<db, out, now, req, shown, cents, balance>>
  BY RequestType DEF loginUser, IInv, CallInv, Serves
<1>2. /\ Alone(c) /\ pc' \in [Calls -> Labels] /\ status' \in [Calls -> Codes]
      /\ made' \in [Calls -> SUBSET Token]
      /\ \/ pc'[c] = "createSession" /\ status'[c] = status[c]
         \/ pc'[c] = "done" /\ status'[c] \in {401, 404}
  <2>1. CASE u \in users /\ req[c].right
    <3>1. Goto(c, "createSession")
      BY <2>1 DEF loginUser
    <3>2. made' = [made EXCEPT ![c] = {NewToken(c, "access", u, AccessDuration),
                                       NewToken(c, "refresh", u, RefreshDuration)}]
      BY <2>1 DEF loginUser
    <3>3. {NewToken(c, "access", u, AccessDuration),
           NewToken(c, "refresh", u, RefreshDuration)} \subseteq Token
      BY <1>1, TokenMade, LegacyAssumption
    <3>4. made' \in [Calls -> SUBSET Token] BY <3>2, <3>3 DEF IInv, TypeOK
    <3> QED BY <3>1, <3>4, Goes DEF Labels, Statements
  <2>2. CASE ~(u \in users /\ req[c].right)
    <3>1. Answer(c, IF u \in users THEN 401 ELSE 404) /\ made' = made
      BY <2>2 DEF loginUser
    <3> QED BY <3>1, Answers DEF Codes, IInv, TypeOK
  <2> QED BY <2>1, <2>2
<1>3. StepOf(c)
  BY <1>1, <1>2 DEF StepOf, IInv, TypeOK, db, out
<1>4. TypeOK' /\ IdsDrawn'
  BY <1>1, <1>2 DEF IInv, TypeOK, IdsDrawn, Labels, Codes, db, out
<1>5. CallInv(c)'
  <2>1. CASE pc'[c] = "createSession" /\ status'[c] = status[c]
    <3>1. Pending(c) BY DEF IInv, CallInv
    <3> QED BY <1>1, <2>1, <3>1
            DEF CallInv, Serves, Pending, Authenticated, Behind, Owns, Honest, RowsOwned, out
  <2>2. CASE pc'[c] = "done" /\ status'[c] \in {401, 404}
    BY <1>1, <1>3, <2>2, Refused DEF out, Codes
  <2> QED BY <1>2, <2>1, <2>2
<1> QED BY <1>3, <1>4, <1>5, OneStep

\* A statement of the call took effect, and it shows no row but its caller's and,
\* of a transfer, the recipient's.
LEMMA Effective ==
  ASSUME IInv, NEW c \in Calls, UNCHANGED <<req, shown>>, pc[c] # "done",
         pc'[c] = "done", status'[c] \in {200, 500}, effect'[c],
         req[c].op # "deleteAccount",
         \A s \in seen'[c] : \/ s \in seen[c]
                            \/ s.row.owner = User(c)
                            \/ (req[c].op = "createTransfer" /\ s.id = req[c].to)
  PROVE  CallInv(c)'
<1>1. seen[c] = {} BY DEF IInv, CallInv, Pending
<1>2. User(c)' = User(c) BY DEF User
<1>3. RowsOwned(c)' BY <1>1, <1>2 DEF RowsOwned
<1> QED BY <1>3 DEF CallInv, Serves, Pending, Authenticated, Behind, Owns, Honest

LEMMA createSessionInv ==
  ASSUME IInv, NEW c \in Calls, createSession(c)
  PROVE  IInv'
<1>1. /\ pc[c] = "createSession" /\ Took(c) /\ req[c].op = "loginUser"
      /\ sessions' = sessions \cup {SessionOf(t) : t \in {m \in made[c] : m.id[2] = "refresh"}}
      /\ held' \in {held, held \cup made[c]}
      /\ UNCHANGED <<ctx, users, accounts, nextId, moved, seen, now, req>>
  BY DEF createSession, IInv, CallInv, Serves
<1>2. made[c] \subseteq Token BY DEF IInv, TypeOK
<1>3. sessions' \subseteq Session
  <2>1. \A t \in Token : SessionOf(t) \in Session
    BY DEF SessionOf, Session, Token
  <2>2. sessions \subseteq Session BY DEF IInv, TypeOK
  <2> QED BY <1>1, <1>2, <2>1, <2>2
<1>4. held \subseteq held' /\ held' \subseteq Token
  BY <1>1, <1>2 DEF IInv, TypeOK
<1>5. StepOf(c)
  BY <1>1, <1>4, Takes DEF StepOf, IInv, TypeOK, ctx
<1>6. TypeOK' /\ IdsDrawn'
  BY <1>1, <1>3, <1>4, Takes DEF IInv, TypeOK, IdsDrawn, Labels, Codes, ctx
<1>7. CallInv(c)'
  BY <1>1, Takes, Effective DEF ctx
<1> QED BY <1>5, <1>6, <1>7, OneStep

LEMMA verifyRefreshTokenInv ==
  ASSUME IInv, NEW c \in Calls, verifyRefreshToken(c)
  PROVE  IInv'
<1>1. PICK t \in held \cup {NoToken} :
        /\ shown' = [shown EXCEPT ![c] = t]
        /\ IF VerifyToken(t) THEN Goto(c, "getSession") ELSE Answer(c, 401)
  BY DEF verifyRefreshToken
<1>2. /\ pc[c] = "verify" /\ req[c].op = "renewAccessToken"
      /\ UNCHANGED <<db, out, now, req, cents, balance, made>>
  BY DEF verifyRefreshToken, IInv, CallInv, Serves
<1>3. /\ Alone(c) /\ pc' \in [Calls -> Labels] /\ status' \in [Calls -> Codes]
      /\ \/ pc'[c] = "getSession" /\ status'[c] = status[c] /\ t \in held
         \/ pc'[c] = "done" /\ status'[c] = 401
  BY <1>1, Verified, Goes, Answers DEF Labels, Codes, Statements
<1>4. /\ shown' \in [Calls -> Token \cup {NoToken}] /\ shown'[c] = t
      /\ \A d \in Calls \ {c} : shown'[d] = shown[d]
  BY <1>1 DEF IInv, TypeOK
<1>5. StepOf(c)
  BY <1>2, <1>3, <1>4 DEF StepOf, IInv, TypeOK, db, out
<1>6. TypeOK' /\ IdsDrawn'
  BY <1>2, <1>3, <1>4 DEF IInv, TypeOK, IdsDrawn, Labels, Codes, db, out
<1>7. CallInv(c)'
  <2>1. Pending(c) BY DEF IInv, CallInv
  <2>2. CASE pc'[c] = "getSession" /\ status'[c] = status[c] /\ t \in held
    BY <1>2, <1>4, <2>1, <2>2
    DEF CallInv, Serves, Pending, Authenticated, Behind, Owns, Honest, RowsOwned, out
  <2>3. CASE pc'[c] = "done" /\ status'[c] = 401
    BY <1>2, <1>5, <2>3, Refused DEF out, Codes
  <2> QED BY <1>3, <2>2, <2>3
<1> QED BY <1>5, <1>6, <1>7, OneStep

LEMMA renewAccessTokenInv ==
  ASSUME IInv, NEW c \in Calls, renewAccessToken(c)
  PROVE  IInv'
<1>1. /\ pc[c] = "getSession" /\ req[c].op = "renewAccessToken"
      /\ UNCHANGED <<db, ctx, effect, seen, now, req>>
  BY DEF renewAccessToken, IInv, CallInv, Serves
<1>2. shown[c] \in held /\ shown[c] \in Token
  BY <1>1 DEF IInv, CallInv, Authenticated, Behind, TypeOK
<1>3. /\ held \subseteq held' /\ held' \subseteq Token
      /\ Alone(c) /\ pc' \in [Calls -> Labels] /\ status' \in [Calls -> Codes]
      /\ pc'[c] = "done" /\ status'[c] \in {200, 401, 404}
  <2>1. CASE Answer(c, 404) /\ held' = held
    BY <2>1, Answers DEF Codes, IInv, TypeOK
  <2>2. CASE Answer(c, 401) /\ held' = held
    BY <2>2, Answers DEF Codes, IInv, TypeOK
  <2>3. CASE /\ held' = held \cup {NewToken(c, "access", shown[c].user, AccessDuration)}
             /\ Answer(c, 200)
    <3>1. NewToken(c, "access", shown[c].user, AccessDuration) \in Token
      BY <1>2, TokenMade, LegacyAssumption DEF Token
    <3>2. held \subseteq Token BY DEF IInv, TypeOK
    <3> QED BY <2>3, <3>1, <3>2, Answers DEF Codes
  <2> QED BY <2>1, <2>2, <2>3 DEF renewAccessToken
<1>4. StepOf(c)
  BY <1>1, <1>3 DEF StepOf, IInv, TypeOK, db, ctx
<1>5. TypeOK' /\ IdsDrawn'
  BY <1>1, <1>3 DEF IInv, TypeOK, IdsDrawn, Labels, Codes, db, ctx
<1>6. CallInv(c)'
  <2>1. ~effect[c] /\ seen[c] = {} BY <1>1 DEF IInv, CallInv, Pending
  <2> QED BY <1>1, <1>3, <2>1
          DEF CallInv, Serves, Pending, Authenticated, Behind, Owns, Honest, RowsOwned
<1> QED BY <1>4, <1>5, <1>6, OneStep

\* The id of a new row was never given out before.
LEMMA createAccountInv ==
  ASSUME IInv, NEW c \in Calls, createAccount(c)
  PROVE  IInv'
<1> DEFINE u   == User(c)
           cur == req[c].currency
           row == [owner |-> u, currency |-> cur, balance |-> 0]
<1>1. /\ pc[c] = "insertAccount" /\ req[c].op = "createAccount"
      /\ nextId <= MaxAccountId /\ nextId' = nextId + 1
      /\ Show(c, {Item(nextId, accounts'[nextId])})
      /\ UNCHANGED <<ctx, users, sessions, moved, held, now, req>>
  BY DEF createAccount, IInv, CallInv, Serves
<1>2. CASE Answer(c, 403) /\ UNCHANGED <<accounts, effect>>
  <2>1. /\ pc' \in [Calls -> Labels] /\ status' \in [Calls -> Codes]
        /\ pc'[c] = "done" /\ status'[c] = 403 /\ Alone(c)
    BY <1>2, Answers DEF Codes
  <2>5. /\ seen' \in [Calls -> SUBSET Items] /\ seen'[c] = {}
        /\ \A d \in Calls \ {c} : seen'[d] = seen[d]
    BY <1>1, <2>1, Shows
  <2>2. StepOf(c)
    BY <1>1, <1>2, <2>1, <2>5 DEF StepOf, IInv, TypeOK, ctx
  <2>3. TypeOK' /\ IdsDrawn'
    BY <1>1, <1>2, <2>1, <2>5, LegacyAssumption
    DEF IInv, TypeOK, IdsDrawn, Labels, Codes, ctx
  <2>4. CallInv(c)'
    BY <1>1, <1>2, <2>1, <2>2, <2>5, Refused DEF Codes
  <2> QED BY <2>2, <2>3, <2>4, OneStep
<1>3. CASE /\ u \in users /\ Took(c)
           /\ accounts' = [a \in DOMAIN accounts \cup {nextId} |->
                             IF a = nextId THEN row ELSE accounts[a]]
  <2>1. PICK n \in 1..MaxAccountId : n = nextId
    BY <1>1 DEF IInv, TypeOK
  <2>2. /\ DOMAIN accounts' = DOMAIN accounts \cup {n}
        /\ accounts'[n] = row /\ n \notin DOMAIN accounts
        /\ \A a \in DOMAIN accounts : accounts'[a] = accounts[a]
    BY <1>3, <2>1 DEF IInv, IdsDrawn
  <2>3. /\ pc' \in [Calls -> Labels] /\ status' \in [Calls -> Codes] /\ Alone(c)
        /\ pc'[c] = "done" /\ status'[c] \in {200, 500} /\ effect'[c]
        /\ effect' \in [Calls -> BOOLEAN] /\ \A d \in Calls \ {c} : effect'[d] <=> effect[d]
    BY <1>3, Takes
  <2>8. row \in Account
    <3>1. cur \in Currencies
      BY <1>1 DEF IInv, CallInv, Serves, validCurrency
    <3>2. 0 \in Int64 BY MoneyAssumption DEF Int64, MinInt
    <3> QED BY <1>3, <3>1, <3>2 DEF IInv, TypeOK, Account
  <2>9. /\ seen' \in [Calls -> SUBSET Items]
        /\ seen'[c] \subseteq {Item(n, row)}
        /\ \A d \in Calls \ {c} : seen'[d] = seen[d]
    <3>1. {Item(n, row)} \subseteq Items BY <2>8, ItemType
    <3>2. Show(c, {Item(n, row)}) BY <1>1, <2>1, <2>2
    <3> HIDE DEF row
    <3> QED BY <3>1, <3>2, Shows
  <2>4. StepOf(c)
    BY <1>1, <2>1, <2>2, <2>3, <2>9 DEF StepOf, IInv, TypeOK, ctx
  <2>5. IdsDrawn'
    BY <1>1, <2>1, <2>2 DEF IInv, TypeOK, IdsDrawn
  <2>6. TypeOK'
    <3>2. \A a \in DOMAIN accounts' : accounts'[a] \in Account
      BY <2>2, <2>8 DEF IInv, TypeOK
    <3>3. DOMAIN accounts' \subseteq 1..MaxAccountId /\ nextId' \in 1..MaxAccountId + 1
      BY <1>1, <2>1, <2>2, LegacyAssumption DEF IInv, TypeOK
    <3>4. moved' \subseteq [id : Calls, from : DOMAIN accounts', to : DOMAIN accounts',
                            amount : Int64]
      BY <1>1, <2>2 DEF IInv, TypeOK
    <3> QED BY <1>1, <2>3, <2>9, <3>2, <3>3, <3>4 DEF IInv, TypeOK, Labels, Codes, ctx
  <2>7. CallInv(c)'
    <3>1. \A s \in seen'[c] : s.row.owner = User(c) BY <2>8, <2>9, ItemType
    <3> QED BY <1>1, <2>3, <3>1, Effective DEF ctx
  <2> QED BY <2>4, <2>5, <2>6, <2>7, OneStep
<1> QED BY <1>2, <1>3 DEF createAccount

LEMMA getAccountInv ==
  ASSUME IInv, NEW c \in Calls, getAccount(c)
  PROVE  IInv'
<1> DEFINE a == req[c].id
<1>1. /\ pc[c] = "getAccount" /\ req[c].op \in {"getAccount", "updateAccount", "deleteAccount"}
      /\ Show(c, {Item(a, accounts[a])})
      /\ UNCHANGED <<db, ctx, held, effect, now, req>>
  BY DEF getAccount, IInv, CallInv, Serves
<1>2. ~effect[c] /\ seen[c] = {} /\ status[c] = 0 /\ shown[c] \in held
  BY <1>1 DEF IInv, CallInv, Pending, Authenticated, Behind
<1>3. /\ Alone(c) /\ pc' \in [Calls -> Labels] /\ status' \in [Calls -> Codes]
      /\ \/ pc'[c] = "done" /\ status'[c] \in {400, 403, 404}
         \/ /\ Found(a) /\ accounts[a].owner = User(c)
            /\ \/ pc'[c] = "done" /\ status'[c] = 200 /\ req[c].op = "getAccount"
               \/ pc'[c] = "delete" /\ status'[c] = 0 /\ req[c].op = "deleteAccount"
               \/ pc'[c] = "update" /\ status'[c] = 0 /\ req[c].op = "updateAccount"
  <2>1. CASE Answer(c, 404) BY <2>1, Answers DEF Codes
  <2>2. CASE Answer(c, 403) BY <2>2, Answers DEF Codes
  <2>3. CASE Answer(c, 400) BY <2>3, Answers DEF Codes
  <2>4. CASE Answer(c, 200) /\ Found(a) /\ May(c) /\ req[c].op = "getAccount"
    BY <2>4, Answers DEF Codes, May
  <2>5. CASE Goto(c, "delete") /\ Found(a) /\ May(c) /\ req[c].op = "deleteAccount"
    BY <1>2, <2>5, Goes DEF Labels, Statements, May
  <2>6. CASE Goto(c, "update") /\ Found(a) /\ May(c) /\ req[c].op = "updateAccount"
    BY <1>2, <2>6, Goes DEF Labels, Statements, May
  <2> QED BY <1>1, <2>1, <2>2, <2>3, <2>4, <2>5, <2>6 DEF getAccount
<1>4. /\ \A d \in Calls \ {c} : seen'[d] = seen[d]
      /\ seen'[c] = IF status'[c] = 200 THEN {Item(a, accounts[a])} ELSE {}
      /\ seen' \in [Calls -> SUBSET Items]
  <2>1. status'[c] = 200 => a \in 1..MaxAccountId /\ accounts[a] \in Account
    BY <1>3 DEF IInv, TypeOK, Found
  <2>2. status'[c] = 200 => {Item(a, accounts[a])} \subseteq Items BY <2>1, ItemType
  <2> QED BY <1>1, <2>2, Shows
<1>5. StepOf(c)
  BY <1>1, <1>3, <1>4 DEF StepOf, IInv, TypeOK, db, ctx
<1>6. TypeOK' /\ IdsDrawn'
  BY <1>1, <1>3, <1>4 DEF IInv, TypeOK, IdsDrawn, Labels, Codes, db, ctx
<1>7. CallInv(c)'
  <2>1. CASE pc'[c] = "done" /\ status'[c] \in {400, 403, 404}
    BY <1>1, <1>2, <1>4, <1>5, <2>1, Refused DEF Codes
  <2>2. CASE /\ Found(a) /\ accounts[a].owner = User(c)
             /\ pc'[c] = "done" /\ status'[c] = 200 /\ req[c].op = "getAccount"
    <3>1. \A s \in seen'[c] : s.row.owner = User(c)
      BY <1>4, <2>2 DEF Item
    <3> QED BY <1>1, <1>2, <2>2, <3>1
            DEF CallInv, Serves, Pending, Authenticated, Behind, Owns, Honest, RowsOwned,
                User, ctx
  <2>3. CASE /\ Found(a) /\ accounts[a].owner = User(c) /\ status'[c] = 0
             /\ \/ pc'[c] = "delete" /\ req[c].op = "deleteAccount"
                \/ pc'[c] = "update" /\ req[c].op = "updateAccount"
    <3>1. a < nextId BY <2>3 DEF IInv, IdsDrawn, Found
    <3> QED BY <1>1, <1>2, <1>4, <2>3, <3>1
            DEF CallInv, Serves, Pending, Authenticated, Behind, Owns, OwnerOf, Honest,
                RowsOwned, Found, User, ctx, db
  <2> QED BY <1>3, <2>1, <2>2, <2>3
<1> QED BY <1>5, <1>6, <1>7, OneStep

LEMMA listAccountsInv ==
  ASSUME IInv, NEW c \in Calls, listAccounts(c)
  PROVE  IInv'
<1>1. /\ pc[c] = "list" /\ req[c].op = "listAccounts"
      /\ Answer(c, 200) \/ Answer(c, 500)
      /\ UNCHANGED <<db, ctx, held, effect, now, req>>
  BY DEF listAccounts, IInv, CallInv, Serves
<1>2. /\ Alone(c) /\ pc' \in [Calls -> Labels] /\ status' \in [Calls -> Codes]
      /\ pc'[c] = "done" /\ status'[c] \in {200, 500}
  BY <1>1, Answers DEF Codes
<1>3. /\ \A d \in Calls \ {c} : seen'[d] = seen[d]
      /\ seen'[c] \subseteq {Item(a, accounts[a]) : a \in Listed(c)}
      /\ seen' \in [Calls -> SUBSET Items]
  <2>1. PICK P \in SUBSET Listed(c) : Show(c, {Item(a, accounts[a]) : a \in P})
    <3> DEFINE first   == Offset(req[c])
               Rank(a) == Cardinality({b \in Listed(c) : b < a})
               Page    == {a \in Listed(c) : Rank(a) \in first..first + req[c].size - 1}
    <3>1. Page \in SUBSET Listed(c) OBVIOUS
    <3>2. Show(c, {Item(a, accounts[a]) : a \in Page}) BY DEF listAccounts
    <3> HIDE DEF Page
    <3> QED BY <3>1, <3>2
  <2>2. {Item(a, accounts[a]) : a \in P} \subseteq Items
    <3>1. \A a \in P : a \in 1..MaxAccountId /\ accounts[a] \in Account
      BY DEF IInv, TypeOK, Listed
    <3> QED BY <3>1, ItemType
  <2>3. {Item(a, accounts[a]) : a \in P} \subseteq {Item(a, accounts[a]) : a \in Listed(c)}
    OBVIOUS
  <2>4. PICK items : items = {Item(a, accounts[a]) : a \in P} OBVIOUS
  <2>5. /\ seen' \in [Calls -> SUBSET Items] /\ seen'[c] \subseteq items
        /\ \A d \in Calls \ {c} : seen'[d] = seen[d]
    BY <2>1, <2>2, <2>4, Shows
  <2> QED BY <2>3, <2>4, <2>5
<1>4. StepOf(c)
  BY <1>1, <1>2, <1>3 DEF StepOf, IInv, TypeOK, db, ctx
<1>5. TypeOK' /\ IdsDrawn'
  BY <1>1, <1>2, <1>3 DEF IInv, TypeOK, IdsDrawn, Labels, Codes, db, ctx
<1>6. CallInv(c)'
  <2>1. ~effect[c] BY <1>1 DEF IInv, CallInv, Pending
  <2>2. User(c)' = User(c) BY <1>1 DEF User, ctx
  <2>3. \A s \in seen'[c] : s.row.owner = User(c)
    BY <1>3 DEF Listed, Item
  <2>4. RowsOwned(c)' BY <2>2, <2>3 DEF RowsOwned
  <2> QED BY <1>1, <1>2, <2>1, <2>4
          DEF CallInv, Serves, Pending, Authenticated, Behind, Owns, Honest
<1> QED BY <1>4, <1>5, <1>6, OneStep

LEMMA updateAccountInv ==
  ASSUME IInv, NEW c \in Calls, updateAccount(c)
  PROVE  IInv'
<1> DEFINE a == req[c].id
<1>1. /\ pc[c] = "update" /\ req[c].op = "updateAccount"
      /\ Show(c, {Item(a, accounts'[a])})
      /\ UNCHANGED <<ctx, users, sessions, nextId, moved, held, now, req>>
  BY DEF updateAccount, IInv, CallInv, Serves
<1>2. CASE Answer(c, 404) /\ UNCHANGED <<accounts, effect>>
  <2>4. /\ seen' \in [Calls -> SUBSET Items] /\ seen'[c] = {}
        /\ \A d \in Calls \ {c} : seen'[d] = seen[d]
    BY <1>1, <1>2, Answers, Shows DEF Codes
  <2>1. StepOf(c)
    BY <1>1, <1>2, <2>4, Answers DEF StepOf, Codes, IInv, TypeOK, ctx
  <2>2. TypeOK' /\ IdsDrawn'
    BY <1>1, <1>2, <2>4, Answers DEF IInv, TypeOK, IdsDrawn, Labels, Codes, ctx
  <2>3. CallInv(c)'
    BY <1>1, <1>2, <2>1, <2>4, Answers, Refused DEF Codes
  <2> QED BY <2>1, <2>2, <2>3, OneStep
<1>3. ASSUME Found(a), NEW n \in FloatToCents(req[c].balance), Took(c),
             accounts' = [accounts EXCEPT ![a].balance = n]
      PROVE  IInv'
  <2>1. n \in Int64 BY <1>1, RequestType, CentsInRange DEF IInv
  <2>2. /\ DOMAIN accounts' = DOMAIN accounts
        /\ \A b \in DOMAIN accounts : /\ accounts'[b] \in Account
                                      /\ accounts'[b].owner = accounts[b].owner
    BY <1>3, <2>1 DEF IInv, TypeOK, Account
  <2>9. accounts[a].owner = User(c)
    BY <1>1, <1>3 DEF IInv, CallInv, Owns, OwnerOf
  <2>6. PICK row \in Account : row = accounts'[a] /\ row.owner = User(c)
    BY <1>3, <2>2, <2>9 DEF Found
  <2>7. a \in 1..MaxAccountId BY <1>3 DEF IInv, TypeOK, Found
  <2>8. /\ seen' \in [Calls -> SUBSET Items] /\ seen'[c] \subseteq {Item(a, row)}
        /\ \A d \in Calls \ {c} : seen'[d] = seen[d]
    <3>1. {Item(a, row)} \subseteq Items BY <2>7, ItemType
    <3> QED BY <1>1, <2>6, <3>1, Shows
  <2>3. StepOf(c)
    BY <1>1, <1>3, <2>2, <2>8, Takes DEF StepOf, IInv, TypeOK, ctx
  <2>4. TypeOK' /\ IdsDrawn'
    BY <1>1, <1>3, <2>2, <2>8, Takes DEF IInv, TypeOK, IdsDrawn, Labels, Codes, ctx
  <2>5. CallInv(c)'
    <3>1. \A s \in seen'[c] : s.row.owner = User(c) BY <2>6, <2>8 DEF Item
    <3> QED BY <1>1, <1>3, <3>1, Takes, Effective DEF ctx
  <2> QED BY <2>3, <2>4, <2>5, OneStep
<1> QED BY <1>2, <1>3 DEF updateAccount

\* A deleted id stays below the sequence, and no transfer refers to it.
LEMMA deleteAccountInv ==
  ASSUME IInv, NEW c \in Calls, deleteAccount(c)
  PROVE  IInv'
<1> DEFINE a == req[c].id
<1>1. /\ pc[c] = "delete" /\ req[c].op = "deleteAccount"
      /\ UNCHANGED <<ctx, users, sessions, nextId, moved, held, seen, now, req>>
  BY DEF deleteAccount, IInv, CallInv, Serves
<1>2. CASE Answer(c, 500) /\ UNCHANGED <<accounts, effect>>
  <2>1. StepOf(c)
    BY <1>1, <1>2, Answers DEF StepOf, Codes, IInv, TypeOK, ctx
  <2>2. TypeOK' /\ IdsDrawn'
    BY <1>1, <1>2, Answers DEF IInv, TypeOK, IdsDrawn, Labels, Codes, ctx
  <2>3. CallInv(c)'
    BY <1>1, <1>2, <2>1, Answers, Refused DEF Codes
  <2> QED BY <2>1, <2>2, <2>3, OneStep
<1>3. CASE /\ ~\E t \in moved : a \in {t.from, t.to}
           /\ accounts' = [b \in DOMAIN accounts \ {a} |-> accounts[b]]
           /\ Took(c) \/ (Answer(c, 200) /\ UNCHANGED effect)
  <2>1. /\ DOMAIN accounts' = DOMAIN accounts \ {a}
        /\ \A b \in DOMAIN accounts' : accounts'[b] = accounts[b]
    BY <1>3
  <2>2. /\ pc' \in [Calls -> Labels] /\ status' \in [Calls -> Codes] /\ Alone(c)
        /\ pc'[c] = "done" /\ status'[c] \in {200, 500} /\ effect' \in [Calls -> BOOLEAN]
        /\ \A d \in Calls \ {c} : effect'[d] <=> effect[d]
    BY <1>3, Takes, Answers DEF Codes, IInv, TypeOK
  <2>3. StepOf(c)
    BY <1>1, <2>1, <2>2 DEF StepOf, IInv, TypeOK, ctx
  <2>4. TypeOK' /\ IdsDrawn'
    <3>1. moved' \subseteq [id : Calls, from : DOMAIN accounts', to : DOMAIN accounts',
                            amount : Int64]
      BY <1>1, <1>3, <2>1 DEF IInv, TypeOK
    <3> QED BY <1>1, <2>1, <2>2, <3>1 DEF IInv, TypeOK, IdsDrawn, Labels, Codes, ctx
  <2>5. CallInv(c)'
    <3>1. a < nextId /\ seen[c] = {}
      BY <1>1 DEF IInv, CallInv, Owns, OwnerOf, Pending
    <3>2. a \notin DOMAIN accounts' BY <2>1
    <3> QED BY <1>1, <2>2, <3>1, <3>2
            DEF CallInv, Serves, Pending, Authenticated, Behind, Owns, Honest, RowsOwned, Found
  <2> QED BY <2>3, <2>4, <2>5, OneStep
<1> QED BY <1>2, <1>3 DEF deleteAccount

LEMMA FromAccountInv ==
  ASSUME IInv, NEW c \in Calls, FromAccount(c)
  PROVE  IInv'
<1> DEFINE a == req[c].from
<1>1. /\ pc[c] = "from" /\ req[c].op = "createTransfer"
      /\ UNCHANGED <<db, out, now, req, shown, cents, made>>
  BY DEF FromAccount, IInv, CallInv, Serves
<1>2. /\ Alone(c) /\ pc' \in [Calls -> Labels] /\ status' \in [Calls -> Codes]
      /\ balance' \in [Calls -> Int64]
      /\ \/ pc'[c] = "done" /\ status'[c] \in {400, 401, 404}
         \/ /\ Found(a) /\ accounts[a].owner = User(c)
            /\ pc'[c] = "to" /\ status'[c] = status[c]
  <2>1. validAccount(c, a) \in {0, 400, 404} /\ (validAccount(c, a) = 0 => Found(a))
    BY DEF validAccount
  <2>2. CASE validAccount(c, a) # 0
    <3>1. Answer(c, validAccount(c, a)) /\ balance' = balance
      BY <2>2 DEF FromAccount
    <3> QED BY <2>1, <2>2, <3>1, Answers DEF Codes, IInv, TypeOK
  <2>3. CASE validAccount(c, a) = 0 /\ accounts[a].owner # User(c)
    <3>1. Answer(c, 401) /\ balance' = balance
      BY <2>3 DEF FromAccount
    <3> QED BY <3>1, Answers DEF Codes, IInv, TypeOK
  <2>4. CASE validAccount(c, a) = 0 /\ accounts[a].owner = User(c)
    <3>1. balance' = [balance EXCEPT ![c] = accounts[a].balance] /\ Goto(c, "to")
      BY <2>4 DEF FromAccount
    <3>2. accounts[a].balance \in Int64
      BY <2>1, <2>4 DEF IInv, TypeOK, Found, Account
    <3>3. balance' \in [Calls -> Int64] BY <3>1, <3>2 DEF IInv, TypeOK
    <3> QED BY <2>1, <2>4, <3>1, <3>3, Goes DEF Labels, Statements
  <2> QED BY <2>2, <2>3, <2>4
<1>3. StepOf(c)
  BY <1>1, <1>2 DEF StepOf, IInv, TypeOK, db, out
<1>4. TypeOK' /\ IdsDrawn'
  BY <1>1, <1>2 DEF IInv, TypeOK, IdsDrawn, Labels, Codes, db, out
<1>5. CallInv(c)'
  <2>1. CASE pc'[c] = "done" /\ status'[c] \in {400, 401, 404}
    BY <1>1, <1>3, <2>1, Refused DEF Codes, out
  <2>2. CASE /\ Found(a) /\ accounts[a].owner = User(c)
             /\ pc'[c] = "to" /\ status'[c] = status[c]
    <3>1. a < nextId BY <2>2 DEF IInv, IdsDrawn, Found
    <3>2. Pending(c) /\ Authenticated(c) BY DEF IInv, CallInv
    <3> QED BY <1>1, <2>2, <3>1, <3>2
            DEF CallInv, Serves, Pending, Authenticated, Behind, Owns, OwnerOf, Honest,
                RowsOwned, Found, User, db, out
  <2> QED BY <1>2, <2>1, <2>2
<1> QED BY <1>3, <1>4, <1>5, OneStep

LEMMA ToAccountInv ==
  ASSUME IInv, NEW c \in Calls, ToAccount(c)
  PROVE  IInv'
<1> DEFINE a == req[c].to
<1>1. /\ pc[c] = "to" /\ req[c].op = "createTransfer"
      /\ UNCHANGED <<db, ctx, out, now, req>>
  BY DEF ToAccount, IInv, CallInv, Serves
<1>2. /\ Alone(c) /\ pc' \in [Calls -> Labels] /\ status' \in [Calls -> Codes]
      /\ \/ pc'[c] = "done" /\ status'[c] \in {400, 404}
         \/ pc'[c] = "transfer" /\ status'[c] = status[c]
  <2>1. validAccount(c, a) \in {0, 400, 404}
    BY DEF validAccount
  <2> QED BY <2>1, Answers, Goes DEF ToAccount, Codes, Labels, Statements
<1>3. StepOf(c)
  BY <1>1, <1>2 DEF StepOf, IInv, TypeOK, db, ctx, out
<1>4. TypeOK' /\ IdsDrawn'
  BY <1>1, <1>2 DEF IInv, TypeOK, IdsDrawn, Labels, Codes, db, ctx, out
<1>5. CallInv(c)'
  <2>1. CASE pc'[c] = "done" /\ status'[c] \in {400, 404}
    BY <1>1, <1>3, <2>1, Refused DEF Codes, out
  <2>2. CASE pc'[c] = "transfer" /\ status'[c] = status[c]
    <3>1. Pending(c) /\ Authenticated(c) /\ Owns(c) BY DEF IInv, CallInv
    <3> QED BY <1>1, <2>2, <3>1
            DEF CallInv, Serves, Pending, Authenticated, Behind, Owns, OwnerOf, Honest,
                RowsOwned, Found, User, db, ctx, out
  <2> QED BY <1>2, <2>1, <2>2
<1> QED BY <1>3, <1>4, <1>5, OneStep

\* The two updates change nothing but two balances, which they keep in int64.
LEMMA MovedRows ==
  ASSUME TypeOK, NEW r, NEW n \in Int64, InRange(r, n)
  PROVE  /\ DOMAIN Moved(r, n) = DOMAIN accounts
         /\ \A a \in DOMAIN accounts : /\ Moved(r, n)[a] \in Account
                                       /\ Moved(r, n)[a].owner = accounts[a].owner
                                       /\ a \notin {r.from, r.to} => Moved(r, n)[a] = accounts[a]
<1>1. DOMAIN Moved(r, n) = DOMAIN accounts
  BY DEF Moved
<1>2. ASSUME NEW a \in DOMAIN accounts
      PROVE  /\ Moved(r, n)[a] \in Account
             /\ Moved(r, n)[a].owner = accounts[a].owner
             /\ a \notin {r.from, r.to} => Moved(r, n)[a] = accounts[a]
  <2>1. accounts[a] \in Account BY DEF TypeOK
  <2>2. PICK m : m = (IF a = r.from THEN Neg(n) ELSE 0)
    OBVIOUS
  <2>3. PICK k : k = (IF a = r.to THEN n ELSE 0)
    OBVIOUS
  <2>4. Moved(r, n)[a] = [accounts[a] EXCEPT !.balance = @ + m + k]
    BY <2>2, <2>3 DEF Moved
  <2>5. /\ Moved(r, n)[a].balance = accounts[a].balance + m + k
        /\ Moved(r, n)[a] = [owner |-> accounts[a].owner, currency |-> accounts[a].currency,
                             balance |-> accounts[a].balance + m + k]
    BY <2>1, <2>4 DEF Account
  <2>6. CASE a \in {r.from, r.to}
    <3>1. Moved(r, n)[a].balance \in Int64 BY <2>6 DEF InRange
    <3> QED BY <2>1, <2>5, <2>6, <3>1 DEF Account
  <2>7. CASE a \notin {r.from, r.to}
    <3>1. m = 0 /\ k = 0 BY <2>2, <2>3, <2>7
    <3>2. accounts[a].balance + m + k = accounts[a].balance
      BY <2>1, <3>1 DEF Account, Int64, MinInt
    <3> QED BY <2>1, <2>5, <2>7, <3>2 DEF Account
  <2> QED BY <2>6, <2>7
<1> QED BY <1>1, <1>2

\* The recipient's row, as the first or the second update returns it.
LEMMA CreditedRow ==
  ASSUME TypeOK, NEW r, NEW n \in Int64, InRange(r, n),
         {r.from, r.to} \subseteq DOMAIN accounts
  PROVE  [accounts[r.to] EXCEPT !.balance = @ + n] \in Account
<1> DEFINE a == r.to
<1>1. accounts[a] \in Account BY DEF TypeOK
<1>2. accounts[a].balance + n \in Int64
  <2>1. CASE r.from = a BY <2>1 DEF InRange
  <2>2. CASE r.from # a
    <3>1. Moved(r, n)[a].balance = accounts[a].balance + 0 + n
      BY <1>1, <2>2 DEF Moved, Account
    <3>2. Moved(r, n)[a].balance \in Int64 BY DEF InRange
    <3>3. accounts[a].balance + 0 + n = accounts[a].balance + n
      BY <1>1 DEF Account, Int64, MinInt
    <3> QED BY <3>1, <3>2, <3>3
  <2> QED BY <2>1, <2>2
<1> QED BY <1>1, <1>2 DEF Account

LEMMA TransferTxInv ==
  ASSUME IInv, NEW c \in Calls, TransferTx(c)
  PROVE  IInv'
<1> DEFINE r   == req[c]
           row == [id |-> c, from |-> r.from, to |-> r.to, amount |-> cents[c]]
           credited == [accounts[r.to] EXCEPT !.balance = @ + cents[c]]
<1>1. /\ pc[c] = "transfer" /\ req[c].op = "createTransfer"
      /\ Show(c, {Item(r.from, accounts'[r.from]), Item(r.to, credited)})
      /\ UNCHANGED <<ctx, users, sessions, nextId, held, now, req>>
  BY DEF TransferTx, IInv, CallInv, Serves
<1>2. CASE Answer(c, 500) /\ UNCHANGED <<accounts, moved, effect>>
  <2>4. /\ seen' \in [Calls -> SUBSET Items] /\ seen'[c] = {}
        /\ \A d \in Calls \ {c} : seen'[d] = seen[d]
    <3>1. PICK items : Show(c, items) BY <1>1
    <3> QED BY <1>2, <3>1, Answers, Shows DEF Codes
  <2>1. StepOf(c)
    BY <1>1, <1>2, <2>4, Answers DEF StepOf, Codes, IInv, TypeOK, ctx
  <2>2. TypeOK' /\ IdsDrawn'
    BY <1>1, <1>2, <2>4, Answers DEF IInv, TypeOK, IdsDrawn, Labels, Codes, ctx
  <2>3. CallInv(c)'
    BY <1>1, <1>2, <2>1, <2>4, Answers, Refused DEF Codes
  <2> QED BY <2>1, <2>2, <2>3, OneStep
<1>3. CASE /\ {r.from, r.to} \subseteq DOMAIN accounts /\ InRange(r, cents[c])
           /\ accounts' = Moved(r, cents[c]) /\ moved' = moved \cup {row} /\ Took(c)
  <2>1. TypeOK /\ cents[c] \in Int64 BY DEF IInv, TypeOK
  <2>2. /\ DOMAIN accounts' = DOMAIN accounts
        /\ \A a \in DOMAIN accounts : /\ accounts'[a] \in Account
                                      /\ accounts'[a].owner = accounts[a].owner
    BY <1>3, <2>1, MovedRows
  <2>3. moved' \subseteq [id : Calls, from : DOMAIN accounts', to : DOMAIN accounts',
                          amount : Int64]
    BY <1>3, <2>1, <2>2 DEF TypeOK
  <2>7. credited \in Account BY <1>3, <2>1, CreditedRow
  <2>8. r.from \in 1..MaxAccountId /\ r.to \in 1..MaxAccountId
    BY <1>3 DEF IInv, TypeOK
  <2>9. PICK debited \in Account : debited = accounts'[r.from] /\ debited.owner = User(c)
    BY <1>1, <1>3, <2>2 DEF IInv, CallInv, Owns, OwnerOf, Found
  <2>10. /\ seen' \in [Calls -> SUBSET Items]
         /\ seen'[c] \subseteq {Item(r.from, debited), Item(r.to, credited)}
         /\ \A d \in Calls \ {c} : seen'[d] = seen[d]
    <3>1. PICK items : items = {Item(r.from, debited), Item(r.to, credited)} OBVIOUS
    <3>2. items \subseteq Items BY <2>7, <2>8, <3>1, ItemType
    <3>3. Show(c, items) BY <1>1, <2>9, <3>1
    <3> QED BY <3>1, <3>2, <3>3, Shows
  <2>4. StepOf(c)
    BY <1>1, <1>3, <2>2, <2>10, Takes DEF StepOf, IInv, TypeOK, ctx
  <2>5. TypeOK' /\ IdsDrawn'
    BY <1>1, <1>3, <2>2, <2>3, <2>10, Takes DEF IInv, TypeOK, IdsDrawn, Labels, Codes, ctx
  <2>6. CallInv(c)'
    <3> HIDE DEF credited
    <3>1. \A s \in seen'[c] : s.row.owner = User(c) \/ s.id = r.to
      BY <2>9, <2>10 DEF Item
    <3> QED BY <1>1, <1>3, <3>1, Takes, Effective DEF ctx
  <2> QED BY <2>4, <2>5, <2>6, OneStep
<1> QED BY <1>2, <1>3 DEF TransferTx

LEMMA FailInv ==
  ASSUME IInv, NEW c \in Calls, Fail(c)
  PROVE  IInv'
<1>1. /\ pc[c] # "done" /\ Answer(c, 500) /\ UNCHANGED <<db, ctx, out, now, req>>
  BY DEF Fail, Statements
<1>2. StepOf(c)
  BY <1>1, Answers DEF StepOf, Codes, IInv, TypeOK, db, ctx, out
<1>3. TypeOK' /\ IdsDrawn'
  BY <1>1, Answers DEF IInv, TypeOK, IdsDrawn, Labels, Codes, db, ctx, out
<1>4. CallInv(c)'
  BY <1>1, <1>2, Answers, Refused DEF Codes, out
<1> QED BY <1>2, <1>3, <1>4, OneStep

\* Time, and the steps that change nothing.
LEMMA IdleInv ==
  ASSUME IInv, UNCHANGED <<db, ctx, out, req, pc, status>>, now' \in 0..MaxTime
  PROVE  IInv'
<1>1. TypeOK' /\ IdsDrawn'
  BY DEF IInv, TypeOK, IdsDrawn, db, ctx, out
<1>2. \A c \in Calls : CallInv(c)'
  BY DEF IInv, CallInv, Serves, Pending, Authenticated, Owns, OwnerOf, Honest,
         RowsOwned, Found, User, db, ctx, out
<1> QED BY <1>1, <1>2 DEF IInv

LEMMA NextInv == IInv /\ [Next]_vars => IInv'
<1> SUFFICES ASSUME IInv, [Next]_vars PROVE IInv' OBVIOUS
<1>1. CASE UNCHANGED vars
  BY <1>1, IdleInv DEF vars, IInv, TypeOK
<1>2. CASE Tick
  <2>1. now' \in 0..MaxTime BY <1>2, LegacyAssumption DEF Tick, IInv, TypeOK
  <2> QED BY <1>2, <2>1, IdleInv DEF Tick
<1>3. CASE Quiescent
  BY <1>1, <1>3 DEF Quiescent
<1>4. ASSUME NEW c \in Calls,
             \/ authMiddleware(c) \/ Bind(c) \/ createUser(c) \/ loginUser(c)
             \/ createSession(c) \/ verifyRefreshToken(c) \/ renewAccessToken(c)
             \/ createAccount(c) \/ getAccount(c) \/ listAccounts(c) \/ updateAccount(c)
             \/ deleteAccount(c) \/ FromAccount(c) \/ ToAccount(c) \/ TransferTx(c) \/ Fail(c)
      PROVE  IInv'
  BY <1>4, authMiddlewareInv, BindInv, createUserInv, loginUserInv, createSessionInv,
     verifyRefreshTokenInv, renewAccessTokenInv, createAccountInv, getAccountInv,
     listAccountsInv, updateAccountInv, deleteAccountInv, FromAccountInv, ToAccountInv,
     TransferTxInv, FailInv
<1> QED BY <1>1, <1>2, <1>3, <1>4 DEF Next

-----------------------------------------------------------------------------
(* The theorems.                                                           *)

\* IInv holds initially and is preserved by every step.
THEOREM Invariance == Spec => []IInv
BY InitInv, NextInv, PTL DEF Spec

\* Every variable keeps its type; transfers refer to accounts that are there.
THEOREM TypeCorrect == Spec => []TypeOK
<1>1. IInv => TypeOK BY DEF IInv
<1> QED BY <1>1, Invariance, PTL

-----------------------------------------------------------------------------
(* AnswersHonest: the tokens.                                              *)

\* A login that is about to store its session has seen the right password.
LoggedIn(c) ==
  pc[c] = "createSession" =>
    /\ req[c].op = "loginUser" /\ req[c].right
    /\ \A t \in made[c] : t.id[1] = c /\ t.user = req[c].username

\* Only refresh tokens have sessions, and each session is as its token says.
SessionsOfTokens == \A s \in sessions : s.token.id[2] = "refresh" /\ s = SessionOf(s.token)

TokenInv == SessionsOfTokens /\ TokensBacked /\ \A c \in Calls : LoggedIn(c)

LEMMA InitTokens == Init => TokenInv
<1> SUFFICES ASSUME Init PROVE TokenInv OBVIOUS
<1>1. \A u \in Registered : /\ FirstToken(u, "refresh").id[2] = "refresh"
                            /\ FirstToken(u, "access").id[2] = "access"
  BY DEF FirstToken
<1>2. SessionsOfTokens BY <1>1 DEF Init, SessionsOfTokens, SessionOf
<1>3. TokensBacked
  <2>1. ASSUME NEW t \in held, t.id[2] = "refresh" PROVE SessionOf(t) \in sessions
    <3>1. PICK u \in Registered, k \in {"access", "refresh"} : t = FirstToken(u, k)
      BY <2>1 DEF Init, FirstTokens
    <3>2. k = "refresh" BY <1>1, <2>1, <3>1
    <3> QED BY <3>1, <3>2 DEF Init
  <2> QED BY <2>1 DEF Init, TokensBacked
<1>4. \A c \in Calls : LoggedIn(c) BY DEF Init, LoggedIn
<1> QED BY <1>2, <1>3, <1>4 DEF TokenInv

\* A step of call c leaves the other calls and their tokens alone.
OthersAlone(c) ==
  /\ req' = req /\ held \subseteq held' /\ Alone(c)
  /\ \A d \in Calls \ {c} : shown'[d] = shown[d] /\ made'[d] = made[d]

\* Wherever a call goes and whatever it answers, the others stay where they are.
LEMMA Moves ==
  ASSUME IInv, NEW c \in Calls, NEW label, NEW s,
         Goto(c, label) \/ Answer(c, s)
  PROVE  Alone(c) /\ pc'[c] \in {label, "done"}
BY DEF Goto, Answer, Alone, IInv, TypeOK

\* A call that is over has the answer it had, and was sent with the same token.
LEMMA ObtainedStays ==
  ASSUME IInv, NEW c \in Calls, OthersAlone(c), pc[c] # "done",
         NEW t, NEW d \in Calls, Obtained(t, d)
  PROVE  Obtained(t, d)'
<1>1. status[d] = 200 BY DEF Obtained
<1>2. d # c BY <1>1 DEF IInv, CallInv, Pending
<1>3. /\ status'[d] = status[d] /\ shown'[d] = shown[d] /\ req' = req
      /\ held \subseteq held'
  BY <1>2 DEF OthersAlone, Alone
<1> QED BY <1>3 DEF Obtained, User

\* A step that gives no token away.
LEMMA NoTokenGiven ==
  ASSUME IInv, TokenInv, NEW c \in Calls, OthersAlone(c), pc[c] # "done",
         UNCHANGED <<sessions, held>>, LoggedIn(c)'
  PROVE  TokenInv'
<1>1. SessionsOfTokens' BY DEF TokenInv, SessionsOfTokens
<1>2. TokensBacked'
  <2> SUFFICES ASSUME NEW t \in held
               PROVE  /\ t \in FirstTokens \/ \E d \in Calls : Obtained(t, d)'
                      /\ t.id[2] = "refresh" => SessionOf(t) \in sessions
    BY DEF TokensBacked
  <2> QED BY ObtainedStays DEF TokenInv, TokensBacked
<1>3. \A d \in Calls \ {c} : LoggedIn(d)' BY DEF OthersAlone, Alone, TokenInv, LoggedIn
<1> QED BY <1>1, <1>2, <1>3 DEF TokenInv

\* A step that gives tokens away: they are backed, and others stay so.
LEMMA TokensGiven ==
  ASSUME IInv, TokenInv, NEW c \in Calls, OthersAlone(c), pc[c] # "done", pc'[c] = "done",
         made' = made, NEW S, sessions' = sessions \cup S,
         \A s \in S : s.token.id[2] = "refresh" /\ s = SessionOf(s.token),
         \A t \in held' \ held : /\ Obtained(t, c)'
                                 /\ t.id[2] = "refresh" => SessionOf(t) \in S
  PROVE  TokenInv'
<1>1. SessionsOfTokens' BY DEF TokenInv, SessionsOfTokens
<1>2. TokensBacked'
  <2> SUFFICES ASSUME NEW t \in held'
               PROVE  /\ t \in FirstTokens \/ \E d \in Calls : Obtained(t, d)'
                      /\ t.id[2] = "refresh" => SessionOf(t) \in sessions'
    BY DEF TokensBacked
  <2>1. CASE t \in held BY <2>1, ObtainedStays DEF TokenInv, TokensBacked
  <2>2. CASE t \notin held BY <2>2
  <2> QED BY <2>1, <2>2
<1>3. \A d \in Calls : LoggedIn(d)' BY DEF OthersAlone, Alone, TokenInv, LoggedIn
<1> QED BY <1>1, <1>2, <1>3 DEF TokenInv

\* The answer to a login gives the tokens that were made for it.
LEMMA createSessionTokens ==
  ASSUME IInv, TokenInv, NEW c \in Calls, createSession(c)
  PROVE  TokenInv'
<1> DEFINE S == {SessionOf(t) : t \in {m \in made[c] : m.id[2] = "refresh"}}
<1>1. /\ pc[c] = "createSession" /\ Took(c) /\ sessions' = sessions \cup S /\ req' = req
      /\ made' = made /\ held' = IF status'[c] = 200 THEN held \cup made[c] ELSE held
      /\ shown' = shown
  BY DEF createSession, ctx
<1>2. /\ req[c].op = "loginUser" /\ req[c].right
      /\ \A t \in made[c] : t.id[1] = c /\ t.user = req[c].username
  BY <1>1 DEF TokenInv, LoggedIn
<1>3. pc'[c] = "done" /\ OthersAlone(c) BY <1>1, Takes DEF OthersAlone
<1>4. \A s \in S : s.token.id[2] = "refresh" /\ s = SessionOf(s.token)
  BY DEF SessionOf
<1>5. ASSUME NEW t \in held' \ held
      PROVE  Obtained(t, c)' /\ (t.id[2] = "refresh" => SessionOf(t) \in S)
  <2>1. status'[c] = 200 /\ t \in made[c] BY <1>1, <1>5
  <2>2. t.id[1] = c /\ t.user = req[c].username BY <1>2, <2>1
  <2> QED BY <1>1, <1>2, <2>1, <2>2 DEF Obtained
<1> HIDE DEF S
<1> QED BY <1>1, <1>3, <1>4, <1>5, TokensGiven

\* The answer to a renewal: the session that was found is that of the token sent.
LEMMA renewAccessTokenTokens ==
  ASSUME IInv, TokenInv, NEW c \in Calls, renewAccessToken(c)
  PROVE  TokenInv'
<1> DEFINE t     == shown[c]
           found == {s \in sessions : s.token.id = t.id}
           new   == NewToken(c, "access", t.user, AccessDuration)
<1>1. /\ pc[c] = "getSession" /\ req[c].op = "renewAccessToken"
      /\ UNCHANGED <<sessions, made, shown, req, now>>
  BY DEF renewAccessToken, IInv, CallInv, Serves, db, ctx
<1>2. t \in held /\ t \in Token
  BY <1>1 DEF IInv, CallInv, Authenticated, Behind, TypeOK
<1>3. CASE held' = held /\ (Answer(c, 404) \/ Answer(c, 401))
  <2>1. pc'[c] = "done" /\ OthersAlone(c) BY <1>1, <1>3, Answers DEF Codes, OthersAlone
  <2>2. LoggedIn(c)' BY <2>1 DEF LoggedIn
  <2> QED BY <1>1, <1>3, <2>1, <2>2, NoTokenGiven
<1>4. ASSUME found # {}, \A s \in found : Renewable(s, t), held' = held \cup {new},
             Answer(c, 200)
      PROVE  TokenInv'
  <2>1. pc'[c] = "done" /\ status'[c] = 200 /\ OthersAlone(c)
    BY <1>1, <1>4, Answers DEF Codes, OthersAlone
  <2>2. PICK s \in sessions : s.token = t /\ now <= s.expires BY <1>4 DEF Renewable
  <2>3. t.id[2] = "refresh" /\ s.expires = t.expires
    BY <2>2 DEF TokenInv, SessionsOfTokens, SessionOf
  <2>4. PICK n : n = new OBVIOUS
  <2>5. /\ n.id[1] = c /\ n.id[2] = "access" /\ n.user = t.user
        /\ n.expires = now + AccessDuration
    BY <2>4 DEF NewToken
  <2>6. now + AccessDuration <= t.expires + AccessDuration
    <3>1. now \in Int /\ t.expires \in Int /\ AccessDuration \in Int
      BY <1>2, LegacyAssumption DEF IInv, TypeOK, Token
    <3> QED BY <2>2, <2>3, <3>1
  <2>7. held' = held \cup {n} /\ t \in held' BY <1>2, <1>4, <2>4
  <2>8. Obtained(n, c)'
    BY <1>1, <2>1, <2>3, <2>5, <2>6, <2>7 DEF Obtained, User
  <2>9. PICK S : S = {} OBVIOUS
  <2>10. \A x \in held' \ held : /\ Obtained(x, c)'
                                 /\ x.id[2] = "refresh" => SessionOf(x) \in S
    BY <2>5, <2>7, <2>8
  <2>11. /\ sessions' = sessions \cup S /\ made' = made /\ pc[c] # "done"
         /\ \A x \in S : x.token.id[2] = "refresh" /\ x = SessionOf(x.token)
    BY <1>1, <2>9
  <2> HIDE DEF t, found, new
  <2> QED BY <2>1, <2>10, <2>11, TokensGiven
<1> QED BY <1>3, <1>4 DEF renewAccessToken

LEMMA loginUserTokens ==
  ASSUME IInv, TokenInv, NEW c \in Calls, loginUser(c)
  PROVE  TokenInv'
<1> DEFINE r == req[c]
           S == {NewToken(c, "access", r.username, AccessDuration),
                 NewToken(c, "refresh", r.username, RefreshDuration)}
<1>1. /\ pc[c] = "getUser" /\ r.op = "loginUser" /\ UNCHANGED <<sessions, held, req, shown>>
  BY DEF loginUser, IInv, CallInv, Serves, db, out
<1>2. \A t \in S : t.id[1] = c /\ t.user = r.username BY DEF NewToken
<1> HIDE DEF S
<1>3. CASE r.right /\ made' = [made EXCEPT ![c] = S] /\ Goto(c, "createSession")
  <2>1. made'[c] = S /\ OthersAlone(c)
    BY <1>1, <1>3, Goes DEF Labels, Statements, OthersAlone, IInv, TypeOK
  <2>2. LoggedIn(c)' BY <1>1, <1>2, <1>3, <2>1 DEF LoggedIn
  <2> QED BY <1>1, <2>1, <2>2, NoTokenGiven
<1>4. CASE made' = made /\ (Answer(c, 401) \/ Answer(c, 404))
  <2>1. pc'[c] = "done" /\ OthersAlone(c) BY <1>1, <1>4, Answers DEF Codes, OthersAlone
  <2>2. LoggedIn(c)' BY <2>1 DEF LoggedIn
  <2> QED BY <1>1, <1>4, <2>1, <2>2, NoTokenGiven
<1> QED BY <1>3, <1>4 DEF loginUser, S


\* Every other step of a call.
Unrelated(c) ==
  \/ authMiddleware(c) \/ Bind(c) \/ createUser(c) \/ verifyRefreshToken(c)
  \/ createAccount(c) \/ getAccount(c) \/ listAccounts(c) \/ updateAccount(c)
  \/ deleteAccount(c) \/ FromAccount(c) \/ ToAccount(c) \/ TransferTx(c) \/ Fail(c)

LEMMA UnrelatedTokens ==
  ASSUME IInv, TokenInv, NEW c \in Calls, Unrelated(c)
  PROVE  TokenInv'
<1> DEFINE Quiet == /\ Alone(c) /\ pc[c] # "done" /\ pc'[c] # "createSession"
                    /\ UNCHANGED <<req, sessions, held, made>>
                    /\ \A d \in Calls \ {c} : shown'[d] = shown[d]
<1>1. ASSUME authMiddleware(c) PROVE Quiet
  <2>1. PICK t : /\ shown' = [shown EXCEPT ![c] = t]
                 /\ Goto(c, "bind") \/ Answer(c, 401)
    BY <1>1 DEF authMiddleware
  <2>2. Alone(c) /\ pc'[c] # "createSession" BY <2>1, Moves
  <2> QED BY <1>1, <2>1, <2>2 DEF authMiddleware, IInv, TypeOK, db, out
<1>2. ASSUME Bind(c) PROVE Quiet
  <2>1. Goto(c, FirstStatement(req[c].op)) \/ Answer(c, 400) BY <1>2 DEF Bind
  <2>2. req[c].op \in Public \cup Protected BY RequestType DEF IInv
  <2>3. FirstStatement(req[c].op) # "createSession"
    BY <2>2, FirstStatements DEF Public, Protected
  <2>4. Alone(c) /\ pc'[c] # "createSession" BY <2>1, <2>3, Moves
  <2> QED BY <1>2, <2>4 DEF Bind, db, out
<1>3. ASSUME createUser(c) PROVE Quiet
  <2>1. Answer(c, 403) \/ Took(c) BY <1>3 DEF createUser
  <2>2. Alone(c) /\ pc'[c] = "done" BY <2>1, Answers, Takes DEF Codes
  <2> QED BY <1>3, <2>2 DEF createUser, ctx
<1>4. ASSUME verifyRefreshToken(c) PROVE Quiet
  <2>1. PICK t : /\ shown' = [shown EXCEPT ![c] = t]
                 /\ Goto(c, "getSession") \/ Answer(c, 401)
    BY <1>4 DEF verifyRefreshToken
  <2>2. Alone(c) /\ pc'[c] # "createSession" BY <2>1, Moves
  <2> QED BY <1>4, <2>1, <2>2 DEF verifyRefreshToken, IInv, TypeOK, db, out
<1>5. ASSUME createAccount(c) PROVE Quiet
  <2>1. Answer(c, 403) \/ Took(c) BY <1>5 DEF createAccount
  <2>2. Alone(c) /\ pc'[c] = "done" BY <2>1, Answers, Takes DEF Codes
  <2> QED BY <1>5, <2>2 DEF createAccount, ctx
<1>6. ASSUME getAccount(c) PROVE Quiet
  <2>1. \/ \E s \in Codes : Answer(c, s)
        \/ Goto(c, "delete") \/ Goto(c, "update")
    BY <1>6 DEF getAccount, Codes
  <2>2. Alone(c) /\ pc'[c] # "createSession"
    BY <2>1, Answers, Goes DEF Labels, Statements
  <2> QED BY <1>6, <2>2 DEF getAccount, db, ctx
<1>7. ASSUME listAccounts(c) PROVE Quiet
  <2>1. Answer(c, 200) \/ Answer(c, 500) BY <1>7 DEF listAccounts
  <2>2. Alone(c) /\ pc'[c] = "done" BY <2>1, Answers DEF Codes
  <2> QED BY <1>7, <2>2 DEF listAccounts, db, ctx
<1>8. ASSUME updateAccount(c) PROVE Quiet
  <2>1. Answer(c, 404) \/ Took(c) BY <1>8 DEF updateAccount
  <2>2. Alone(c) /\ pc'[c] = "done" BY <2>1, Answers, Takes DEF Codes
  <2> QED BY <1>8, <2>2 DEF updateAccount, ctx
<1>9. ASSUME deleteAccount(c) PROVE Quiet
  <2>1. Answer(c, 500) \/ Took(c) \/ Answer(c, 200) BY <1>9 DEF deleteAccount
  <2>2. Alone(c) /\ pc'[c] = "done" BY <2>1, Answers, Takes DEF Codes
  <2> QED BY <1>9, <2>2 DEF deleteAccount, ctx
<1>10. ASSUME FromAccount(c) PROVE Quiet
  <2>1. Goto(c, "to") \/ \E s \in Codes : Answer(c, s)
    BY <1>10 DEF FromAccount, validAccount, Codes
  <2>2. Alone(c) /\ pc'[c] # "createSession"
    BY <2>1, Answers, Goes DEF Labels, Statements
  <2> QED BY <1>10, <2>2 DEF FromAccount, db, out
<1>11. ASSUME ToAccount(c) PROVE Quiet
  <2>1. Goto(c, "transfer") \/ \E s \in Codes : Answer(c, s)
    BY <1>11 DEF ToAccount, validAccount, Codes
  <2>2. Alone(c) /\ pc'[c] # "createSession"
    BY <2>1, Answers, Goes DEF Labels, Statements
  <2> QED BY <1>11, <2>2 DEF ToAccount, db, ctx, out
<1>12. ASSUME TransferTx(c) PROVE Quiet
  <2>1. Answer(c, 500) \/ Took(c) BY <1>12 DEF TransferTx
  <2>2. Alone(c) /\ pc'[c] = "done" BY <2>1, Answers, Takes DEF Codes
  <2> QED BY <1>12, <2>2 DEF TransferTx, ctx
<1>13. ASSUME Fail(c) PROVE Quiet
  <2>1. pc[c] \in Statements /\ Answer(c, 500) BY <1>13 DEF Fail
  <2>2. Alone(c) /\ pc'[c] = "done" BY <2>1, Answers DEF Codes
  <2> QED BY <1>13, <2>1, <2>2 DEF Fail, Statements, db, ctx, out
<1>14. Quiet
  BY <1>1, <1>2, <1>3, <1>4, <1>5, <1>6, <1>7, <1>8, <1>9, <1>10, <1>11, <1>12, <1>13
  DEF Unrelated
<1>15. LoggedIn(c)' BY <1>14 DEF LoggedIn
<1>16. OthersAlone(c) BY <1>14 DEF OthersAlone
<1> QED BY <1>14, <1>15, <1>16, NoTokenGiven

LEMMA NextTokens == IInv /\ TokenInv /\ [Next]_vars => TokenInv'
<1> SUFFICES ASSUME IInv, TokenInv, [Next]_vars PROVE TokenInv' OBVIOUS
<1>1. ASSUME NEW c \in Calls, \/ loginUser(c) \/ createSession(c)
                              \/ renewAccessToken(c) \/ Unrelated(c)
      PROVE  TokenInv'
  BY <1>1, loginUserTokens, createSessionTokens, renewAccessTokenTokens, UnrelatedTokens
<1>2. CASE Tick \/ UNCHANGED vars
  <2>1. UNCHANGED <<db, ctx, out, req, pc, status>> BY <1>2 DEF Tick, vars
  <2>2. SessionsOfTokens' BY <2>1 DEF TokenInv, SessionsOfTokens, db
  <2>3. TokensBacked'
    BY <2>1 DEF TokenInv, TokensBacked, Obtained, User, db, ctx, out
  <2>4. \A c \in Calls : LoggedIn(c)' BY <2>1 DEF TokenInv, LoggedIn, ctx
  <2> QED BY <2>2, <2>3, <2>4 DEF TokenInv
<1> QED BY <1>1, <1>2 DEF Next, Quiescent, Unrelated

\* What an answer says has been done, or not, has been, in all handlers of api/.
\* It shows no rows but the caller's own and, to who has made a transfer, the
\* recipient's (api/transfer.go:72).  And a token is held only by who has logged
\* in with the right password, or has renewed one with a refresh token of the
\* same user, in time; refresh tokens have their sessions.
THEOREM AnswersHonestHolds == Spec => []AnswersHonest
<1>1. IInv /\ TokenInv => AnswersHonest
  BY DEF IInv, CallInv, Honest, TokenInv, AnswersHonest, StatusTrue
<1>2. Spec => []TokenInv
  BY InitTokens, NextTokens, Invariance, PTL DEF Spec
<1> QED BY <1>1, <1>2, Invariance, PTL

-----------------------------------------------------------------------------
(* TransfersSound.                                                         *)

LEMMA TotalIsSum ==
  ASSUME NEW rows, IsFiniteSet(DOMAIN rows)
  PROVE  \E g : /\ IsSum(g, [a \in DOMAIN rows |-> rows[a].balance], DOMAIN rows)
                /\ Total(rows) = g[DOMAIN rows]
<1> DEFINE S == DOMAIN rows
           f == [a \in S |-> rows[a].balance]
           P(g) == g = [s \in SUBSET S |->
                          IF s = {} THEN 0
                          ELSE LET x == CHOOSE x \in s : TRUE
                               IN  rows[x].balance + g[s \ {x}]]
           h == CHOOSE g : P(g)
<1>1. ASSUME NEW g PROVE P(g) <=> IsSum(g, f, S)
  <2>1. \A s \in SUBSET S : s # {} =>
          rows[CHOOSE x \in s : TRUE].balance = f[CHOOSE x \in s : TRUE]
    OBVIOUS
  <2>2. [s \in SUBSET S |->
           IF s = {} THEN 0
           ELSE rows[CHOOSE x \in s : TRUE].balance + g[s \ {CHOOSE x \in s : TRUE}]]
        = [s \in SUBSET S |->
             IF s = {} THEN 0
             ELSE f[CHOOSE x \in s : TRUE] + g[s \ {CHOOSE x \in s : TRUE}]]
    BY <2>1
  <2> QED BY <2>2 DEF IsSum
<1>2. Total(rows) = h[S]
  BY DEF Total, MapThenSumSet, MapThenFoldSet
<1>3. \E g : P(g)
  <2>1. \E g : IsSum(g, f, S)
    <3> HIDE DEF f
    <3> QED BY SumExists
  <2> HIDE DEF P, f
  <2> QED BY <1>1, <2>1
<1>4. P(h)
  <2> HIDE DEF P
  <2> QED BY <1>3
<1> QED BY <1>1, <1>2, <1>4

\* What moves from one row to another leaves the total alone.
LEMMA TotalKept ==
  ASSUME NEW D, IsFiniteSet(D), NEW rows, NEW rows2, DOMAIN rows = D, DOMAIN rows2 = D,
         \A a \in D : rows[a].balance \in Int /\ rows2[a].balance \in Int,
         NEW from \in D, NEW to \in D, NEW n \in Int,
         \A a \in D \ {from, to} : rows2[a].balance = rows[a].balance,
         from = to => rows2[to].balance = rows[to].balance,
         from # to => /\ rows2[from].balance = rows[from].balance - n
                      /\ rows2[to].balance = rows[to].balance + n
  PROVE  Total(rows2) = Total(rows)
<1> DEFINE f == [a \in D |-> rows[a].balance]
           h == [a \in D |-> rows2[a].balance]
<1>1. PICK g : IsSum(g, f, D) /\ Total(rows) = g[D]
  BY TotalIsSum
<1>2. PICK k : IsSum(k, h, D) /\ Total(rows2) = k[D]
  BY TotalIsSum
<1>3. /\ \A a \in D : f[a] \in Int /\ h[a] \in Int
      /\ \A a \in D \ {from, to} : h[a] = f[a]
      /\ from = to => h[to] = f[to]
      /\ from # to => h[from] = f[from] - n /\ h[to] = f[to] + n
  OBVIOUS
<1> HIDE DEF f, h
<1>4. CASE from = to
  <2>1. \A a \in D : f[a] = h[a] BY <1>3, <1>4
  <2>2. D \in SUBSET D /\ D \subseteq D OBVIOUS
  <2>3. g[D] = k[D] BY <1>1, <1>2, <2>1, <2>2, SumsAgree
  <2> QED BY <1>1, <1>2, <2>3
<1>5. CASE from # to
  <2> DEFINE u == D \ {from}
             v == u \ {to}
  <2>1. /\ D \in SUBSET D /\ u \in SUBSET D /\ v \in SUBSET D /\ v \subseteq D /\ to \in u
        /\ \A a \in u : f[a] \in Int /\ h[a] \in Int
        /\ \A a \in v : f[a] = h[a] /\ f[a] \in Int
    BY <1>3, <1>5
  <2>2. g[D] = f[from] + g[u] /\ k[D] = h[from] + k[u]
    BY <1>1, <1>2, <1>3, <2>1, SumStep
  <2> HIDE DEF u
  <2>3. g[u] = f[to] + g[v] /\ k[u] = h[to] + k[v]
    BY <1>1, <1>2, <2>1, SumStep
  <2> HIDE DEF v
  <2>4. g[v] = k[v] /\ g[v] \in Int
    BY <1>1, <1>2, <2>1, SumsAgree, SumType
  <2>5. g[D] = k[D]
    <3>1. PICK p \in Int, q \in Int, m \in Int : p = f[from] /\ q = f[to] /\ m = g[v]
      BY <1>3, <2>4
    <3>2. g[D] = p + (q + m) /\ k[D] = (p - n) + ((q + n) + m)
      BY <1>3, <1>5, <2>2, <2>3, <2>4, <3>1
    <3>3. p + (q + m) = (p - n) + ((q + n) + m) BY <3>1
    <3> QED BY <3>2, <3>3
  <2> QED BY <1>1, <1>2, <2>5
<1> QED BY <1>4, <1>5

\* A positive amount becomes a positive number of cents, or none, or does not fit.
LEMMA PositiveCents ==
  ASSUME NEW x \in Int, Positive(x), NEW n \in FloatToCents(x)
  PROVE  n \in Int /\ (n >= 0 \/ n = MinInt)
<1>1. \A m \in Nearest(x) : m \in Int /\ m >= 0
  BY DEF Nearest, Positive
<1>2. MaxInt \in Int /\ MinInt \in Int /\ MaxInt >= 0
  BY MoneyAssumption DEF MinInt
<1>3. x # NaN BY MoneyAssumption
<1> QED BY <1>1, <1>2, <1>3 DEF FloatToCents

\* What createTransfer knows of the amount it has converted: it is no less than
\* zero, and covered by the balance it has read.
Funded(c) ==
  /\ pc[c] \in {"from", "to", "transfer"} => cents[c] >= 0 \/ cents[c] = MinInt
  /\ pc[c] = "transfer" => cents[c] <= balance[c]

FundedInv == \A c \in Calls : Funded(c)

\* The steps that neither read a balance nor convert an amount.
LEMMA FundedKept ==
  ASSUME FundedInv, UNCHANGED <<cents, balance>>,
         \A d \in Calls : pc'[d] \in {pc[d]} \cup (Labels \ {"from", "to", "transfer"})
  PROVE  FundedInv'
BY DEF FundedInv, Funded

LEMMA NextFunded ==
  ASSUME IInv, FundedInv, [Next]_vars
  PROVE  FundedInv'
<1>1. CASE UNCHANGED vars \/ Tick \/ Quiescent
  BY <1>1 DEF FundedInv, Funded, vars, ctx, Tick, Quiescent
<1>2. ASSUME NEW c \in Calls, Bind(c)
      PROVE  FundedInv'
  <2>1. CASE req[c].op = "createTransfer" /\ Bound(req[c])
    <3>1. PICK n \in FloatToCents(req[c].amount) : cents' = [cents EXCEPT ![c] = n]
      BY <1>2, <2>1 DEF Bind
    <3>2. Positive(req[c].amount) BY <2>1 DEF Bound
    <3>3. n >= 0 \/ n = MinInt
      BY <2>1, <3>1, <3>2, RequestType, PositiveCents DEF IInv
    <3>4. /\ Goto(c, FirstStatement(req[c].op)) /\ FirstStatement(req[c].op) = "from"
          /\ balance' = balance
      BY <1>2, <2>1 DEF Bind, FirstStatement
    <3>5. pc'[c] = "from" /\ Alone(c) /\ cents'[c] = n
      BY <3>1, <3>4, Goes DEF Labels, Statements, IInv, TypeOK
    <3>6. \A d \in Calls \ {c} : cents'[d] = cents[d]
      BY <3>1 DEF IInv, TypeOK
    <3> QED BY <3>3, <3>4, <3>5, <3>6 DEF FundedInv, Funded, Alone
  <2>2. CASE ~(req[c].op = "createTransfer" /\ Bound(req[c]))
    <3>1. req[c].op \in Public \cup Protected BY RequestType DEF IInv
    <3>2. UNCHANGED <<cents, balance>>
      BY <1>2, <2>2 DEF Bind
    <3>3. \A d \in Calls : pc'[d] \in {pc[d]} \cup (Labels \ {"from", "to", "transfer"})
      <4>1. CASE Bound(req[c])
        <5>1. Goto(c, FirstStatement(req[c].op)) BY <1>2, <4>1 DEF Bind
        <5>2. FirstStatement(req[c].op) \in Labels \ {"from", "to", "transfer"}
          BY <2>2, <3>1, <4>1, FirstStatements DEF Public, Protected, Labels, Statements
        <5> QED BY <5>1, <5>2, Goes DEF Alone
      <4>2. CASE ~Bound(req[c])
        <5>1. Answer(c, 400) BY <1>2, <4>2 DEF Bind
        <5> QED BY <5>1, Answers DEF Alone, Labels, Codes
      <4> QED BY <4>1, <4>2
    <3> QED BY <3>2, <3>3, FundedKept
  <2> QED BY <2>1, <2>2
<1>3. ASSUME NEW c \in Calls, FromAccount(c)
      PROVE  FundedInv'
  <2>1. cents' = cents /\ pc[c] = "from" /\ \A d \in Calls \ {c} : balance'[d] = balance[d]
    BY <1>3 DEF FromAccount, IInv, TypeOK
  <2>2. Alone(c) /\ pc'[c] \in {"done", "to"}
    <3>1. validAccount(c, req[c].from) \in Codes
      BY DEF validAccount, Codes
    <3> QED BY <1>3, <3>1, Answers, Goes DEF FromAccount, Labels, Statements, Codes
  <2> QED BY <2>1, <2>2 DEF FundedInv, Funded, Alone
<1>4. ASSUME NEW c \in Calls, ToAccount(c)
      PROVE  FundedInv'
  <2>1. UNCHANGED <<cents, balance>> /\ pc[c] = "to"
    BY <1>4 DEF ToAccount, ctx
  <2>2. Alone(c) /\ (pc'[c] = "done" \/ (pc'[c] = "transfer" /\ ~Insufficient(c)))
    <3>1. PICK v \in Codes : v = validAccount(c, req[c].to)
      BY DEF validAccount, Codes
    <3>2. \/ Answer(c, v) \/ Answer(c, 400)
          \/ ~Insufficient(c) /\ Goto(c, "transfer")
      BY <1>4, <3>1 DEF ToAccount
    <3>3. 400 \in Codes
      BY DEF Codes
    <3>4. "transfer" \in Labels
      BY DEF Labels, Statements
    <3>5. CASE Answer(c, v) \/ Answer(c, 400)
      BY <3>1, <3>3, <3>5, Answers
    <3>6. CASE ~Insufficient(c) /\ Goto(c, "transfer")
      BY <3>4, <3>6, Goes
    <3> QED BY <3>2, <3>5, <3>6
  <2>3. cents[c] \in Int /\ balance[c] \in Int
    BY MoneyAssumption DEF IInv, TypeOK, Int64, MinInt
  <2> QED BY <2>1, <2>2, <2>3 DEF FundedInv, Funded, Alone, Insufficient
<1>5. ASSUME NEW c \in Calls,
             \/ authMiddleware(c) \/ createUser(c) \/ loginUser(c)
             \/ createSession(c) \/ verifyRefreshToken(c) \/ renewAccessToken(c)
             \/ createAccount(c) \/ getAccount(c) \/ listAccounts(c) \/ updateAccount(c)
             \/ deleteAccount(c) \/ TransferTx(c) \/ Fail(c)
      PROVE  FundedInv'
  <2>1. UNCHANGED <<cents, balance>>
    BY <1>5 DEF authMiddleware, createUser, loginUser, createSession, verifyRefreshToken,
       renewAccessToken, createAccount, getAccount, listAccounts, updateAccount,
       deleteAccount, TransferTx, Fail, ctx
  <2>2. \/ \E s \in Codes : Answer(c, s)
        \/ Took(c)
        \/ \E label \in Labels \ {"from", "to", "transfer"} : Goto(c, label)
    BY <1>5 DEF authMiddleware, createUser, loginUser, createSession, verifyRefreshToken,
       renewAccessToken, createAccount, getAccount, listAccounts, updateAccount,
       deleteAccount, TransferTx, Fail, Codes, Labels, Statements
  <2>3. \A d \in Calls : pc'[d] \in {pc[d]} \cup (Labels \ {"from", "to", "transfer"})
    BY <2>2, Answers, Takes, Goes DEF Alone, Labels
  <2> QED BY <2>1, <2>3, FundedKept
<1> QED BY <1>1, <1>2, <1>3, <1>4, <1>5 DEF Next

\* Four handlers write rows of accounts or transfers; no other step does.
LEMMA Writers ==
  ASSUME [Next]_vars
  PROVE  \/ UNCHANGED <<accounts, moved>>
         \/ \E c \in Calls :
              createAccount(c) \/ updateAccount(c) \/ deleteAccount(c) \/ TransferTx(c)
<1> DEFINE Kept == UNCHANGED <<accounts, moved>>
<1>1. CASE UNCHANGED vars \/ Tick \/ Quiescent
  BY <1>1 DEF Tick, Quiescent, vars, db
<1>2. ASSUME NEW c \in Calls,
             authMiddleware(c) \/ Bind(c) \/ getAccount(c) \/ listAccounts(c) \/ Fail(c)
      PROVE  Kept
  BY <1>2 DEF authMiddleware, Bind, getAccount, listAccounts, Fail, db
<1>3. ASSUME NEW c \in Calls, createUser(c) \/ loginUser(c) \/ createSession(c)
      PROVE  Kept
  BY <1>3 DEF createUser, loginUser, createSession, db
<1>4. ASSUME NEW c \in Calls, verifyRefreshToken(c) \/ renewAccessToken(c)
      PROVE  Kept
  BY <1>4 DEF verifyRefreshToken, renewAccessToken, db
<1>5. ASSUME NEW c \in Calls, FromAccount(c) \/ ToAccount(c)
      PROVE  Kept
  BY <1>5 DEF FromAccount, ToAccount, db
<1> QED BY <1>1, <1>2, <1>3, <1>4, <1>5 DEF Next

\* No step of another handler records a transfer.
LEMMA OnlyTransferTxMoves ==
  ASSUME [Next]_vars, moved' # moved
  PROVE  \E c \in Calls : TransferTx(c)
<1>1. ASSUME NEW c \in Calls, createAccount(c) \/ updateAccount(c) \/ deleteAccount(c)
      PROVE  FALSE
  BY <1>1 DEF createAccount, updateAccount, deleteAccount
<1> QED BY <1>1, Writers

\* TransferTx: whatever was moved is still there, also if it was moved from an
\* account to itself, and an overdraft is due to a balance that has changed.
LEMMA TransferTxSound ==
  ASSUME IInv, FundedInv, NEW c \in Calls, TransferTx(c), moved' # moved,
         cents[c] # MinInt
  PROVE  /\ Total(accounts') = Total(accounts)
         /\ accounts'[req[c].from].balance < 0 => accounts[req[c].from].balance # balance[c]
<1> DEFINE r == req[c]
           n == cents[c]
<1>1. /\ pc[c] = "transfer" /\ {r.from, r.to} \subseteq DOMAIN accounts
      /\ InRange(r, n) /\ accounts' = Moved(r, n)
  BY DEF TransferTx
<1>2. n \in Int64 /\ n \in Int /\ balance[c] \in Int
  BY MoneyAssumption DEF IInv, TypeOK, Int64, MinInt
<1>3. n >= 0 /\ n <= balance[c] /\ Neg(n) = -n
  BY <1>1, <1>2 DEF FundedInv, Funded, Neg
<1>4. DOMAIN accounts' = DOMAIN accounts
  BY <1>1, <1>2, MovedRows DEF IInv
<1>5. \A a \in DOMAIN accounts : accounts[a] \in Account /\ accounts'[a] \in Account
  BY <1>1, <1>2, MovedRows DEF IInv, TypeOK
<1>6. \A a \in DOMAIN accounts : accounts[a].balance \in Int /\ accounts'[a].balance \in Int
  BY <1>5, MoneyAssumption DEF Account, Int64, MinInt
<1>7. IsFiniteSet(DOMAIN accounts)
  <2>1. DOMAIN accounts \subseteq 1..MaxAccountId BY DEF IInv, TypeOK
  <2>2. IsFiniteSet(1..MaxAccountId) BY FS_Interval, LegacyAssumption
  <2> QED BY <2>1, <2>2, FS_Subset
<1>8. \A a \in DOMAIN accounts \ {r.from, r.to} : accounts'[a].balance = accounts[a].balance
  BY <1>1, <1>2, MovedRows DEF IInv
<1>9. \A a \in DOMAIN accounts :
        accounts'[a].balance = accounts[a].balance + (IF a = r.from THEN -n ELSE 0)
                                                   + (IF a = r.to THEN n ELSE 0)
  BY <1>1, <1>3, <1>5 DEF Moved, Account
<1> HIDE DEF r, n
<1>10. /\ r.from = r.to => accounts'[r.to].balance = accounts[r.to].balance
       /\ r.from # r.to => /\ accounts'[r.from].balance = accounts[r.from].balance - n
                           /\ accounts'[r.to].balance = accounts[r.to].balance + n
  BY <1>1, <1>2, <1>6, <1>9
<1>11. Total(accounts') = Total(accounts)
  <2>1. PICK D, rows : D = DOMAIN accounts /\ rows = accounts' OBVIOUS
  <2>2. PICK from \in D, to \in D : from = r.from /\ to = r.to
    BY <1>1, <2>1 DEF r
  <2>3. PICK m \in Int : m = n BY <1>2 DEF n
  <2>5. DOMAIN accounts = D /\ DOMAIN rows = D /\ IsFiniteSet(D)
    BY <1>4, <1>7, <2>1
  <2>6. \A a \in D : accounts[a].balance \in Int /\ rows[a].balance \in Int
    BY <1>6, <2>1
  <2>7. \A a \in D \ {from, to} : rows[a].balance = accounts[a].balance
    BY <1>8, <2>1, <2>2
  <2>8. from = to => rows[to].balance = accounts[to].balance
    BY <1>10, <2>1, <2>2
  <2>9. from # to => /\ rows[from].balance = accounts[from].balance - m
                    /\ rows[to].balance = accounts[to].balance + m
    BY <1>10, <2>1, <2>2, <2>3
  <2>4. Total(rows) = Total(accounts)
    BY ONLY <2>5, <2>6, <2>7, <2>8, <2>9, TotalKept
  <2> QED BY <2>1, <2>4
<1>12. accounts'[r.from].balance < 0 => accounts[r.from].balance # balance[c]
  BY <1>1, <1>2, <1>3, <1>6, <1>10
<1> QED BY <1>11, <1>12 DEF r

\* TransferTx of the legacy server, with its transfers from an account to itself:
\* no transfer makes or loses money, and none overdraws but by the race.
THEOREM TransfersSoundHolds == Spec => TransfersSound
<1> DEFINE Sound == \A t \in moved' \ moved : t.amount # MinInt =>
       /\ Total(accounts') = Total(accounts)
       /\ accounts'[t.from].balance < 0 => accounts[t.from].balance # balance[t.id]
<1>1. Init => FundedInv
  BY DEF Init, FundedInv, Funded
<1>2. IInv /\ FundedInv /\ [Next]_vars => FundedInv'
  BY NextFunded
<1>3. IInv /\ FundedInv /\ [Next]_vars => [Sound]_vars
  <2> SUFFICES ASSUME IInv, FundedInv, [Next]_vars, NEW t \in moved' \ moved,
                      t.amount # MinInt
               PROVE  /\ Total(accounts') = Total(accounts)
                      /\ accounts'[t.from].balance < 0 =>
                           accounts[t.from].balance # balance[t.id]
    OBVIOUS
  <2>1. PICK c \in Calls : TransferTx(c) BY OnlyTransferTxMoves
  <2>2. t = [id |-> c, from |-> req[c].from, to |-> req[c].to, amount |-> cents[c]]
    BY <2>1 DEF TransferTx
  <2>3. t.id = c /\ t.from = req[c].from /\ t.amount = cents[c] BY <2>2
  <2>4. moved' # moved OBVIOUS
  <2> QED BY <2>1, <2>3, <2>4, TransferTxSound
<1> QED BY <1>1, <1>2, <1>3, Invariance, PTL DEF Spec, TransfersSound

-----------------------------------------------------------------------------
\* The row of an account changes, or goes, only by a call of its owner, or of the
\* owner of the account a transfer credits it from.
THEOREM OwnersOnlyHolds == Spec => OwnersOnly
<1> DEFINE Entitled ==
      \A a \in DOMAIN accounts :
       (a \notin DOMAIN accounts' \/ accounts'[a] # accounts[a]) =>
         \E c \in Calls :
           /\ pc[c] # "done" /\ pc'[c] = "done" /\ shown[c] \in held
           /\ IF req[c].op = "createTransfer"
              THEN a \in {req[c].from, req[c].to} /\ accounts[req[c].from].owner = User(c)
              ELSE accounts[a].owner = User(c)
<1>1. IInv /\ [Next]_vars => [Entitled]_vars
  <2> SUFFICES ASSUME IInv, [Next]_vars, NEW a \in DOMAIN accounts,
                      a \notin DOMAIN accounts' \/ accounts'[a] # accounts[a]
               PROVE  \E c \in Calls :
                        /\ pc[c] # "done" /\ pc'[c] = "done" /\ shown[c] \in held
                        /\ IF req[c].op = "createTransfer"
                           THEN /\ a \in {req[c].from, req[c].to}
                                /\ accounts[req[c].from].owner = User(c)
                           ELSE accounts[a].owner = User(c)
    OBVIOUS
  <2>1. PICK c \in Calls : updateAccount(c) \/ deleteAccount(c) \/ TransferTx(c)
    <3>1. ASSUME NEW c \in Calls, createAccount(c) PROVE FALSE
      BY <3>1 DEF createAccount, IInv, IdsDrawn, TypeOK
    <3> QED BY <3>1, Writers
  <2>2. CASE updateAccount(c)
    <3>1. pc[c] = "update" /\ a = req[c].id /\ Took(c)
      BY <2>2 DEF updateAccount
    <3>2. /\ req[c].op = "updateAccount" /\ shown[c] \in held
          /\ accounts[a].owner = User(c)
      BY <3>1 DEF IInv, CallInv, Serves, Authenticated, Behind, Owns, OwnerOf, Found
    <3> QED BY <3>1, <3>2, Takes
  <2>3. CASE deleteAccount(c)
    <3>1. pc[c] = "delete" /\ a = req[c].id /\ (Took(c) \/ Answer(c, 200))
      BY <2>3 DEF deleteAccount
    <3>2. /\ req[c].op = "deleteAccount" /\ shown[c] \in held
          /\ accounts[a].owner = User(c)
      BY <3>1 DEF IInv, CallInv, Serves, Authenticated, Behind, Owns, OwnerOf, Found
    <3> QED BY <3>1, <3>2, Takes, Answers DEF Codes
  <2>4. CASE TransferTx(c)
    <3>1. /\ pc[c] = "transfer" /\ Took(c) /\ req[c].from \in DOMAIN accounts
          /\ InRange(req[c], cents[c]) /\ accounts' = Moved(req[c], cents[c])
      BY <2>4 DEF TransferTx
    <3>2. cents[c] \in Int64 /\ TypeOK BY DEF IInv, TypeOK
    <3>3. a \in {req[c].from, req[c].to} BY <3>1, <3>2, MovedRows
    <3>4. /\ req[c].op = "createTransfer" /\ shown[c] \in held
          /\ accounts[req[c].from].owner = User(c)
      BY <3>1 DEF IInv, CallInv, Serves, Authenticated, Behind, Owns, OwnerOf, Found
    <3> QED BY <3>1, <3>3, <3>4, Takes
  <2> QED BY <2>1, <2>2, <2>3, <2>4
<1> QED BY <1>1, Invariance, PTL DEF Spec, OwnersOnly
=============================================================================
