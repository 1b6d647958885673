-------------------------------- MODULE Bank --------------------------------
(***************************************************************************)
(* The account and transfer handlers of the gRPC server (gapi), executing  *)
(* concurrently over the SQL store (db/sqlc) and PostgreSQL.               *)
(*                                                                         *)
(* Each element of Calls is one invocation of a handler with its request.  *)
(* A handler runs outside any transaction until it enters store.execTx, so *)
(* what it read before may be stale there; one action is one statement     *)
(* sent to the database.                                                   *)
(*                                                                         *)
(* PostgreSQL (READ COMMITTED) is modelled by what these statements rely   *)
(* on.  A statement reads committed rows and its own transaction's writes. *)
(* An INSERT takes a KEY SHARE lock on each account row its foreign keys   *)
(* name; an UPDATE of a balance takes a NO KEY UPDATE lock on the row, a   *)
(* DELETE a full lock; locks are kept until the transaction ends.  KEY     *)
(* SHARE conflicts only with the full lock, NO KEY UPDATE with itself and  *)
(* with the full lock.  A statement that must wait then sees the row as    *)
(* the other transaction left it.                                          *)
(***************************************************************************)
EXTENDS Money, Sequences, FiniteSetsExt

CONSTANTS
  Calls,          \* handler invocations
  Users,          \* usernames an access token can carry
  Currencies,     \* util.IsSupportedCurrency
  Requests,       \* the requests the clients may send
  Scenarios,      \* which request each call carries: [Calls -> Requests], or a
                  \* part of it that an instance is restricted to
  InitAccounts,   \* the rows of accounts when the server starts, by id
  MaxAccountId    \* the last value of the accounts.id sequence

AccountIds == 1..MaxAccountId

Account  == [owner : Users, currency : Currencies, balance : Int64]
Transfer == [id : Calls, from : AccountIds, to : AccountIds, amount : Int64]
Entry    == [transfer : Calls, account : AccountIds, amount : Int64]

TransferOps == {"CreateTransfer"}
OpenOps     == {"CreateAccount"}
UpdateOps   == {"UpdateAccount"}
\* The operations that name one account and carry nothing else.
IdOps       == {"GetAccount", "LookUpAccount", "DeleteAccount"}

IsRequest(r) ==
  \/ /\ r.op \in TransferOps
     /\ DOMAIN r = {"op", "caller", "from", "to", "amount", "currency"}
     /\ r.caller \in Users /\ r.from \in Int /\ r.to \in Int
     /\ r.amount \in Float
  \/ /\ r.op \in OpenOps
     /\ DOMAIN r = {"op", "caller", "currency"}
     /\ r.caller \in Users
  \/ /\ r.op \in UpdateOps
     /\ DOMAIN r = {"op", "caller", "id", "balance"}
     /\ r.caller \in Users /\ r.id \in Int /\ r.balance \in Float
  \/ /\ r.op \in IdOps
     /\ DOMAIN r = {"op", "caller", "id"}
     /\ r.caller \in Users /\ r.id \in Int

\* accounts.owner and accounts.currency are UNIQUE together.
DistinctKeys(rows) ==
  \A a, b \in DOMAIN rows :
    (rows[a].owner = rows[b].owner /\ rows[a].currency = rows[b].currency)
      => a = b

ASSUME BankAssumption ==
  /\ MaxAccountId \in Nat
  /\ \A r \in Requests : IsRequest(r)
  /\ Scenarios \subseteq [Calls -> Requests]
  /\ InitAccounts \in Seq(Account)
  /\ Len(InitAccounts) <= MaxAccountId
  /\ DistinctKeys(InitAccounts)

VARIABLES
  accounts,    \* committed rows of accounts, by id
  transfers,   \* committed rows of transfers
  entries,     \* committed rows of entries
  nextId,      \* the next value of the accounts.id sequence
  req,         \* the request of each call
  pc,          \* what each call does next
  seen,        \* fromAccount.Balance, as CreateTransfer read it
  cents,       \* amountCents, as CreateTransfer computed it
  newTransfers,   \* the rows each call's transaction has inserted ...
  newEntries,
  newBalances,    \* ... and, by account, the balances it has updated
  resp         \* the status code each call was answered with

db   == <<accounts, transfers, entries>>
tx   == <<newTransfers, newEntries, newBalances>>
vars == <<db, nextId, req, pc, seen, cents, tx, resp>>

\* No balance updated.
NoBalances == [a \in {} |-> 0]

TxPC == {"insertTransfer", "fromEntry", "toEntry", "add1", "add2", "commit",
         "rollback"}
PC   == TxPC \cup {"idle", "checkFrom", "checkTo", "insertAccount",
                   "authorize", "lookUp", "update", "delete", "done"}

Codes == {"OK", "InvalidArgument", "NotFound", "PermissionDenied",
          "FailedPrecondition", "AlreadyExists", "Internal"}

Init ==
  /\ accounts = InitAccounts
  /\ transfers = {}
  /\ entries = {}
  /\ nextId = Len(InitAccounts) + 1
  /\ req \in Scenarios
  /\ pc = [c \in Calls |-> "idle"]
  /\ seen = [c \in Calls |-> 0]
  /\ cents = [c \in Calls |-> 0]
  /\ newTransfers = [c \in Calls |-> {}]
  /\ newEntries = [c \in Calls |-> {}]
  /\ newBalances = [c \in Calls |-> NoBalances]
  /\ resp = [c \in Calls |-> "none"]

-----------------------------------------------------------------------------
(* Shared pieces of the handlers.                                          *)

Goto(c, label) == /\ pc' = [pc EXCEPT ![c] = label]
                  /\ UNCHANGED resp

Answer(c, code) == /\ pc' = [pc EXCEPT ![c] = "done"]
                   /\ resp' = [resp EXCEPT ![c] = code]

\* The accounts whose rows a transaction has locked by a foreign key check,
\* and the ones it has locked by updating them.
KeyShared(c) == {t.from : t \in newTransfers[c]}
                  \cup {t.to : t \in newTransfers[c]}
                  \cup {e.account : e \in newEntries[c]}
Updated(c)   == DOMAIN newBalances[c]

\* The calls whose locks an UPDATE, or a DELETE, of a's row must wait for.
UpdateBlockers(c, a) == {d \in Calls \ {c} : a \in Updated(d)}
DeleteBlockers(c, a) ==
  {d \in Calls \ {c} : a \in Updated(d) \cup KeyShared(d)}

\* A row with another balance.
WithBalance(row, n) ==
  [owner |-> row.owner, currency |-> row.currency, balance |-> n]

\* GetAccount (SQL) finds a row.
Found(a) == a \in DOMAIN accounts

-----------------------------------------------------------------------------
(* Request validation.                                                     *)

ValidateID(id)        == id > 0
ValidateCurrency(cur) == cur \in Currencies

validateCreateTransferRequest(r) ==
  /\ ValidateID(r.from)
  /\ ValidateID(r.to)
  /\ ValidateAmount(r.amount)
  /\ ValidateCurrency(r.currency)
  /\ r.from # r.to

validateUpdateAccountRequest(r) == ValidateID(r.id) /\ ~LtZero(r.balance)

Valid(r) ==
  \/ r.op \in TransferOps /\ validateCreateTransferRequest(r)
  \/ r.op \in OpenOps /\ ValidateCurrency(r.currency)
  \/ r.op \in UpdateOps /\ validateUpdateAccountRequest(r)
  \/ r.op \in IdOps /\ ValidateID(r.id)

\* The first statement of each handler.
Entrance(op) == IF op \in TransferOps THEN "checkFrom"
                ELSE IF op \in OpenOps THEN "insertAccount"
                ELSE IF op = "LookUpAccount" THEN "lookUp"
                ELSE "authorize"

Receive(c) ==
  /\ pc[c] = "idle"
  /\ IF Valid(req[c])
     THEN Goto(c, Entrance(req[c].op))
     ELSE Answer(c, "InvalidArgument")
  /\ UNCHANGED <<db, nextId, req, seen, cents, tx>>

-----------------------------------------------------------------------------
(* CreateTransfer: the checks before the transaction.                      *)

\* MUTANT, TransferAuthorized: the currency is not compared.
validateTransferAccountAny(a, currency) ==
  IF ~Found(a) THEN "NotFound" ELSE "OK"

\* validateTransferAccount: the error code, or "OK".
validateTransferAccount(a, currency) ==
  IF ~Found(a) THEN "NotFound"
  ELSE IF accounts[a].currency # currency THEN "InvalidArgument"
  ELSE "OK"

CheckFromAccount(c) ==
  LET r == req[c]
      v == validateTransferAccount(r.from, r.currency)
  IN  /\ pc[c] = "checkFrom"
      /\ \/ v # "OK" /\ Answer(c, v) /\ UNCHANGED seen
         \/ /\ v = "OK" /\ accounts[r.from].owner # r.caller
            /\ Answer(c, "PermissionDenied") /\ UNCHANGED seen
         \/ /\ v = "OK" /\ accounts[r.from].owner = r.caller
            /\ seen' = [seen EXCEPT ![c] = accounts[r.from].balance]
            /\ Goto(c, "checkTo")
      /\ UNCHANGED <<db, nextId, req, cents, tx>>

\* MUTANT, OverdraftOnlyByRace: off by one.
InsufficientByTwo(balance, amount) == balance + 1 < amount

\* fromAccount.Balance < amountCents
Insufficient(balance, amount) == balance < amount

CheckToAccount(c) ==
  LET r == req[c]
      v == validateTransferAccount(r.to, r.currency)
  IN  /\ pc[c] = "checkTo"
      /\ \/ v # "OK" /\ Answer(c, v) /\ UNCHANGED cents
         \/ /\ v = "OK"
            /\ \E n \in FloatToCents(r.amount) :
                 \/ /\ Insufficient(seen[c], n)
                    /\ Answer(c, "FailedPrecondition") /\ UNCHANGED cents
                 \/ /\ ~Insufficient(seen[c], n)
                    /\ cents' = [cents EXCEPT ![c] = n]
                    /\ Goto(c, "insertTransfer")
      /\ UNCHANGED <<db, nextId, req, seen, tx>>

-----------------------------------------------------------------------------
(* TransferTx, run by execTx.                                              *)

\* CreateTransfer (SQL), the first statement of the transaction.
InsertTransfer(c) ==
  LET r == req[c]
  IN  /\ pc[c] = "insertTransfer"
      /\ IF {r.from, r.to} \subseteq DOMAIN accounts
         THEN /\ newTransfers' = [newTransfers EXCEPT ![c] =
                   {[id |-> c, from |-> r.from, to |-> r.to, amount |-> cents[c]]}]
              /\ Goto(c, "fromEntry")
         ELSE Goto(c, "rollback") /\ UNCHANGED newTransfers
      /\ UNCHANGED <<db, nextId, req, seen, cents, newEntries, newBalances>>

\* CreateTransferEntry; its foreign keys are rows this transaction has locked
\* or inserted.
CreateTransferEntry(c, here, account, amount, next) ==
  /\ pc[c] = here
  /\ newEntries' = [newEntries EXCEPT ![c] = @ \cup
              {[transfer |-> c, account |-> account, amount |-> amount]}]
  /\ Goto(c, next)
  /\ UNCHANGED <<db, nextId, req, seen, cents, newTransfers, newBalances>>

InsertFromEntry(c) ==
  CreateTransferEntry(c, "fromEntry", req[c].from, Neg(cents[c]), "toEntry")

\* MUTANT, DoubleEntry: both entries name the source.
InsertToEntryOfFrom(c) ==
  CreateTransferEntry(c, "toEntry", req[c].from, cents[c], "add1")

InsertToEntry(c) ==
  CreateTransferEntry(c, "toEntry", req[c].to, cents[c], "add1")

\* MUTANT, LedgerSpec: the sign of the debit is forgotten.
DebitUnsigned(c) == [account |-> req[c].from, amount |-> cents[c]]

\* The two updates of addMoney.
Debit(c)  == [account |-> req[c].from, amount |-> Neg(cents[c])]
Credit(c) == [account |-> req[c].to, amount |-> cents[c]]

\* MUTANT, NoDeadlock and EveryCallAnswered: always the source first.
FromFirstAlways(c) == TRUE

\* The account with the smaller id is updated first.
FromFirst(c) == req[c].from < req[c].to

FirstUpdate(c)  == IF FromFirst(c) THEN Debit(c) ELSE Credit(c)
SecondUpdate(c) == IF FromFirst(c) THEN Credit(c) ELSE Debit(c)

\* MUTANT, NoLostUpdate and Reconciled: the new balance is computed from the
\* one CreateTransfer has read.
AddedToSeen(c, u) ==
  (IF u.account = req[c].from THEN seen[c] ELSE accounts[u.account].balance)
    + u.amount

\* balance + amount, on the row as the last transaction to update it left it.
Added(c, u) == accounts[u.account].balance + u.amount

AddAccountBalance(c, here, u, next) ==
  LET a   == u.account
      sum == Added(c, u)
  IN  /\ pc[c] = here
      /\ UpdateBlockers(c, a) = {}
      /\ IF a \in DOMAIN accounts /\ sum \in Int64
         THEN /\ newBalances' = [newBalances EXCEPT ![c] =
                   [b \in Updated(c) \cup {a} |->
                      IF b = a THEN sum ELSE newBalances[c][b]]]
              /\ Goto(c, next)
         ELSE Goto(c, "rollback") /\ UNCHANGED newBalances
      /\ UNCHANGED <<db, nextId, req, seen, cents, newTransfers, newEntries>>

AddFirst(c)  == AddAccountBalance(c, "add1", FirstUpdate(c), "add2")
AddSecond(c) == AddAccountBalance(c, "add2", SecondUpdate(c), "commit")

\* The transaction is over and its locks are released.
EndTx(c) == /\ newTransfers' = [newTransfers EXCEPT ![c] = {}]
            /\ newEntries' = [newEntries EXCEPT ![c] = {}]
            /\ newBalances' = [newBalances EXCEPT ![c] = NoBalances]

\* tx.Commit: the writes become visible.
Publish(c) ==
  /\ accounts' = [a \in DOMAIN accounts |->
                    IF a \in Updated(c)
                    THEN WithBalance(accounts[a], newBalances[c][a])
                    ELSE accounts[a]]
  /\ transfers' = transfers \cup newTransfers[c]
  /\ entries' = entries \cup newEntries[c]

\* MUTANT, AnswersHonest: the error of tx.Commit is ignored.
CommitUnchecked(c) ==
  /\ pc[c] = "commit"
  /\ Publish(c) \/ UNCHANGED db
  /\ Answer(c, "OK")
  /\ EndTx(c)
  /\ UNCHANGED <<nextId, req, seen, cents>>

\* The commit succeeds; or its reply is lost and the client is told that the
\* transfer failed; or it fails.
Commit(c) ==
  /\ pc[c] = "commit"
  /\ \/ Publish(c) /\ Answer(c, "OK")
     \/ Publish(c) /\ Answer(c, "Internal")
     \/ UNCHANGED db /\ Answer(c, "Internal")
  /\ EndTx(c)
  /\ UNCHANGED <<nextId, req, seen, cents>>

\* A failed statement keeps its transaction's locks until the ROLLBACK.
Rollback(c) ==
  /\ pc[c] = "rollback"
  /\ EndTx(c)
  /\ Answer(c, "Internal")
  /\ UNCHANGED <<db, nextId, req, seen, cents>>

-----------------------------------------------------------------------------
(* The account handlers.                                                   *)

\* The reply to a statement that has taken effect may be lost.
Done(c) == Answer(c, "OK") \/ Answer(c, "Internal")

\* MUTANT, OneAccountPerCurrency: the key is the pair of id and owner.
KeyTakenById(u, cur) ==
  \E a \in DOMAIN accounts : a = nextId /\ accounts[a].owner = u

\* owner_currency_key is taken.
KeyTaken(u, cur) ==
  \E a \in DOMAIN accounts : accounts[a].owner = u /\ accounts[a].currency = cur

\* CreateAccount (SQL): an empty account with the next id.
AddRow(u, cur) ==
  accounts' = [a \in DOMAIN accounts \cup {nextId} |->
                 IF a = nextId
                 THEN [owner |-> u, currency |-> cur, balance |-> 0]
                 ELSE accounts[a]]

\* CreateAccount: the sequence advances even if the row is refused.
InsertAccount(c) ==
  LET r == req[c]
  IN  /\ pc[c] = "insertAccount"
      /\ IF nextId > MaxAccountId
         THEN Answer(c, "Internal") /\ UNCHANGED <<accounts, nextId>>
         ELSE /\ nextId' = nextId + 1
              /\ IF KeyTaken(r.caller, r.currency)
                 THEN Answer(c, "AlreadyExists") /\ UNCHANGED accounts
                 ELSE AddRow(r.caller, r.currency) /\ Done(c)
      /\ UNCHANGED <<transfers, entries, req, seen, cents, tx>>

\* authorizeAccount, then the end of GetAccount or the statement it guards.
AuthorizeAccount(c) ==
  LET r == req[c]
  IN  /\ pc[c] = "authorize"
      /\ IF ~Found(r.id) THEN Answer(c, "NotFound")
         ELSE IF accounts[r.id].owner # r.caller
              THEN Answer(c, "PermissionDenied")
         ELSE IF r.op = "UpdateAccount" THEN Goto(c, "update")
         ELSE IF r.op = "DeleteAccount" THEN Goto(c, "delete")
         ELSE Answer(c, "OK")
      /\ UNCHANGED <<db, nextId, req, seen, cents, tx>>

LookUpAccount(c) ==
  /\ pc[c] = "lookUp"
  /\ Answer(c, IF Found(req[c].id) THEN "OK" ELSE "NotFound")
  /\ UNCHANGED <<db, nextId, req, seen, cents, tx>>

\* UpdateAccount (SQL).
SetBalance(a, n) == accounts' = [accounts EXCEPT ![a] = WithBalance(@, n)]

\* The statement runs in a transaction of its own.
UpdateAccount(c) ==
  LET a == req[c].id
  IN  /\ pc[c] = "update"
      /\ UpdateBlockers(c, a) = {}
      /\ IF a \in DOMAIN accounts
         THEN /\ \E n \in FloatToCents(req[c].balance) : SetBalance(a, n)
              /\ Done(c)
         ELSE Answer(c, "NotFound") /\ UNCHANGED accounts
      /\ UNCHANGED <<transfers, entries, nextId, req, seen, cents, tx>>

\* MUTANT, NoDanglingMovement: only transfers.from_account_id is a foreign key.
ReferencedAsSource(a) == \E t \in transfers : a = t.from

\* A row of transfers or entries refers to account a by a foreign key.
Referenced(a) == \/ \E t \in transfers : a \in {t.from, t.to}
                 \/ \E e \in entries : e.account = a

\* DeleteAccount (SQL): deleting nothing is no error.
RemoveRow(a) == accounts' = [b \in DOMAIN accounts \ {a} |-> accounts[b]]

\* The statement runs in a transaction of its own.
DeleteAccount(c) ==
  LET a == req[c].id
  IN  /\ pc[c] = "delete"
      /\ DeleteBlockers(c, a) = {}
      /\ IF Referenced(a)
         THEN Answer(c, "Internal") /\ UNCHANGED accounts
         ELSE RemoveRow(a) /\ Done(c)
      /\ UNCHANGED <<transfers, entries, nextId, req, seen, cents, tx>>

-----------------------------------------------------------------------------
\* A statement fails: the connection breaks or the request is cancelled.
Fail(c) ==
  /\ \/ /\ pc[c] \in {"checkFrom", "checkTo", "insertAccount", "authorize",
                      "lookUp", "update", "delete"}
        /\ Answer(c, "Internal")
     \/ /\ pc[c] \in {"insertTransfer", "fromEntry", "toEntry", "add1", "add2"}
        /\ Goto(c, "rollback")
  /\ UNCHANGED <<db, nextId, req, seen, cents, tx>>

\* The steps of a call whose request has arrived, failures aside.
Step(c) ==
  \/ CheckFromAccount(c) \/ CheckToAccount(c)
  \/ InsertTransfer(c) \/ InsertFromEntry(c) \/ InsertToEntry(c)
  \/ AddFirst(c) \/ AddSecond(c) \/ Commit(c) \/ Rollback(c)
  \/ InsertAccount(c) \/ AuthorizeAccount(c) \/ LookUpAccount(c)
  \/ UpdateAccount(c) \/ DeleteAccount(c)

\* Every call has been answered.
Quiescent == (\A c \in Calls : pc[c] = "done") /\ UNCHANGED vars

Next == \/ \E c \in Calls : Receive(c) \/ Step(c) \/ Fail(c)
        \/ Quiescent

\* The server keeps executing a handler it has entered.
Fairness == \A c \in Calls : WF_vars(Step(c))

Spec     == Init /\ [][Next]_vars
FairSpec == Spec /\ Fairness

-----------------------------------------------------------------------------
(* Invariants.                                                             *)

\* The type of every variable.
TypeOK ==
  /\ DOMAIN accounts \subseteq AccountIds
  /\ accounts \in [DOMAIN accounts -> Account]
  /\ transfers \subseteq Transfer
  /\ entries \subseteq Entry
  /\ nextId \in 1..MaxAccountId + 1
  /\ req \in [Calls -> Requests]
  /\ pc \in [Calls -> PC]
  /\ seen \in [Calls -> Int64]
  /\ cents \in [Calls -> Int64]
  /\ newTransfers \in [Calls -> SUBSET Transfer]
  /\ newEntries \in [Calls -> SUBSET Entry]
  /\ DOMAIN newBalances = Calls
  /\ \A c \in Calls : /\ Updated(c) \subseteq AccountIds
                       /\ newBalances[c] \in [Updated(c) -> Int64]
  /\ resp \in [Calls -> Codes \cup {"none"}]

\* The two entries TransferTx writes for transfer t.
EntriesOf(t) ==
  {[transfer |-> t.id, account |-> t.from, amount |-> Neg(t.amount)],
   [transfer |-> t.id, account |-> t.to, amount |-> t.amount]}

\* Double entry: the entries are exactly the debit and the credit of the
\* recorded transfers, whatever statement of whatever TransferTx failed.
DoubleEntry == entries = UNION {EntriesOf(t) : t \in transfers}

\* No committed or pending movement refers to an account that is gone: the
\* DELETE of DeleteAccount waits for the transfers that name the account and
\* is refused once they are committed.
NoDanglingMovement ==
  /\ \A t \in transfers : {t.from, t.to} \subseteq DOMAIN accounts
  /\ \A e \in entries : e.account \in DOMAIN accounts
  /\ \A c \in Calls : KeyShared(c) \subseteq DOMAIN accounts

\* What CreateTransfer checked before its transaction still holds of every
\* recorded transfer, though accounts may be deleted and opened in between.
TransferAuthorized ==
  \A t \in transfers :
    LET r == req[t.id]
    IN  /\ r.op = "CreateTransfer"
        /\ t.from = r.from /\ t.to = r.to /\ t.from # t.to
        /\ t.amount \in FloatToCents(r.amount)
        /\ {t.from, t.to} \subseteq DOMAIN accounts
        /\ accounts[t.from].owner = r.caller
        /\ accounts[t.from].currency = r.currency
        /\ accounts[t.to].currency = r.currency

\* An acknowledged transfer is recorded, exactly once; a transfer that is
\* refused, or not yet answered, is not.  (Internal may mean either.)
AnswersHonest ==
  \A c \in Calls : req[c].op = "CreateTransfer" =>
    LET recorded == {t \in transfers : t.id = c}
    IN  /\ resp[c] = "OK" => Cardinality(recorded) = 1
        /\ resp[c] \notin {"OK", "Internal"} => recorded = {}

\* A transaction's pending balance of an account is the committed balance
\* plus its own pending entry: no update made since is lost by its commit.
NoLostUpdate ==
  \A c \in Calls : \A a \in Updated(c) :
    \E e \in newEntries[c] :
       e.account = a /\ newBalances[c][a] = accounts[a].balance + e.amount

\* README: one account per currency per user.
OneAccountPerCurrency == DistinctKeys(accounts)

\* The calls whose locks c's next statement waits for.
Blockers(c) ==
  IF pc[c] = "add1" THEN UpdateBlockers(c, FirstUpdate(c).account)
  ELSE IF pc[c] = "add2" THEN UpdateBlockers(c, SecondUpdate(c).account)
  ELSE IF pc[c] = "update" THEN UpdateBlockers(c, req[c].id)
  ELSE IF pc[c] = "delete" THEN DeleteBlockers(c, req[c].id)
  ELSE {}

\* The transfers are deadlock-safe: in every group of calls one waits for no
\* other of the group, so PostgreSQL never finds a cycle to break.
NoDeadlock ==
  \A S \in SUBSET Calls :
    S # {} => \E c \in S : Blockers(c) \cap S = {}

\* The sum of a set of entries.
Amounts(S) == MapThenSumSet(LAMBDA e : e.amount, S)

\* The balance of an account is what it started with plus its entries, when
\* nobody is about to overwrite it.
Reconciled ==
  \A a \in DOMAIN accounts :
    (\A c \in Calls : req[c].op = "UpdateAccount" => req[c].id # a) =>
      accounts[a].balance =
        (IF a \in DOMAIN InitAccounts THEN InitAccounts[a].balance ELSE 0)
        + Amounts({e \in entries : e.account = a})

-----------------------------------------------------------------------------
(* Action properties, liveness and refinement.                             *)

\* A committed transfer leaves its source overdrawn only if the balance is no
\* longer the one CreateTransfer compared with the amount, or the amount did
\* not survive its conversion to cents.
OverdraftOnlyByRace ==
  [][\A t \in transfers' \ transfers :
       (accounts'[t.from].balance < 0 /\ t.amount # MinInt)
         => accounts[t.from].balance # seen[t.id]]_vars

\* Every request that arrives is answered: no handler waits for a lock forever.
EveryCallAnswered ==
  \A c \in Calls : pc[c] # "idle" ~> pc[c] = "done"

\* The handlers implement the abstract ledger: in particular a transfer takes
\* effect in one step, on the balances of that moment.
L == INSTANCE Ledger WITH TransferIds <- Calls
LedgerSpec == L!Spec

-----------------------------------------------------------------------------
(* What the documentation says and the code does not keep.                 *)

\* service_go_bank.proto: a transfer with insufficient balance is refused.
\* So no account is overdrawn when all balances start at zero or above.
NoOverdraft == \A a \in DOMAIN accounts : accounts[a].balance >= 0

\* transfers.amount "must be +ve".
AmountPositive == \A t \in transfers : t.amount > 0
=============================================================================
