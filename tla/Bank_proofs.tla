---------------------------- MODULE Bank_proofs -----------------------------
(***************************************************************************)
(* Proofs about Bank, for any number of calls, accounts, users, currencies *)
(* and requests and any width of integers.                                 *)
(***************************************************************************)
EXTENDS Bank, Sums, WellFoundedInduction, TLAPS

-----------------------------------------------------------------------------
(* The inductive invariant.                                                *)

\* The rows TransferTx writes on behalf of call c.
TransferOf(c) == [id |-> c, from |-> req[c].from, to |-> req[c].to,
                  amount |-> cents[c]]
DebitOf(c)    == [transfer |-> c, account |-> req[c].from,
                  amount |-> Neg(cents[c])]
CreditOf(c)   == [transfer |-> c, account |-> req[c].to, amount |-> cents[c]]

\* What the transaction of call c adds to account a.
Delta(c, a) == IF a = req[c].from THEN Neg(cents[c]) ELSE cents[c]

HoldsRows == {"fromEntry", "toEntry", "add1", "add2", "commit"}

\* The checks CreateTransfer has passed remain true while the account exists,
\* because ids are not used again.
CheckedFrom(c) ==
  LET r == req[c]
  IN  /\ r.op = "CreateTransfer"
      /\ validateCreateTransferRequest(r)
      /\ r.from \in 1..(nextId - 1)
      /\ r.from \in DOMAIN accounts => /\ accounts[r.from].owner = r.caller
                                       /\ accounts[r.from].currency = r.currency
CheckedTo(c) ==
  LET r == req[c]
  IN  /\ r.to \in 1..(nextId - 1)
      /\ r.to \in DOMAIN accounts => accounts[r.to].currency = r.currency
      /\ cents[c] \in FloatToCents(r.amount)
      /\ ~Insufficient(seen[c], cents[c])

\* What each handler knows at each of its steps.
Progress(c) ==
  /\ pc[c] = "checkFrom" => /\ req[c].op = "CreateTransfer"
                            /\ validateCreateTransferRequest(req[c])
  /\ pc[c] = "insertAccount" => /\ req[c].op = "CreateAccount"
                                /\ req[c].currency \in Currencies
  /\ pc[c] \in {"authorize", "lookUp", "update", "delete"} =>
        req[c].op \in IdOps \cup UpdateOps
  /\ pc[c] = "update" => req[c].op = "UpdateAccount"
  /\ pc[c] \in TxPC \cup {"checkTo"} => CheckedFrom(c)
  /\ pc[c] \in TxPC => CheckedTo(c)
  /\ pc[c] # "done" => resp[c] = "none"

NoTx(c) == newTransfers[c] = {} /\ newEntries[c] = {} /\ Updated(c) = {}

\* The uncommitted writes of call c.
Pending(c) ==
  /\ pc[c] \notin HoldsRows \cup {"rollback"} => NoTx(c)
  /\ pc[c] \in HoldsRows => newTransfers[c] = {TransferOf(c)}
  /\ pc[c] = "fromEntry" => newEntries[c] = {}
  /\ pc[c] = "toEntry" => newEntries[c] = {DebitOf(c)}
  /\ pc[c] \in {"add1", "add2", "commit"} =>
        newEntries[c] = {DebitOf(c), CreditOf(c)}
  /\ pc[c] \in {"fromEntry", "toEntry", "add1"} => Updated(c) = {}
  /\ pc[c] = "add2" => Updated(c) = {FirstUpdate(c).account}
  /\ pc[c] = "commit" => Updated(c) = {req[c].from, req[c].to}
  /\ pc[c] = "rollback" =>
        /\ newTransfers[c] \subseteq {TransferOf(c)}
        /\ newEntries[c] \subseteq {DebitOf(c), CreditOf(c)}
        /\ Updated(c) # {} => newEntries[c] = {DebitOf(c), CreditOf(c)}

\* The rows a transaction has locked exist, and a balance it has updated is
\* the committed one plus its own movement.
Locked(c) ==
  /\ KeyShared(c) \subseteq DOMAIN accounts
  /\ \A a \in Updated(c) :
        /\ a \in {req[c].from, req[c].to}
        /\ a \in DOMAIN accounts
        /\ newBalances[c][a] = accounts[a].balance + Delta(c, a)

\* Two transactions never hold the same row's update lock.
Exclusive == \A c, d \in Calls : c # d => Updated(c) \cap Updated(d) = {}

\* Each recorded transfer is the one its call made, with that call answered.
Recorded ==
  \A t \in transfers :
    /\ t = TransferOf(t.id)
    /\ pc[t.id] = "done"
    /\ resp[t.id] \in {"OK", "Internal"}
    /\ CheckedFrom(t.id)
    /\ CheckedTo(t.id)
    /\ {t.from, t.to} \subseteq DOMAIN accounts

Acknowledged ==
  \A c \in Calls : (req[c].op = "CreateTransfer" /\ resp[c] = "OK")
                      => TransferOf(c) \in transfers

IInv ==
  /\ TypeOK
  /\ DOMAIN accounts \subseteq 1..(nextId - 1)
  /\ DistinctKeys(accounts)
  /\ \A c \in Calls : Progress(c) /\ Pending(c) /\ Locked(c)
  /\ Exclusive
  /\ Recorded
  /\ DoubleEntry
  /\ Acknowledged

-----------------------------------------------------------------------------
(* Arithmetic and the shape of requests.                                   *)

\* Negation stays within the 64 bits.
LEMMA NegType == ASSUME NEW x \in Int64 PROVE Neg(x) \in Int64
  BY MoneyAssumption DEF Neg, Int64, MinInt

\* Whatever FloatToCents makes of an amount is an int64.
LEMMA CentsType == ASSUME NEW x \in Float PROVE FloatToCents(x) \subseteq Int64
  BY MoneyAssumption DEF FloatToCents, Int64, MinInt

\* The fields a request has.
LEMMA RequestType ==
  ASSUME NEW r \in Requests
  PROVE  /\ r.caller \in Users
         /\ r.op = "CreateTransfer" =>
               r.from \in Int /\ r.to \in Int /\ r.amount \in Float
         /\ r.op = "UpdateAccount" => r.id \in Int /\ r.balance \in Float
         /\ r.op \in IdOps => r.id \in Int
  BY BankAssumption
  DEF IsRequest, TransferOps, OpenOps, UpdateOps, IdOps

-----------------------------------------------------------------------------
(* A step of one call that leaves the tables alone disturbs no other call. *)

OthersUntouched(c) ==
  \A d \in Calls \ {c} :
    /\ pc'[d] = pc[d] /\ resp'[d] = resp[d]
    /\ seen'[d] = seen[d] /\ cents'[d] = cents[d]
    /\ newTransfers'[d] = newTransfers[d] /\ newEntries'[d] = newEntries[d]
    /\ newBalances'[d] = newBalances[d]

\* A step of one call that leaves the tables and the other calls alone
\* preserves the invariant if it preserves what it says of that call.
LEMMA LocalStep ==
  ASSUME IInv, NEW c \in Calls, pc[c] # "done",
         UNCHANGED <<db, nextId, req>>,
         OthersUntouched(c),
         TypeOK', Progress(c)', Pending(c)', Locked(c)',
         \A d \in Calls \ {c} : Updated(c)' \cap Updated(d) = {},
         resp'[c] = "OK" => req[c].op # "CreateTransfer"
  PROVE  IInv'
<1>1. /\ accounts' = accounts /\ transfers' = transfers /\ entries' = entries
      /\ nextId' = nextId /\ req' = req
  BY DEF db
<1>2. ASSUME NEW d \in Calls, d # c
      PROVE  Progress(d)' /\ Pending(d)' /\ Locked(d)'
  <2>1. Progress(d) /\ Pending(d) /\ Locked(d)
    BY DEF IInv
  <2>2. /\ pc'[d] = pc[d] /\ resp'[d] = resp[d]
        /\ seen'[d] = seen[d] /\ cents'[d] = cents[d]
        /\ newTransfers'[d] = newTransfers[d] /\ newEntries'[d] = newEntries[d]
        /\ newBalances'[d] = newBalances[d]
    BY <1>2 DEF OthersUntouched
  <2>3. Progress(d)'
    BY <1>1, <2>1, <2>2 DEF Progress, CheckedFrom, CheckedTo
  <2>4. Pending(d)'
    BY <1>1, <2>1, <2>2
    DEF Pending, NoTx, TransferOf, DebitOf, CreditOf, Updated, FirstUpdate, FromFirst, Debit, Credit
  <2>5. Locked(d)'
    BY <1>1, <2>1, <2>2 DEF Locked, KeyShared, Updated, Delta
  <2> QED BY <2>3, <2>4, <2>5
<1>3. \A d \in Calls : Progress(d)' /\ Pending(d)' /\ Locked(d)'
  BY <1>2
<1>4. Exclusive'
  BY DEF IInv, Exclusive, Updated, OthersUntouched
<1>5. c \notin {t.id : t \in transfers}
  BY DEF IInv, Recorded
<1>6. Recorded'
  <2> SUFFICES ASSUME NEW t \in transfers
               PROVE  /\ t = TransferOf(t.id)'
                      /\ pc'[t.id] = "done"
                      /\ resp'[t.id] \in {"OK", "Internal"}
                      /\ CheckedFrom(t.id)'
                      /\ CheckedTo(t.id)'
                      /\ {t.from, t.to} \subseteq DOMAIN accounts'
    BY <1>1 DEF Recorded
  <2>1. t.id \in Calls \ {c}
    BY <1>5 DEF IInv, TypeOK, Transfer
  <2> QED
    BY <1>1, <2>1
    DEF IInv, Recorded, TransferOf, CheckedFrom, CheckedTo, OthersUntouched
<1>7. DoubleEntry'
  BY <1>1 DEF IInv, DoubleEntry, EntriesOf
<1>8. Acknowledged'
  BY <1>1 DEF IInv, Acknowledged, TransferOf, OthersUntouched
<1> QED
  BY <1>1, <1>3, <1>4, <1>6, <1>7, <1>8 DEF IInv, DistinctKeys

\* A call outside a transaction holds nothing.
LEMMA EmptyTx ==
  ASSUME NEW c \in Calls, NoTx(c)', pc'[c] \notin HoldsRows \cup {"rollback"}
  PROVE  Pending(c)' /\ Locked(c)' /\ Updated(c)' = {}
<1>1. KeyShared(c)' = {} /\ Updated(c)' = {}
  BY DEF KeyShared, NoTx
<1>2. Locked(c)'
  BY <1>1 DEF Locked
<1>3. Pending(c)'
  BY DEF Pending, HoldsRows
<1> QED BY <1>1, <1>2, <1>3

\* A call is answered, its transaction being over, and no table changes.
LEMMA AnswerStep ==
  ASSUME IInv, NEW c \in Calls, pc[c] # "done",
         UNCHANGED <<db, nextId, req, seen, cents>>,
         NEW code \in Codes, Answer(c, code),
         code = "OK" => req[c].op # "CreateTransfer",
         \/ UNCHANGED tx /\ pc[c] \notin HoldsRows \cup {"rollback"}
         \/ EndTx(c)
  PROVE  IInv'
<1>1. pc' = [pc EXCEPT ![c] = "done"] /\ resp' = [resp EXCEPT ![c] = code]
  BY DEF Answer
<1>2. NoTx(c)' /\ OthersUntouched(c)
  <2>1. CASE UNCHANGED tx /\ pc[c] \notin HoldsRows \cup {"rollback"}
    BY <1>1, <2>1
    DEF IInv, TypeOK, Pending, NoTx, Updated, OthersUntouched, tx
  <2>2. CASE EndTx(c)
    BY <1>1, <2>2
    DEF IInv, TypeOK, EndTx, NoTx, NoBalances, Updated, OthersUntouched
  <2> QED BY <2>1, <2>2
<1>3. pc'[c] = "done"
  BY <1>1 DEF IInv, TypeOK
<1>4. Pending(c)' /\ Locked(c)' /\ Updated(c)' = {}
  BY <1>2, <1>3, EmptyTx DEF HoldsRows, NoTx, Updated, tx
<1>5. TypeOK'
  <2>1. CASE UNCHANGED tx
    BY <1>1, <2>1 DEF IInv, TypeOK, PC, db, tx, Updated
  <2>2. CASE EndTx(c)
    <3>1. /\ newTransfers' \in [Calls -> SUBSET Transfer]
          /\ newEntries' \in [Calls -> SUBSET Entry]
          /\ DOMAIN newBalances' = Calls
      BY <2>2 DEF IInv, TypeOK, EndTx
    <3>2. newBalances'[c] \in [{} -> Int64] /\ Updated(c)' = {}
      BY <2>2 DEF IInv, TypeOK, EndTx, NoBalances, Updated
    <3>3. \A d \in Calls : /\ Updated(d)' \subseteq AccountIds
                           /\ newBalances'[d] \in [Updated(d)' -> Int64]
      BY <1>2, <3>2 DEF IInv, TypeOK, OthersUntouched, Updated
    <3> QED BY <1>1, <3>1, <3>3 DEF IInv, TypeOK, PC, db
  <2> QED BY <2>1, <2>2
<1>6. Progress(c)'
  BY <1>3 DEF Progress, TxPC
<1> QED
  BY <1>1, <1>2, <1>4, <1>5, <1>6, LocalStep DEF IInv, TypeOK, OthersUntouched, tx

-----------------------------------------------------------------------------
(* Every action preserves the invariant.                                   *)

\* Validation preserves the invariant.
LEMMA ReceiveStep == ASSUME IInv, NEW c \in Calls, Receive(c) PROVE IInv'
<1> DEFINE r == req[c]
<1>1. /\ pc[c] = "idle" /\ r \in Requests
      /\ UNCHANGED <<db, nextId, req, seen, cents, tx>>
      /\ NoTx(c) /\ resp[c] = "none"
  BY DEF Receive, IInv, TypeOK, Progress, Pending, HoldsRows
<1>2. CASE Valid(r)
  <2>1. pc' = [pc EXCEPT ![c] = Entrance(r.op)] /\ resp' = resp
    BY <1>2 DEF Receive, Goto
  <2>2. /\ Entrance(r.op) \in {"checkFrom", "insertAccount", "lookUp", "authorize"}
        /\ Entrance(r.op) = "checkFrom" =>
              r.op = "CreateTransfer" /\ validateCreateTransferRequest(r)
        /\ Entrance(r.op) = "insertAccount" =>
              r.op = "CreateAccount" /\ r.currency \in Currencies
        /\ Entrance(r.op) \in {"lookUp", "authorize"} => r.op \in IdOps \cup UpdateOps
    BY <1>2 DEF Entrance, Valid, TransferOps, OpenOps, UpdateOps, IdOps, ValidateCurrency
  <2>3. TypeOK'
    BY <1>1, <2>1, <2>2 DEF IInv, TypeOK, PC, db, tx, Updated
  <2>4. pc'[c] = Entrance(r.op)
    BY <2>1 DEF IInv, TypeOK
  <2>5. Progress(c)'
    BY <1>1, <2>1, <2>2, <2>4 DEF Progress, TxPC
  <2>6. Pending(c)' /\ Locked(c)' /\ Updated(c)' = {}
    BY <1>1, <2>2, <2>4, EmptyTx DEF HoldsRows, NoTx, Updated, tx
  <2> QED
    BY <1>1, <2>1, <2>3, <2>5, <2>6, LocalStep DEF IInv, TypeOK, OthersUntouched, tx
<1>3. CASE ~Valid(r)
  BY <1>1, <1>3, AnswerStep DEF Receive, Codes, HoldsRows
<1> QED BY <1>2, <1>3

\* So do the checks of CreateTransfer on the source account ...
LEMMA CheckFromStep ==
  ASSUME IInv, NEW c \in Calls, CheckFromAccount(c) PROVE IInv'
<1> DEFINE r == req[c]
<1>1. /\ pc[c] = "checkFrom" /\ r \in Requests
      /\ UNCHANGED <<db, nextId, req, cents, tx>>
      /\ NoTx(c) /\ resp[c] = "none"
      /\ r.op = "CreateTransfer" /\ validateCreateTransferRequest(r)
  BY DEF CheckFromAccount, IInv, TypeOK, Progress, Pending, HoldsRows
<1>2. CASE \E code \in {"NotFound", "InvalidArgument", "PermissionDenied"} :
             Answer(c, code) /\ seen' = seen
  BY <1>1, <1>2, AnswerStep DEF Codes, HoldsRows
<1>3. CASE /\ r.from \in DOMAIN accounts
           /\ accounts[r.from].currency = r.currency
           /\ accounts[r.from].owner = r.caller
           /\ seen' = [seen EXCEPT ![c] = accounts[r.from].balance]
           /\ Goto(c, "checkTo")
  <2>1. pc' = [pc EXCEPT ![c] = "checkTo"] /\ resp' = resp
    BY <1>3 DEF Goto
  <2>2. TypeOK'
    BY <1>1, <1>3, <2>1 DEF IInv, TypeOK, PC, Account, db, tx, Updated
  <2>3. CheckedFrom(c)'
    BY <1>1, <1>3 DEF CheckedFrom, IInv, db
  <2>4. pc'[c] = "checkTo"
    BY <2>1 DEF IInv, TypeOK
  <2>5. Progress(c)'
    BY <1>1, <2>1, <2>3, <2>4 DEF Progress, TxPC
  <2>6. Pending(c)' /\ Locked(c)' /\ Updated(c)' = {}
    BY <1>1, <2>4, EmptyTx DEF HoldsRows, NoTx, Updated, tx
  <2> QED
    BY <1>1, <1>3, <2>1, <2>2, <2>5, <2>6, LocalStep
    DEF IInv, TypeOK, OthersUntouched, tx
<1> QED BY <1>2, <1>3 DEF CheckFromAccount, validateTransferAccount, Found

\* ... and on the destination and the balance.
LEMMA CheckToStep ==
  ASSUME IInv, NEW c \in Calls, CheckToAccount(c) PROVE IInv'
<1> DEFINE r == req[c]
<1>1. /\ pc[c] = "checkTo" /\ r \in Requests
      /\ UNCHANGED <<db, nextId, req, seen, tx>>
      /\ NoTx(c) /\ resp[c] = "none"
      /\ r.op = "CreateTransfer" /\ CheckedFrom(c)
  BY DEF CheckToAccount, IInv, TypeOK, Progress, CheckedFrom, Pending, HoldsRows
<1>2. CASE \E code \in {"NotFound", "InvalidArgument", "FailedPrecondition"} :
             Answer(c, code) /\ cents' = cents
  BY <1>1, <1>2, AnswerStep DEF Codes, HoldsRows
<1>3. ASSUME NEW n \in FloatToCents(r.amount),
             r.to \in DOMAIN accounts,
             accounts[r.to].currency = r.currency,
             cents' = [cents EXCEPT ![c] = n],
             ~Insufficient(seen[c], n),
             Goto(c, "insertTransfer")
      PROVE  IInv'
  <2>1. pc' = [pc EXCEPT ![c] = "insertTransfer"] /\ resp' = resp
    BY <1>3 DEF Goto
  <2>2. n \in Int64
    BY <1>1, <1>3, RequestType, CentsType
  <2>3. TypeOK'
    BY <1>1, <1>3, <2>1, <2>2 DEF IInv, TypeOK, PC, TxPC, db, tx, Updated
  <2>4. CheckedFrom(c)' /\ CheckedTo(c)'
    BY <1>1, <1>3 DEF CheckedFrom, CheckedTo, IInv, TypeOK, db
  <2>5. pc'[c] = "insertTransfer"
    BY <2>1 DEF IInv, TypeOK
  <2>6. Progress(c)'
    BY <1>1, <2>1, <2>4, <2>5 DEF Progress, TxPC
  <2>7. Pending(c)' /\ Locked(c)' /\ Updated(c)' = {}
    BY <1>1, <2>5, EmptyTx DEF HoldsRows, NoTx, Updated, tx
  <2> QED
    BY <1>1, <1>3, <2>1, <2>3, <2>6, <2>7, LocalStep DEF IInv, TypeOK, OthersUntouched, tx
<1> QED BY <1>2, <1>3 DEF CheckToAccount, validateTransferAccount, Found

\* A statement of the transaction fails: its locks are kept.
LEMMA AbortStep ==
  ASSUME IInv, NEW c \in Calls, pc[c] \in HoldsRows \cup {"insertTransfer"},
         UNCHANGED <<db, nextId, req, seen, cents, tx>>, Goto(c, "rollback")
  PROVE  IInv'
<1>1. pc' = [pc EXCEPT ![c] = "rollback"] /\ resp' = resp /\ pc'[c] = "rollback"
  BY DEF Goto, IInv, TypeOK
<1>2. Progress(c) /\ Pending(c) /\ Locked(c)
  BY DEF IInv
<1>3. TypeOK'
  BY <1>1 DEF IInv, TypeOK, PC, TxPC, db, tx, Updated
<1>4. Progress(c)'
  BY <1>1, <1>2 DEF Progress, TxPC, HoldsRows, CheckedFrom, CheckedTo, db
<1>5. Locked(c)'
  BY <1>2 DEF Locked, KeyShared, Updated, Delta, db, tx
<1>6. Pending(c)'
  <2>1. CASE pc[c] = "insertTransfer"
    BY <1>1, <1>2, <2>1 DEF Pending, NoTx, HoldsRows, Updated, tx
  <2>2. CASE pc[c] \in HoldsRows
    BY <1>1, <1>2, <2>2
    DEF Pending, HoldsRows, Updated, TransferOf, DebitOf, CreditOf, tx
  <2> QED BY <2>1, <2>2
<1>7. \A d \in Calls \ {c} : Updated(c)' \cap Updated(d) = {}
  BY DEF IInv, Exclusive, Updated, tx
<1>8. OthersUntouched(c) /\ pc[c] # "done" /\ resp'[c] # "OK"
  BY <1>1, <1>2 DEF OthersUntouched, IInv, TypeOK, tx, Progress, HoldsRows
<1> QED
  BY <1>1, <1>3, <1>4, <1>5, <1>6, <1>7, <1>8, LocalStep

\* The INSERT of the transfer preserves the invariant.
LEMMA InsertTransferStep ==
  ASSUME IInv, NEW c \in Calls, InsertTransfer(c) PROVE IInv'
<1> DEFINE r == req[c]
<1>1. /\ pc[c] = "insertTransfer" /\ r \in Requests
      /\ UNCHANGED <<db, nextId, req, seen, cents, newEntries, newBalances>>
      /\ NoTx(c) /\ resp[c] = "none"
      /\ r.op = "CreateTransfer" /\ CheckedFrom(c) /\ CheckedTo(c)
      /\ cents[c] \in Int64
  BY DEF InsertTransfer, IInv, TypeOK, Progress, CheckedFrom, TxPC, Pending, HoldsRows
<1>2. CASE Goto(c, "rollback") /\ newTransfers' = newTransfers
  BY <1>1, <1>2, AbortStep DEF tx
<1>3. CASE /\ {r.from, r.to} \subseteq DOMAIN accounts
           /\ newTransfers' = [newTransfers EXCEPT ![c] = {TransferOf(c)}]
           /\ Goto(c, "fromEntry")
  <2>1. pc' = [pc EXCEPT ![c] = "fromEntry"] /\ resp' = resp /\ pc'[c] = "fromEntry"
    BY <1>3 DEF Goto, IInv, TypeOK
  <2>2. TransferOf(c) \in Transfer
    BY <1>1, <1>3 DEF TransferOf, Transfer, IInv, TypeOK
  <2>3. /\ newTransfers'[c] = {TransferOf(c)} /\ newEntries'[c] = {}
        /\ OthersUntouched(c)
    BY <1>1, <1>3, <2>1 DEF NoTx, IInv, TypeOK, OthersUntouched
  <2>4. TypeOK'
    BY <1>1, <1>3, <2>1, <2>2 DEF IInv, TypeOK, PC, TxPC, db, Updated
  <2>5. Progress(c)'
    BY <1>1, <2>1 DEF Progress, TxPC, CheckedFrom, CheckedTo, db
  <2>6. Updated(c)' = {} /\ KeyShared(c)' = {r.from, r.to}
    BY <1>1, <2>3 DEF Updated, KeyShared, TransferOf, NoTx
  <2>7. Locked(c)'
    BY <1>1, <1>3, <2>6 DEF Locked, db
  <2>8. Pending(c)'
    BY <1>1, <2>1, <2>3, <2>6 DEF Pending, HoldsRows, TransferOf
  <2> QED
    BY <1>1, <2>1, <2>3, <2>4, <2>5, <2>6, <2>7, <2>8, LocalStep
<1> QED BY <1>2, <1>3 DEF InsertTransfer, TransferOf

\* So does each INSERT of an entry ...
LEMMA InsertEntryStep ==
  ASSUME IInv, NEW c \in Calls, InsertFromEntry(c) \/ InsertToEntry(c)
  PROVE  IInv'
<1> DEFINE r == req[c]
<1>1. /\ pc[c] \in {"fromEntry", "toEntry"} /\ r \in Requests
      /\ UNCHANGED <<db, nextId, req, seen, cents, newTransfers, newBalances>>
      /\ resp[c] = "none" /\ Pending(c) /\ Locked(c)
      /\ CheckedFrom(c) /\ CheckedTo(c)
      /\ cents[c] \in Int64
      /\ nextId \in 1..MaxAccountId + 1
  BY DEF InsertFromEntry, InsertToEntry, CreateTransferEntry, IInv, TypeOK, Progress, TxPC
<1>2. r.from \in AccountIds /\ r.to \in AccountIds
  BY <1>1, BankAssumption DEF CheckedFrom, CheckedTo, AccountIds
<1>3. DebitOf(c) \in Entry /\ CreditOf(c) \in Entry
  BY <1>1, <1>2, NegType DEF DebitOf, CreditOf, Entry
<1>4. /\ newTransfers[c] = {TransferOf(c)} /\ Updated(c) = {}
      /\ pc[c] = "fromEntry" => newEntries[c] = {}
      /\ pc[c] = "toEntry" => newEntries[c] = {DebitOf(c)}
  BY <1>1 DEF Pending, HoldsRows
<1>5. {r.from, r.to} \subseteq DOMAIN accounts
  BY <1>1, <1>4 DEF Locked, KeyShared, TransferOf
<1>6. PICK e \in {DebitOf(c), CreditOf(c)}, next \in {"toEntry", "add1"} :
         /\ newEntries' = [newEntries EXCEPT ![c] = @ \cup {e}]
         /\ pc' = [pc EXCEPT ![c] = next] /\ resp' = resp
         /\ next = "toEntry" => pc[c] = "fromEntry" /\ e = DebitOf(c)
         /\ next = "add1" => pc[c] = "toEntry" /\ e = CreditOf(c)
  BY DEF InsertFromEntry, InsertToEntry, CreateTransferEntry, Goto, DebitOf, CreditOf
<1>7. pc'[c] = next
  BY <1>6 DEF IInv, TypeOK
<1>8. newEntries'[c] = newEntries[c] \cup {e} /\ OthersUntouched(c)
  BY <1>1, <1>6 DEF IInv, TypeOK, OthersUntouched
<1>9. TypeOK'
  BY <1>1, <1>3, <1>6 DEF IInv, TypeOK, PC, TxPC, db, Updated
<1>10. Progress(c)'
  BY <1>1, <1>6, <1>7 DEF Progress, TxPC, CheckedFrom, CheckedTo, db
<1>11. Updated(c)' = {} /\ KeyShared(c)' = {r.from, r.to}
  BY <1>1, <1>4, <1>6, <1>8 DEF Updated, KeyShared, TransferOf, DebitOf, CreditOf
<1>12. Locked(c)'
  BY <1>1, <1>5, <1>11 DEF Locked, db
<1>13. Pending(c)'
  BY <1>1, <1>4, <1>6, <1>7, <1>8, <1>11
  DEF Pending, HoldsRows, TransferOf, DebitOf, CreditOf
<1> QED
  BY <1>1, <1>6, <1>8, <1>9, <1>10, <1>11, <1>12, <1>13, LocalStep

\* ... and each AddAccountBalance, which locks and adds to a current row.
LEMMA AddBalanceStep ==
  ASSUME IInv, NEW c \in Calls, AddFirst(c) \/ AddSecond(c)
  PROVE  IInv'
<1> DEFINE r == req[c]
           u == IF pc[c] = "add1" THEN FirstUpdate(c) ELSE SecondUpdate(c)
           a == u.account
           sum == accounts[a].balance + u.amount
           next == IF pc[c] = "add1" THEN "add2" ELSE "commit"
<1>1. /\ pc[c] \in {"add1", "add2"} /\ r \in Requests
      /\ UNCHANGED <<db, nextId, req, seen, cents, newTransfers, newEntries>>
      /\ resp[c] = "none" /\ Pending(c) /\ Locked(c)
      /\ CheckedFrom(c) /\ CheckedTo(c)
      /\ cents[c] \in Int64
      /\ UpdateBlockers(c, a) = {}
  BY DEF AddFirst, AddSecond, AddAccountBalance, Added, IInv, TypeOK, Progress, TxPC
<1>2. r.from \in Int /\ r.to \in Int /\ r.from # r.to
  BY <1>1 DEF CheckedFrom, CheckedTo, validateCreateTransferRequest
<1>3. a \in {r.from, r.to} /\ u.amount = Delta(c, a)
  BY <1>1, <1>2 DEF FirstUpdate, FromFirst, SecondUpdate, Debit, Credit, Delta
<1>4. /\ newTransfers[c] = {TransferOf(c)}
      /\ newEntries[c] = {DebitOf(c), CreditOf(c)}
      /\ pc[c] = "add1" => Updated(c) = {}
      /\ pc[c] = "add2" => Updated(c) = {FirstUpdate(c).account}
  BY <1>1 DEF Pending, HoldsRows
<1>5. CASE Goto(c, "rollback") /\ newBalances' = newBalances
  BY <1>1, <1>5, AbortStep DEF HoldsRows, tx
<1>6. CASE /\ a \in DOMAIN accounts /\ sum \in Int64
           /\ newBalances' = [newBalances EXCEPT ![c] =
                [b \in Updated(c) \cup {a} |->
                   IF b = a THEN sum ELSE newBalances[c][b]]]
           /\ Goto(c, next)
  <2>1. pc' = [pc EXCEPT ![c] = next] /\ resp' = resp /\ pc'[c] = next
    BY <1>6 DEF Goto, IInv, TypeOK
  <2>2. /\ DOMAIN newBalances' = Calls
        /\ newBalances'[c] = [b \in Updated(c) \cup {a} |->
                                IF b = a THEN sum ELSE newBalances[c][b]]
        /\ \A d \in Calls \ {c} : newBalances'[d] = newBalances[d]
    BY <1>6 DEF IInv, TypeOK
  <2>3. /\ Updated(c)' = Updated(c) \cup {a} /\ KeyShared(c)' = KeyShared(c)
        /\ Updated(c) \subseteq AccountIds /\ a \in AccountIds
        /\ \A b \in Updated(c) : newBalances[c][b] \in Int64
    BY <1>1, <1>6, <2>2 DEF Updated, KeyShared, IInv, TypeOK
  <2>4. newBalances'[c] \in [Updated(c)' -> Int64]
    BY <1>6, <2>2, <2>3
  <2>5. OthersUntouched(c)
    BY <1>1, <2>1, <2>2 DEF OthersUntouched, IInv, TypeOK
  <2>6. TypeOK'
    BY <1>1, <2>1, <2>2, <2>3, <2>4 DEF IInv, TypeOK, PC, TxPC, db, Updated
  <2>7. Progress(c)'
    BY <1>1, <2>1 DEF Progress, TxPC, CheckedFrom, CheckedTo, db
  <2>8. Locked(c)'
    BY <1>1, <1>3, <1>6, <2>2, <2>3 DEF Locked, Delta, db, Updated
  <2>9. Pending(c)'
    <3>1. /\ newTransfers'[c] = {TransferOf(c)'}
          /\ newEntries'[c] = {DebitOf(c)', CreditOf(c)'}
      BY <1>1, <1>4 DEF TransferOf, DebitOf, CreditOf
    <3>2. pc[c] = "add1" => /\ pc'[c] = "add2"
                            /\ Updated(c)' = {FirstUpdate(c)'.account}
      BY <1>1, <1>4, <2>1, <2>3 DEF FirstUpdate, FromFirst, Debit, Credit
    <3>3. pc[c] = "add2" => /\ pc'[c] = "commit"
                            /\ Updated(c)' = {req'[c].from, req'[c].to}
      <4>1. pc[c] = "add2" =>
              {FirstUpdate(c).account, SecondUpdate(c).account} = {r.from, r.to}
        BY DEF FirstUpdate, SecondUpdate, Debit, Credit
      <4> QED BY <1>1, <1>4, <2>1, <2>3, <4>1
    <3> QED BY <1>1, <3>1, <3>2, <3>3 DEF Pending, HoldsRows
  <2>10. \A d \in Calls \ {c} : Updated(c)' \cap Updated(d) = {}
    BY <1>1, <2>3 DEF UpdateBlockers, IInv, Exclusive
  <2> QED
    BY <1>1, <2>1, <2>5, <2>6, <2>7, <2>8, <2>9, <2>10, LocalStep
<1> QED
  BY <1>5, <1>6 DEF AddFirst, AddSecond, AddAccountBalance, Added

\* A call outside a transaction changes accounts, and is answered: it disturbs
\* no transaction if it gives no id again and spares the rows they have locked
\* and the accounts with movements.
LEMMA AccountStep ==
  ASSUME IInv, NEW c \in Calls, pc[c] \in {"insertAccount", "update", "delete"},
         UNCHANGED <<transfers, entries, req, seen, cents, tx>>,
         NEW code \in Codes, Answer(c, code),
         accounts' \in [DOMAIN accounts' -> Account],
         DOMAIN accounts' \subseteq AccountIds \cap 1..(nextId' - 1),
         nextId' \in 1..MaxAccountId + 1, nextId <= nextId',
         DistinctKeys(accounts'),
         \A a \in DOMAIN accounts' : a < nextId =>
            /\ a \in DOMAIN accounts
            /\ accounts'[a].owner = accounts[a].owner
            /\ accounts'[a].currency = accounts[a].currency,
         \A d \in Calls : KeyShared(d) \subseteq DOMAIN accounts',
         \A d \in Calls : \A a \in Updated(d) :
            a \in DOMAIN accounts' /\ accounts'[a].balance = accounts[a].balance,
         \A t \in transfers : {t.from, t.to} \subseteq DOMAIN accounts'
  PROVE  IInv'
<1>1. /\ pc' = [pc EXCEPT ![c] = "done"] /\ resp' = [resp EXCEPT ![c] = code]
      /\ pc'[c] = "done" /\ resp'[c] = code
      /\ \A d \in Calls \ {c} : pc'[d] = pc[d] /\ resp'[d] = resp[d]
  BY DEF Answer, IInv, TypeOK
<1>2. /\ newTransfers' = newTransfers /\ newEntries' = newEntries
      /\ newBalances' = newBalances /\ transfers' = transfers
      /\ entries' = entries /\ req' = req /\ cents' = cents /\ seen' = seen
  BY DEF tx
<1>3. TypeOK'
  BY <1>1, <1>2 DEF IInv, TypeOK, PC, Updated
<1>4. \A d \in Calls : CheckedFrom(d) => CheckedFrom(d)'
  BY <1>2 DEF CheckedFrom, IInv, TypeOK
<1>5. \A d \in Calls : CheckedTo(d) => CheckedTo(d)'
  BY <1>2 DEF CheckedTo, IInv, TypeOK
<1>6. NoTx(c) /\ req[c].op # "CreateTransfer"
  BY DEF IInv, Progress, Pending, HoldsRows, IdOps, UpdateOps
<1>7. ASSUME NEW d \in Calls PROVE Progress(d)'
  <2>1. CASE d = c
    BY <1>1, <2>1 DEF Progress, TxPC
  <2>2. CASE d # c
    BY <1>1, <1>2, <1>4, <1>5, <2>2 DEF Progress, IInv
  <2> QED BY <2>1, <2>2
<1>8. ASSUME NEW d \in Calls PROVE Pending(d)'
  <2>1. CASE d = c
    BY <1>1, <1>2, <1>6, <2>1 DEF Pending, NoTx, Updated, HoldsRows
  <2>2. CASE d # c
    BY <1>1, <1>2, <2>2
    DEF IInv, Pending, NoTx, TransferOf, DebitOf, CreditOf, Updated, FirstUpdate, FromFirst, Debit, Credit
  <2> QED BY <2>1, <2>2
<1>9. ASSUME NEW d \in Calls PROVE Locked(d)'
  BY <1>2 DEF IInv, Locked, KeyShared, Updated, Delta
<1>10. Exclusive' /\ DoubleEntry'
  BY <1>2 DEF IInv, Exclusive, Updated, DoubleEntry, EntriesOf
<1>11. Recorded'
  <2> SUFFICES ASSUME NEW t \in transfers
               PROVE  /\ t = TransferOf(t.id)'
                      /\ pc'[t.id] = "done"
                      /\ resp'[t.id] \in {"OK", "Internal"}
                      /\ CheckedFrom(t.id)'
                      /\ CheckedTo(t.id)'
                      /\ {t.from, t.to} \subseteq DOMAIN accounts'
    BY <1>2 DEF Recorded
  <2>1. /\ t.id \in Calls /\ t = TransferOf(t.id) /\ pc[t.id] = "done"
        /\ resp[t.id] \in {"OK", "Internal"}
        /\ CheckedFrom(t.id) /\ CheckedTo(t.id)
    BY DEF IInv, TypeOK, Transfer, Recorded
  <2>2. t.id # c
    BY <2>1
  <2> QED
    BY <1>1, <1>2, <1>4, <1>5, <2>1, <2>2 DEF TransferOf
<1>12. Acknowledged'
  BY <1>1, <1>2, <1>6 DEF IInv, Acknowledged, TransferOf
<1> QED
  BY <1>3, <1>7, <1>8, <1>9, <1>10, <1>11, <1>12 DEF IInv

\* CreateAccount adds an account nothing refers to.
LEMMA InsertAccountStep ==
  ASSUME IInv, NEW c \in Calls, InsertAccount(c) PROVE IInv'
<1> DEFINE r == req[c]
           row == [owner |-> r.caller, currency |-> r.currency, balance |-> 0]
<1>1. /\ pc[c] = "insertAccount" /\ r \in Requests
      /\ UNCHANGED <<transfers, entries, req, seen, cents, tx>>
      /\ r.op = "CreateAccount" /\ r.currency \in Currencies
      /\ nextId \in 1..MaxAccountId + 1
      /\ DOMAIN accounts \subseteq AccountIds \cap 1..(nextId - 1)
      /\ accounts \in [DOMAIN accounts -> Account]
      /\ DistinctKeys(accounts)
  BY DEF InsertAccount, KeyTaken, AddRow, IInv, TypeOK, Progress
<1>2. /\ \A d \in Calls : Locked(d)
      /\ \A t \in transfers : {t.from, t.to} \subseteq DOMAIN accounts
  BY DEF IInv, Recorded
<1>3. CASE accounts' = accounts /\ nextId' = nextId /\ Answer(c, "Internal")
  BY <1>1, <1>2, <1>3, AnswerStep DEF Codes, HoldsRows, db
<1>4. CASE /\ nextId <= MaxAccountId /\ nextId' = nextId + 1 /\ accounts' = accounts
           /\ Answer(c, "AlreadyExists")
  <2>1. nextId' \in 1..MaxAccountId + 1 /\ nextId <= nextId'
    BY <1>1, <1>4, BankAssumption
  <2>2. DOMAIN accounts' \subseteq AccountIds \cap 1..(nextId' - 1)
    BY <1>1, <1>4
  <2> QED
    BY <1>1, <1>2, <1>4, <2>1, <2>2, AccountStep DEF Codes, Locked
<1>5. CASE /\ nextId <= MaxAccountId /\ nextId' = nextId + 1
           /\ \A a \in DOMAIN accounts : \/ accounts[a].owner # r.caller
                                         \/ accounts[a].currency # r.currency
           /\ accounts' = [a \in DOMAIN accounts \cup {nextId} |->
                             IF a = nextId THEN row ELSE accounts[a]]
           /\ Done(c)
  <2>1. nextId' \in 1..MaxAccountId + 1 /\ nextId <= nextId'
    BY <1>1, <1>5, BankAssumption
  <2>2. nextId \in AccountIds /\ nextId \notin DOMAIN accounts
    BY <1>1, <1>5, BankAssumption DEF AccountIds
  <2>3. DOMAIN accounts' \subseteq AccountIds \cap 1..(nextId' - 1)
    BY <1>1, <1>5, <2>2
  <2>4. row \in Account
    BY <1>1, RequestType, MoneyAssumption DEF Account, Int64, MinInt
  <2>5. /\ accounts'[nextId] = row /\ DOMAIN accounts' = DOMAIN accounts \cup {nextId}
        /\ \A a \in DOMAIN accounts : a \in DOMAIN accounts' /\ accounts'[a] = accounts[a]
    BY <1>5, <2>2
  <2>6. accounts' \in [DOMAIN accounts' -> Account]
    BY <1>1, <1>5, <2>4
  <2>7. DistinctKeys(accounts')
    BY <1>1, <1>5, <2>5 DEF DistinctKeys
  <2>8. \A a \in DOMAIN accounts' : a < nextId =>
            /\ a \in DOMAIN accounts
            /\ accounts'[a].owner = accounts[a].owner
            /\ accounts'[a].currency = accounts[a].currency
    BY <1>1, <2>5
  <2>9. PICK code \in Codes : Answer(c, code)
    BY <1>5 DEF Done, Codes
  <2> QED
    BY <1>1, <1>2, <2>1, <2>3, <2>5, <2>6, <2>7, <2>8, <2>9, AccountStep DEF Locked
<1>6. CASE nextId > MaxAccountId
  BY <1>3, <1>6 DEF InsertAccount, KeyTaken, AddRow
<1>7. CASE ~(nextId > MaxAccountId)
  <2>1. nextId <= MaxAccountId
    BY <1>1, <1>7, BankAssumption
  <2> QED
    BY <1>4, <1>5, <1>7, <2>1 DEF InsertAccount, KeyTaken, AddRow
<1> QED BY <1>6, <1>7

\* UpdateAccount changes a balance that no transaction has locked.
LEMMA UpdateAccountStep ==
  ASSUME IInv, NEW c \in Calls, UpdateAccount(c) PROVE IInv'
<1> DEFINE r == req[c]
           a == r.id
<1>1. /\ pc[c] = "update" /\ r \in Requests /\ r.op = "UpdateAccount"
      /\ UNCHANGED <<transfers, entries, nextId, req, seen, cents, tx>>
      /\ UpdateBlockers(c, a) = {}
      /\ nextId \in 1..MaxAccountId + 1
      /\ DOMAIN accounts \subseteq AccountIds \cap 1..(nextId - 1)
      /\ accounts \in [DOMAIN accounts -> Account]
      /\ DistinctKeys(accounts) /\ NoTx(c)
  BY DEF UpdateAccount, SetBalance, IInv, TypeOK, Progress, Pending, HoldsRows
<1>2. /\ \A d \in Calls : Locked(d)
      /\ \A t \in transfers : {t.from, t.to} \subseteq DOMAIN accounts
  BY DEF IInv, Recorded
<1>3. CASE accounts' = accounts /\ Answer(c, "NotFound")
  BY <1>1, <1>3, AnswerStep DEF Codes, HoldsRows, db
<1>4. ASSUME a \in DOMAIN accounts, NEW n \in FloatToCents(r.balance),
             accounts' = [accounts EXCEPT ![a] = WithBalance(@, n)], Done(c)
      PROVE  IInv'
  <2>1. n \in Int64
    BY <1>1, <1>4, RequestType, CentsType
  <2>2. /\ DOMAIN accounts' = DOMAIN accounts
        /\ accounts'[a] = WithBalance(accounts[a], n)
        /\ \A b \in DOMAIN accounts : b # a => accounts'[b] = accounts[b]
    BY <1>1, <1>4
  <2>3. WithBalance(accounts[a], n) \in Account
    BY <1>1, <1>4, <2>1 DEF WithBalance, Account
  <2>4. accounts' \in [DOMAIN accounts' -> Account]
    BY <1>1, <1>4, <2>3
  <2>5. \A b \in DOMAIN accounts : /\ accounts'[b].owner = accounts[b].owner
                                   /\ accounts'[b].currency = accounts[b].currency
    BY <2>2 DEF WithBalance
  <2>6. DistinctKeys(accounts')
    BY <1>1, <2>2, <2>5 DEF DistinctKeys
  <2>7. \A d \in Calls : a \notin Updated(d)
    BY <1>1 DEF UpdateBlockers, NoTx
  <2>8. PICK code \in Codes : Answer(c, code)
    BY <1>4 DEF Done, Codes
  <2>9. \A d \in Calls : \A b \in Updated(d) :
            b \in DOMAIN accounts' /\ accounts'[b].balance = accounts[b].balance
    BY <1>2, <2>2, <2>7 DEF Locked
  <2>10. nextId' = nextId /\ nextId <= nextId'
    BY <1>1
  <2> QED
    BY <1>1, <1>2, <2>2, <2>4, <2>5, <2>6, <2>8, <2>9, <2>10, AccountStep DEF Locked
<1> QED BY <1>3, <1>4 DEF UpdateAccount, SetBalance

\* DeleteAccount removes an account that no transaction and no row refers to.
LEMMA DeleteAccountStep ==
  ASSUME IInv, NEW c \in Calls, DeleteAccount(c) PROVE IInv'
<1> DEFINE r == req[c]
           a == r.id
<1>1. /\ pc[c] = "delete" /\ r \in Requests
      /\ UNCHANGED <<transfers, entries, nextId, req, seen, cents, tx>>
      /\ DeleteBlockers(c, a) = {}
      /\ nextId \in 1..MaxAccountId + 1
      /\ DOMAIN accounts \subseteq AccountIds \cap 1..(nextId - 1)
      /\ accounts \in [DOMAIN accounts -> Account]
      /\ DistinctKeys(accounts) /\ NoTx(c)
  BY DEF DeleteAccount, RemoveRow, IInv, TypeOK, Progress, Pending, HoldsRows
<1>2. /\ \A d \in Calls : Locked(d)
      /\ \A t \in transfers : {t.from, t.to} \subseteq DOMAIN accounts
  BY DEF IInv, Recorded
<1>3. CASE accounts' = accounts /\ Answer(c, "Internal")
  BY <1>1, <1>3, AnswerStep DEF Codes, HoldsRows, db
<1>4. CASE /\ ~Referenced(a)
           /\ accounts' = [b \in DOMAIN accounts \ {a} |-> accounts[b]]
           /\ Done(c)
  <2>1. /\ DOMAIN accounts' = DOMAIN accounts \ {a}
        /\ \A b \in DOMAIN accounts' : accounts'[b] = accounts[b]
        /\ accounts' \in [DOMAIN accounts' -> Account]
    BY <1>1, <1>4
  <2>2. DistinctKeys(accounts')
    BY <1>1, <2>1 DEF DistinctKeys
  <2>3. \A d \in Calls : a \notin Updated(d) \cup KeyShared(d)
    BY <1>1 DEF DeleteBlockers, NoTx, KeyShared
  <2>4. \A t \in transfers : {t.from, t.to} \subseteq DOMAIN accounts'
    BY <1>2, <1>4, <2>1 DEF Referenced
  <2>5. PICK code \in Codes : Answer(c, code)
    BY <1>4 DEF Done, Codes
  <2>6. \A d \in Calls : /\ KeyShared(d) \subseteq DOMAIN accounts'
                         /\ \A b \in Updated(d) :
                              b \in DOMAIN accounts' /\ accounts'[b].balance = accounts[b].balance
    BY <1>2, <2>1, <2>3 DEF Locked
  <2>7. nextId' = nextId /\ nextId <= nextId'
    BY <1>1
  <2> QED
    BY <1>1, <2>1, <2>2, <2>4, <2>5, <2>6, <2>7, AccountStep
<1> QED BY <1>3, <1>4 DEF DeleteAccount, RemoveRow

\* What a commit makes of the tables.
LEMMA PublishEffect ==
  ASSUME IInv, NEW c \in Calls, pc[c] = "commit", Publish(c)
  PROVE  /\ transfers' = transfers \cup {TransferOf(c)}
         /\ entries' = entries \cup {DebitOf(c), CreditOf(c)}
         /\ Updated(c) = {req[c].from, req[c].to}
         /\ {req[c].from, req[c].to} \subseteq DOMAIN accounts
         /\ DOMAIN accounts' = DOMAIN accounts
         /\ \A a \in DOMAIN accounts :
               accounts'[a] = IF a \in {req[c].from, req[c].to}
                              THEN WithBalance(accounts[a],
                                        accounts[a].balance + Delta(c, a))
                              ELSE accounts[a]
         /\ \A a \in DOMAIN accounts : /\ accounts'[a].owner = accounts[a].owner
                                       /\ accounts'[a].currency = accounts[a].currency
         /\ \A a \in {req[c].from, req[c].to} :
               accounts[a].balance + Delta(c, a) \in Int64
         /\ accounts' \in [DOMAIN accounts' -> Account]
<1>1. /\ newTransfers[c] = {TransferOf(c)}
      /\ newEntries[c] = {DebitOf(c), CreditOf(c)}
      /\ Updated(c) = {req[c].from, req[c].to}
  BY DEF IInv, Pending, HoldsRows
<1>2. /\ KeyShared(c) \subseteq DOMAIN accounts
      /\ \A a \in Updated(c) : newBalances[c][a] = accounts[a].balance + Delta(c, a)
      /\ newBalances[c] \in [Updated(c) -> Int64]
      /\ accounts \in [DOMAIN accounts -> Account]
  BY DEF IInv, Locked, TypeOK
<1>3. {req[c].from, req[c].to} \subseteq DOMAIN accounts
  BY <1>1, <1>2 DEF KeyShared, TransferOf
<1>4. /\ DOMAIN accounts' = DOMAIN accounts
      /\ accounts' = [a \in DOMAIN accounts |->
                    IF a \in Updated(c)
                    THEN WithBalance(accounts[a], newBalances[c][a])
                    ELSE accounts[a]]
  BY DEF Publish
<1>5. \A a \in DOMAIN accounts : a \in Updated(c) =>
          WithBalance(accounts[a], newBalances[c][a]) \in Account
  BY <1>2 DEF WithBalance, Account
<1>6. accounts' \in [DOMAIN accounts' -> Account]
  BY <1>2, <1>4, <1>5
<1>7. \A a \in DOMAIN accounts : /\ accounts'[a].owner = accounts[a].owner
                                 /\ accounts'[a].currency = accounts[a].currency
  BY <1>4 DEF WithBalance
<1> QED
  BY <1>1, <1>2, <1>3, <1>4, <1>6, <1>7 DEF Publish

\* A commit that takes effect preserves the invariant.
LEMMA PublishStep ==
  ASSUME IInv, NEW c \in Calls, pc[c] = "commit", Publish(c), EndTx(c),
         UNCHANGED <<nextId, req, seen, cents>>,
         NEW code \in {"OK", "Internal"}, Answer(c, code)
  PROVE  IInv'
<1> DEFINE r == req[c]
<1>1. /\ pc' = [pc EXCEPT ![c] = "done"] /\ resp' = [resp EXCEPT ![c] = code]
      /\ pc'[c] = "done" /\ resp'[c] = code
      /\ \A d \in Calls \ {c} : pc'[d] = pc[d] /\ resp'[d] = resp[d]
  BY DEF Answer, IInv, TypeOK
<1>2. /\ NoTx(c)'
      /\ OthersUntouched(c)
      /\ nextId' = nextId /\ req' = req /\ cents' = cents /\ seen' = seen
  BY <1>1 DEF IInv, TypeOK, EndTx, NoTx, NoBalances, Updated, OthersUntouched
<1>3. /\ transfers' = transfers \cup {TransferOf(c)}
      /\ entries' = entries \cup {DebitOf(c), CreditOf(c)}
      /\ Updated(c) = {r.from, r.to}
      /\ {r.from, r.to} \subseteq DOMAIN accounts
      /\ DOMAIN accounts' = DOMAIN accounts
      /\ \A a \in DOMAIN accounts \ {r.from, r.to} : accounts'[a] = accounts[a]
      /\ \A a \in DOMAIN accounts : /\ accounts'[a].owner = accounts[a].owner
                                    /\ accounts'[a].currency = accounts[a].currency
      /\ accounts' \in [DOMAIN accounts' -> Account]
  BY PublishEffect
<1>4. /\ CheckedFrom(c) /\ CheckedTo(c) /\ cents[c] \in Int64
      /\ r.from \in AccountIds /\ r.to \in AccountIds
  BY <1>3 DEF IInv, TypeOK, Progress, TxPC
<1>5. TransferOf(c) \in Transfer /\ DebitOf(c) \in Entry /\ CreditOf(c) \in Entry
  BY <1>4, NegType DEF TransferOf, DebitOf, CreditOf, Transfer, Entry
<1>6. TypeOK'
  <2>1. /\ newTransfers' \in [Calls -> SUBSET Transfer]
        /\ newEntries' \in [Calls -> SUBSET Entry]
        /\ DOMAIN newBalances' = Calls
    BY DEF IInv, TypeOK, EndTx
  <2>2. newBalances'[c] \in [{} -> Int64] /\ Updated(c)' = {}
    BY DEF IInv, TypeOK, EndTx, NoBalances, Updated
  <2>3. \A d \in Calls : /\ Updated(d)' \subseteq AccountIds
                         /\ newBalances'[d] \in [Updated(d)' -> Int64]
    BY <1>2, <2>2 DEF IInv, TypeOK, OthersUntouched, Updated
  <2> QED BY <1>1, <1>2, <1>3, <1>5, <2>1, <2>3 DEF IInv, TypeOK, PC, Codes
<1>7. \A d \in Calls : /\ CheckedFrom(d) => CheckedFrom(d)'
                       /\ CheckedTo(d) => CheckedTo(d)'
  BY <1>2, <1>3 DEF CheckedFrom, CheckedTo
<1>8. ASSUME NEW d \in Calls PROVE Progress(d)'
  <2>1. CASE d = c
    BY <1>1, <2>1 DEF Progress, TxPC
  <2>2. CASE d # c
    BY <1>1, <1>2, <1>7, <2>2 DEF Progress, IInv
  <2> QED BY <2>1, <2>2
<1>9. ASSUME NEW d \in Calls PROVE Pending(d)' /\ Locked(d)'
  <2>1. CASE d = c
    BY <1>1, <1>2, <2>1, EmptyTx DEF HoldsRows
  <2>2. CASE d # c
    <3>1. /\ newTransfers'[d] = newTransfers[d] /\ newEntries'[d] = newEntries[d]
          /\ newBalances'[d] = newBalances[d] /\ pc'[d] = pc[d]
      BY <1>2, <2>2 DEF OthersUntouched
    <3>2. Pending(d)'
      BY <1>2, <3>1 DEF IInv, Pending, NoTx, TransferOf, DebitOf, CreditOf, Updated,
                        FirstUpdate, FromFirst, Debit, Credit
    <3>3. \A a \in Updated(d) : a \notin {r.from, r.to}
      BY <1>3, <2>2 DEF IInv, Exclusive
    <3>4. Locked(d)
      BY DEF IInv
    <3>5. Locked(d)'
      BY <1>2, <1>3, <3>1, <3>3, <3>4 DEF Locked, KeyShared, Updated, Delta
    <3> QED BY <3>2, <3>5
  <2> QED BY <2>1, <2>2
<1>10. Exclusive'
  BY <1>2 DEF IInv, Exclusive, OthersUntouched, NoTx, Updated
<1>11. DistinctKeys(accounts') /\ DOMAIN accounts' \subseteq 1..(nextId' - 1)
  BY <1>2, <1>3 DEF IInv, DistinctKeys
<1>12. Recorded'
  <2> SUFFICES ASSUME NEW t \in transfers'
               PROVE  /\ t = TransferOf(t.id)'
                      /\ pc'[t.id] = "done"
                      /\ resp'[t.id] \in {"OK", "Internal"}
                      /\ CheckedFrom(t.id)'
                      /\ CheckedTo(t.id)'
                      /\ {t.from, t.to} \subseteq DOMAIN accounts'
    BY DEF Recorded
  <2>1. CASE t = TransferOf(c)
    BY <1>1, <1>2, <1>3, <1>4, <1>7, <2>1 DEF TransferOf
  <2>2. CASE t \in transfers
    <3>1. /\ t.id \in Calls /\ t = TransferOf(t.id) /\ pc[t.id] = "done"
          /\ resp[t.id] \in {"OK", "Internal"}
          /\ CheckedFrom(t.id) /\ CheckedTo(t.id)
          /\ {t.from, t.to} \subseteq DOMAIN accounts
      BY <2>2 DEF IInv, TypeOK, Transfer, Recorded
    <3>2. t.id # c
      BY <3>1
    <3> QED BY <1>1, <1>2, <1>3, <1>7, <3>1, <3>2 DEF TransferOf
  <2> QED BY <1>3, <2>1, <2>2
<1>13. DoubleEntry'
  <2>1. EntriesOf(TransferOf(c)) = {DebitOf(c), CreditOf(c)}
    BY DEF EntriesOf, TransferOf, DebitOf, CreditOf
  <2>2. entries = UNION {EntriesOf(t) : t \in transfers}
    BY DEF IInv, DoubleEntry
  <2>3. UNION {EntriesOf(t) : t \in transfers \cup {TransferOf(c)}}
          = entries \cup EntriesOf(TransferOf(c))
    BY <2>2
  <2> QED BY <1>3, <2>1, <2>3 DEF DoubleEntry, EntriesOf
<1>14. Acknowledged'
  BY <1>1, <1>2, <1>3 DEF IInv, Acknowledged, TransferOf
<1> QED
  BY <1>6, <1>8, <1>9, <1>10, <1>11, <1>12, <1>13, <1>14 DEF IInv

\* So does every outcome of tx.Commit ...
LEMMA CommitStep == ASSUME IInv, NEW c \in Calls, Commit(c) PROVE IInv'
<1>1. CASE Publish(c) /\ (Answer(c, "OK") \/ Answer(c, "Internal"))
  BY <1>1, PublishStep DEF Commit
<1>2. CASE UNCHANGED db /\ Answer(c, "Internal")
  BY <1>2, AnswerStep DEF Commit, Codes
<1> QED BY <1>1, <1>2 DEF Commit

\* ... and tx.Rollback.
LEMMA RollbackStep == ASSUME IInv, NEW c \in Calls, Rollback(c) PROVE IInv'
  BY AnswerStep DEF Rollback, Codes

\* authorizeAccount and LookUpAccount: an answer, or on to the write.
LEMMA ReadStep ==
  ASSUME IInv, NEW c \in Calls, AuthorizeAccount(c) \/ LookUpAccount(c)
  PROVE  IInv'
<1> DEFINE r == req[c]
<1>1. /\ pc[c] \in {"authorize", "lookUp"}
      /\ UNCHANGED <<db, nextId, req, seen, cents, tx>>
      /\ r.op \in IdOps \cup UpdateOps
      /\ NoTx(c) /\ resp[c] = "none"
  BY DEF AuthorizeAccount, Found, LookUpAccount, IInv, Progress, Pending, HoldsRows
<1>2. CASE \E code \in {"NotFound", "PermissionDenied", "OK"} : Answer(c, code)
  BY <1>1, <1>2, AnswerStep DEF Codes, HoldsRows, IdOps, UpdateOps
<1>3. ASSUME NEW next \in {"update", "delete"}, Goto(c, next),
             next = "update" => r.op = "UpdateAccount"
      PROVE  IInv'
  <2>1. pc' = [pc EXCEPT ![c] = next] /\ resp' = resp /\ pc'[c] = next
    BY <1>3 DEF Goto, IInv, TypeOK
  <2>2. TypeOK'
    BY <1>1, <2>1 DEF IInv, TypeOK, PC, db, tx, Updated
  <2>3. Progress(c)'
    BY <1>1, <1>3, <2>1 DEF Progress, TxPC
  <2>4. Pending(c)' /\ Locked(c)' /\ Updated(c)' = {}
    BY <1>1, <2>1, EmptyTx DEF HoldsRows, NoTx, Updated, tx
  <2> QED
    BY <1>1, <2>1, <2>2, <2>3, <2>4, LocalStep DEF IInv, TypeOK, OthersUntouched, tx
<1> QED BY <1>2, <1>3 DEF AuthorizeAccount, Found, LookUpAccount

\* A statement that fails preserves the invariant.
LEMMA FailStep == ASSUME IInv, NEW c \in Calls, Fail(c) PROVE IInv'
<1>1. CASE /\ pc[c] \in {"checkFrom", "checkTo", "insertAccount", "authorize",
                         "lookUp", "update", "delete"}
           /\ Answer(c, "Internal")
  BY <1>1, AnswerStep DEF Fail, Codes, HoldsRows
<1>2. CASE /\ pc[c] \in {"insertTransfer", "fromEntry", "toEntry", "add1", "add2"}
           /\ Goto(c, "rollback")
  BY <1>2, AbortStep DEF Fail, HoldsRows
<1> QED BY <1>1, <1>2 DEF Fail

\* The invariant holds when the server starts.
LEMMA InitInv == Init => IInv
<1> SUFFICES ASSUME Init PROVE IInv
  OBVIOUS
<1>1. /\ InitAccounts \in [1..Len(InitAccounts) -> Account]
      /\ DOMAIN InitAccounts = 1..Len(InitAccounts)
      /\ Len(InitAccounts) \in Nat
      /\ Len(InitAccounts) <= MaxAccountId /\ MaxAccountId \in Nat
      /\ DistinctKeys(InitAccounts)
      /\ Scenarios \subseteq [Calls -> Requests]
  BY BankAssumption
<1>2. \A c \in Calls : NoTx(c) /\ newBalances[c] \in [Updated(c) -> Int64]
  BY DEF Init, NoTx, NoBalances, Updated
<1>3. TypeOK
  BY <1>1, <1>2, MoneyAssumption DEF Init, TypeOK, PC, AccountIds, Int64, MinInt, NoTx
<1>4. \A c \in Calls : Progress(c) /\ Pending(c)
  BY <1>2 DEF Init, Progress, Pending, TxPC, HoldsRows
<1>5. \A c \in Calls : Locked(c)
  BY <1>2 DEF NoTx, Locked, KeyShared
<1> QED
  BY <1>1, <1>2, <1>3, <1>4, <1>5
  DEF Init, IInv, Exclusive, NoTx, Recorded, DoubleEntry, Acknowledged

\* Every step preserves the invariant.
LEMMA NextInv == IInv /\ [Next]_vars => IInv'
<1> SUFFICES ASSUME IInv, [Next]_vars PROVE IInv'
  OBVIOUS
<1>1. ASSUME NEW c \in Calls, Receive(c) \/ Step(c) \/ Fail(c) PROVE IInv'
  BY <1>1, ReceiveStep, CheckFromStep, CheckToStep, InsertTransferStep, InsertEntryStep,
     AddBalanceStep, CommitStep, RollbackStep, InsertAccountStep, ReadStep,
     UpdateAccountStep, DeleteAccountStep, FailStep
  DEF Step
<1>2. CASE UNCHANGED vars
  <2>1. /\ accounts' = accounts /\ transfers' = transfers /\ entries' = entries
        /\ nextId' = nextId /\ req' = req /\ pc' = pc /\ seen' = seen /\ cents' = cents
        /\ newTransfers' = newTransfers /\ newEntries' = newEntries
        /\ newBalances' = newBalances /\ resp' = resp
    BY <1>2 DEF vars, db, tx
  <2>2. /\ TypeOK' /\ DistinctKeys(accounts)' /\ Exclusive' /\ DoubleEntry'
        /\ (DOMAIN accounts \subseteq 1..(nextId - 1))'
    BY <2>1 DEF IInv, TypeOK, Updated, DistinctKeys, Exclusive, DoubleEntry, EntriesOf
  <2>3. \A c \in Calls : /\ CheckedFrom(c)' = CheckedFrom(c) /\ CheckedTo(c)' = CheckedTo(c)
                         /\ TransferOf(c)' = TransferOf(c)
                         /\ DebitOf(c)' = DebitOf(c) /\ CreditOf(c)' = CreditOf(c)
                         /\ FirstUpdate(c)' = FirstUpdate(c) /\ Updated(c)' = Updated(c)
                         /\ KeyShared(c)' = KeyShared(c)
    BY <2>1 DEF CheckedFrom, CheckedTo, TransferOf, DebitOf, CreditOf, FirstUpdate, FromFirst,
                Debit, Credit, Updated, KeyShared
  <2>4. \A c \in Calls : \A a \in Updated(c) : Delta(c, a)' = Delta(c, a)
    BY <2>1 DEF Delta
  <2>5. \A c \in Calls : Progress(c)' /\ Pending(c)' /\ Locked(c)'
    BY <2>1, <2>3, <2>4 DEF IInv, Progress, Pending, NoTx, Locked
  <2>6. Recorded' /\ Acknowledged'
    BY <2>1 DEF IInv, Recorded, Acknowledged, CheckedFrom, CheckedTo, TransferOf
  <2> QED BY <2>2, <2>5, <2>6 DEF IInv
<1> QED BY <1>1, <1>2 DEF Next, Quiescent

\* The inductive invariant holds in every reachable state.
THEOREM Invariance == Spec => []IInv
  BY InitInv, NextInv, PTL DEF Spec

-----------------------------------------------------------------------------
(* The safety properties.                                                  *)

\* The variables keep their types.
THEOREM TypeCorrect == Spec => []TypeOK
  BY Invariance, PTL DEF IInv

\* Entries and transfers always match, whatever fails.
THEOREM DoubleEntryHolds == Spec => []DoubleEntry
  BY Invariance, PTL DEF IInv

\* Nobody has two accounts in one currency.
THEOREM OneAccountHolds == Spec => []OneAccountPerCurrency
<1>1. IInv => OneAccountPerCurrency
  BY DEF IInv, OneAccountPerCurrency
<1> QED BY <1>1, Invariance, PTL

\* No movement refers to a deleted account.
THEOREM NoDanglingHolds == Spec => []NoDanglingMovement
<1>1. IInv => NoDanglingMovement
  <2> SUFFICES ASSUME IInv PROVE NoDanglingMovement
    OBVIOUS
  <2>1. \A t \in transfers : {t.from, t.to} \subseteq DOMAIN accounts
    BY DEF IInv, Recorded
  <2>2. ASSUME NEW e \in entries PROVE e.account \in DOMAIN accounts
    <3>1. PICK t \in transfers : e \in EntriesOf(t)
      BY DEF IInv, DoubleEntry
    <3>2. e.account \in {t.from, t.to}
      BY <3>1 DEF EntriesOf
    <3> QED BY <2>1, <3>2
  <2>3. \A c \in Calls : KeyShared(c) \subseteq DOMAIN accounts
    BY DEF IInv, Locked
  <2> QED BY <2>1, <2>2, <2>3 DEF NoDanglingMovement
<1> QED BY <1>1, Invariance, PTL

\* Every recorded transfer passed the checks of CreateTransfer, and they are
\* still true of it.
THEOREM AuthorizedHolds == Spec => []TransferAuthorized
<1>1. IInv => TransferAuthorized
  <2> SUFFICES ASSUME IInv, NEW t \in transfers
               PROVE  /\ req[t.id].op = "CreateTransfer"
                      /\ t.from = req[t.id].from /\ t.to = req[t.id].to
                      /\ t.from # t.to
                      /\ t.amount \in FloatToCents(req[t.id].amount)
                      /\ {t.from, t.to} \subseteq DOMAIN accounts
                      /\ accounts[t.from].owner = req[t.id].caller
                      /\ accounts[t.from].currency = req[t.id].currency
                      /\ accounts[t.to].currency = req[t.id].currency
    BY DEF TransferAuthorized
  <2>1. /\ t = TransferOf(t.id) /\ CheckedFrom(t.id) /\ CheckedTo(t.id)
        /\ {t.from, t.to} \subseteq DOMAIN accounts
    BY DEF IInv, Recorded
  <2>2. t.from = req[t.id].from /\ t.to = req[t.id].to /\ t.amount = cents[t.id]
    BY <2>1 DEF TransferOf
  <2> QED
    BY <2>1, <2>2 DEF CheckedFrom, CheckedTo, validateCreateTransferRequest
<1> QED BY <1>1, Invariance, PTL

\* A commit never overwrites a balance it has not seen.
THEOREM NoLostUpdateHolds == Spec => []NoLostUpdate
<1>1. IInv => NoLostUpdate
  <2> SUFFICES ASSUME IInv, NEW c \in Calls, NEW a \in Updated(c)
               PROVE  \E e \in newEntries[c] : /\ e.account = a
                         /\ newBalances[c][a] = accounts[a].balance + e.amount
    BY DEF NoLostUpdate
  <2>1. /\ a \in {req[c].from, req[c].to}
        /\ newBalances[c][a] = accounts[a].balance + Delta(c, a)
    BY DEF IInv, Locked
  <2>2. newEntries[c] = {DebitOf(c), CreditOf(c)}
    BY DEF IInv, TypeOK, PC, TxPC, Pending, NoTx, HoldsRows
  <2>3. CASE a = req[c].from
    BY <2>1, <2>2, <2>3 DEF DebitOf, Delta
  <2>4. CASE a # req[c].from
    BY <2>1, <2>2, <2>4 DEF CreditOf, Delta
  <2> QED BY <2>3, <2>4
<1> QED BY <1>1, Invariance, PTL

\* An acknowledged transfer is recorded once, a refused one is not recorded.
THEOREM AnswersHonestHolds == Spec => []AnswersHonest
<1>1. IInv => AnswersHonest
  <2> SUFFICES ASSUME IInv, NEW c \in Calls, req[c].op = "CreateTransfer"
               PROVE  LET recorded == {t \in transfers : t.id = c}
                      IN  /\ resp[c] = "OK" => Cardinality(recorded) = 1
                          /\ resp[c] \notin {"OK", "Internal"} => recorded = {}
    BY DEF AnswersHonest
  <2> DEFINE recorded == {t \in transfers : t.id = c}
  <2>1. \A t \in recorded : t = TransferOf(c) /\ resp[c] \in {"OK", "Internal"}
    BY DEF IInv, Recorded
  <2>2. ASSUME resp[c] = "OK" PROVE Cardinality(recorded) = 1
    <3>1. TransferOf(c) \in transfers /\ TransferOf(c).id = c
      BY <2>2 DEF IInv, Acknowledged, TransferOf
    <3>2. recorded = {TransferOf(c)}
      BY <2>1, <3>1
    <3> QED BY <3>2, FS_Singleton
  <2>3. resp[c] \notin {"OK", "Internal"} => recorded = {}
    BY <2>1
  <2> QED BY <2>2, <2>3
<1> QED BY <1>1, Invariance, PTL

-----------------------------------------------------------------------------
(* Overdrafts.                                                             *)

\* What a step that records a transfer is.
LEMMA RecordStep ==
  ASSUME IInv, [Next]_vars, NEW t \in transfers' \ transfers
  PROVE  \E c \in Calls : /\ t = TransferOf(c) /\ pc[c] = "commit" /\ Publish(c)
<1>1. PICK c \in Calls : Commit(c) /\ transfers' # transfers
  BY DEF Next, Step, vars, db, tx, Quiescent, Receive, Fail, CheckFromAccount, CheckToAccount,
         InsertTransfer, InsertFromEntry, InsertToEntry, CreateTransferEntry, AddFirst,
         AddSecond, AddAccountBalance, Rollback, InsertAccount, AuthorizeAccount,
         LookUpAccount, UpdateAccount, DeleteAccount
<1>2. pc[c] = "commit" /\ Publish(c)
  BY <1>1 DEF Commit, db
<1>3. t = TransferOf(c)
  BY <1>2, PublishEffect
<1> QED BY <1>2, <1>3

\* A transfer overdraws an account only when the balance it was checked
\* against is no longer the balance.
THEOREM OverdraftHolds == Spec => OverdraftOnlyByRace
<1>1. ASSUME IInv, [Next]_vars
      PROVE  [\A t \in transfers' \ transfers :
                (accounts'[t.from].balance < 0 /\ t.amount # MinInt)
                  => accounts[t.from].balance # seen[t.id]]_vars
  <2> SUFFICES ASSUME NEW t \in transfers' \ transfers, t.amount # MinInt,
                      accounts[t.from].balance = seen[t.id]
               PROVE  ~(accounts'[t.from].balance < 0)
    OBVIOUS
  <2>1. PICK c \in Calls : t = TransferOf(c) /\ pc[c] = "commit" /\ Publish(c)
    BY <1>1, RecordStep
  <2>2. /\ t.from = req[c].from /\ t.amount = cents[c] /\ t.id = c
    BY <2>1 DEF TransferOf
  <2>3. ~(seen[c] < cents[c]) /\ seen[c] \in Int /\ cents[c] \in Int
    BY <1>1, <2>1, MoneyAssumption
    DEF IInv, TypeOK, Progress, CheckedTo, TxPC, Insufficient, Int64, MinInt
  <2>4. accounts'[t.from].balance = accounts[t.from].balance + Delta(c, t.from)
    <3>1. accounts'[t.from] = WithBalance(accounts[t.from],
                                accounts[t.from].balance + Delta(c, t.from))
      BY <1>1, <2>1, <2>2, PublishEffect
    <3> QED BY <3>1 DEF WithBalance
  <2>5. Delta(c, t.from) = -cents[c]
    BY <2>2, <2>3 DEF Delta, Neg
  <2> QED BY <2>2, <2>3, <2>4, <2>5
<1> QED BY <1>1, Invariance, PTL DEF Spec, OverdraftOnlyByRace

-----------------------------------------------------------------------------
(* Deadlock.                                                               *)

\* The order of the natural numbers, as a set of pairs.
Below == {p \in Nat \X Nat : p[1] < p[2]}

\* Every nonempty set of natural numbers has a least element.
LEMMA LeastNatural ==
  ASSUME NEW M \in SUBSET Nat, M # {}
  PROVE  \E n \in M : \A m \in M : n <= m
<1>1. IsWellFoundedOn(Below, Nat)
  BY NatLessThanWellFounded DEF OpToRel, Below
<1>2. ASSUME NEW m \in Nat, NEW n \in Nat, m < n PROVE <<m, n>> \in Below
  <2> DEFINE p == <<m, n>>
  <2>1. p \in Nat \X Nat /\ p[1] = m /\ p[2] = n
    OBVIOUS
  <2> HIDE DEF p
  <2>2. p \in Below
    BY <1>2, <2>1 DEF Below
  <2> QED BY <2>2 DEF p
<1>3. PICK n \in M : \A m \in M : <<m, n>> \notin Below
  BY <1>1, WFMin
<1>4. \A m \in M : ~(m < n)
  BY <1>2, <1>3
<1> QED BY <1>4

\* The account whose lock the next update of a transfer needs.
Wanted(c) == IF pc[c] = "add1" THEN FirstUpdate(c).account
             ELSE SecondUpdate(c).account

\* A call that others wait for, and that waits itself, is a transfer.
LEMMA WaitingHolder ==
  ASSUME IInv, NEW c \in Calls, NEW d \in Blockers(c), Blockers(d) # {}
  PROVE  d \in Calls /\ pc[d] \in {"add1", "add2"}
<1>1. d \in Calls /\ (Updated(d) # {} \/ KeyShared(d) # {})
  BY DEF Blockers, UpdateBlockers, DeleteBlockers
<1>2. pc[d] \in HoldsRows \cup {"rollback"}
  BY <1>1 DEF IInv, Pending, NoTx, KeyShared
<1> QED
  BY <1>1, <1>2 DEF Blockers, HoldsRows

\* What a waiting transfer wants.
LEMMA WantedType ==
  ASSUME IInv, NEW c \in Calls, pc[c] \in {"add1", "add2"}
  PROVE  /\ Wanted(c) \in 1..MaxAccountId
         /\ req[c].from \in Int /\ req[c].to \in Int /\ req[c].from # req[c].to
<1>1. /\ CheckedFrom(c) /\ CheckedTo(c)
      /\ nextId \in 1..MaxAccountId + 1
  BY DEF IInv, TypeOK, Progress, TxPC
<1>2. /\ req[c].from \in 1..MaxAccountId /\ req[c].to \in 1..MaxAccountId
      /\ req[c].from # req[c].to
  BY <1>1, BankAssumption DEF CheckedFrom, CheckedTo, validateCreateTransferRequest
<1> QED
  BY <1>2 DEF Wanted, FirstUpdate, FromFirst, SecondUpdate, Debit, Credit

\* Accounts are locked in increasing order.
LEMMA WaitsUpward ==
  ASSUME IInv, NEW c \in Calls, pc[c] \in {"add1", "add2"},
         NEW d \in Blockers(c), Blockers(d) # {}
  PROVE  Wanted(c) < Wanted(d)
<1>1. d \in Calls /\ pc[d] \in {"add1", "add2"}
  BY WaitingHolder
<1>2. Wanted(c) \in Updated(d)
  BY DEF Blockers, Wanted, UpdateBlockers
<1>3. pc[d] = "add2" /\ Wanted(c) = FirstUpdate(d).account
  BY <1>1, <1>2 DEF IInv, Pending
<1>4. FirstUpdate(d).account < SecondUpdate(d).account
  BY <1>1, WantedType DEF FirstUpdate, FromFirst, SecondUpdate, Debit, Credit
<1> QED BY <1>3, <1>4 DEF Wanted

\* The transfers are deadlock-safe: no group of calls waits for itself.
THEOREM NoDeadlockHolds == Spec => []NoDeadlock
<1>1. IInv => NoDeadlock
  <2> SUFFICES ASSUME IInv, NEW S \in SUBSET Calls, S # {},
                      \A c \in S : Blockers(c) \cap S # {}
               PROVE  FALSE
    BY DEF NoDeadlock
  <2> DEFINE W == {c \in S : pc[c] \in {"add1", "add2"}}
             M == {MaxAccountId - Wanted(c) : c \in W}
  <2>1. \A c \in W : Wanted(c) \in 1..MaxAccountId
    BY WantedType
  <2>2. M \in SUBSET Nat
    BY <2>1, BankAssumption
  <2>3. W # {}
    <3>1. PICK c \in S : TRUE
      OBVIOUS
    <3>2. PICK d \in S : d \in Blockers(c)
      OBVIOUS
    <3>3. Blockers(d) # {}
      OBVIOUS
    <3> QED BY <3>1, <3>2, <3>3, WaitingHolder
  <2>4. PICK n \in M : \A m \in M : n <= m
    <3>1. M # {}
      BY <2>3
    <3> HIDE DEF M
    <3> QED BY <2>2, <3>1, LeastNatural
  <2>5. PICK c \in W : n = MaxAccountId - Wanted(c)
    BY <2>4
  <2>6. PICK d \in S : d \in Blockers(c)
    BY <2>5
  <2>7. Blockers(d) # {}
    BY <2>6
  <2>8. d \in W /\ Wanted(c) < Wanted(d)
    BY <2>5, <2>6, <2>7, WaitingHolder, WaitsUpward
  <2>9. MaxAccountId - Wanted(c) <= MaxAccountId - Wanted(d)
    BY <2>4, <2>5, <2>8
  <2> QED BY <2>1, <2>5, <2>8, <2>9, BankAssumption
<1> QED BY <1>1, Invariance, PTL

-----------------------------------------------------------------------------
(* The handlers implement the ledger.                                      *)

\* A commit that takes effect is one Move of the abstract ledger.
LEMMA CommitMoves ==
  ASSUME IInv, NEW c \in Calls, pc[c] = "commit", Publish(c)
  PROVE  L!Move(c, req[c].from, req[c].to, cents[c])
<1> DEFINE f == req[c].from
           g == req[c].to
<1>1. /\ transfers' = transfers \cup {TransferOf(c)}
      /\ entries' = entries \cup {DebitOf(c), CreditOf(c)}
      /\ f \in DOMAIN accounts /\ g \in DOMAIN accounts
      /\ accounts[f].balance + Delta(c, f) \in Int64
      /\ accounts[g].balance + Delta(c, g) \in Int64
      /\ Updated(c) = {f, g}
  BY PublishEffect
<1>2. CheckedFrom(c) /\ CheckedTo(c)
  BY DEF IInv, Progress, TxPC
<1>3. f # g /\ accounts[f].currency = accounts[g].currency
  BY <1>1, <1>2 DEF CheckedFrom, CheckedTo, validateCreateTransferRequest
<1>4. Delta(c, f) = Neg(cents[c]) /\ Delta(c, g) = cents[c]
  BY <1>3 DEF Delta
<1>5. \A t \in transfers : t.id # c
  BY DEF IInv, Recorded
<1>6. /\ newBalances[c][f] = accounts[f].balance + Neg(cents[c])
      /\ newBalances[c][g] = accounts[g].balance + cents[c]
  BY <1>1, <1>4 DEF IInv, Locked
<1>7. accounts' = [accounts EXCEPT
                     ![f] = L!WithBalance(@, @.balance + Neg(cents[c])),
                     ![g] = L!WithBalance(@, @.balance + cents[c])]
  BY <1>1, <1>3, <1>6 DEF Publish, L!WithBalance, WithBalance, IInv, TypeOK
<1> QED
  BY <1>1, <1>3, <1>4, <1>5, <1>7
  DEF L!Move, TransferOf, DebitOf, CreditOf, L!Neg, Neg, L!MinInt, MinInt, L!Int64, Int64

\* A transfer takes effect in one step, and nothing else moves money but
\* UpdateAccount.
THEOREM Refinement == Spec => LedgerSpec
<1>1. Init => L!Init
  <2> SUFFICES ASSUME Init PROVE L!Init
    OBVIOUS
  <2>1. TypeOK
    BY InitInv DEF IInv
  <2> QED
    BY <2>1 DEF Init, L!Init, TypeOK, L!Account, Account, L!Int64, Int64, L!MinInt, MinInt
<1>2. IInv /\ [Next]_vars => [L!Next]_(L!vars)
  <2> SUFFICES ASSUME IInv, [Next]_vars, ~UNCHANGED L!vars PROVE L!Next
    OBVIOUS
  <2>1. UNCHANGED db => FALSE
    BY DEF db, L!vars
  <2>2. PICK c \in Calls : Commit(c) \/ InsertAccount(c) \/ UpdateAccount(c) \/ DeleteAccount(c)
    BY <2>1
    DEF Next, Step, vars, Quiescent, Receive, Fail, CheckFromAccount, CheckToAccount,
        InsertTransfer, InsertFromEntry, InsertToEntry, CreateTransferEntry, AddFirst,
        AddSecond, AddAccountBalance, Rollback, AuthorizeAccount, LookUpAccount
  <2>3. CASE Commit(c)
    <3>1. pc[c] = "commit" /\ Publish(c)
      BY <2>1, <2>3 DEF Commit
    <3>2. L!Move(c, req[c].from, req[c].to, cents[c])
      BY <3>1, CommitMoves
    <3>3. req[c].from \in AccountIds /\ req[c].to \in AccountIds /\ cents[c] \in Int64
      BY <3>1, PublishEffect DEF IInv, TypeOK
    <3> QED BY <3>2, <3>3 DEF L!Next, L!Int64, Int64, L!MinInt, MinInt
  <2>4. CASE InsertAccount(c)
    <3> DEFINE r == req[c]
    <3>1. /\ nextId <= MaxAccountId
          /\ \A a \in DOMAIN accounts : \/ accounts[a].owner # r.caller
                                        \/ accounts[a].currency # r.currency
          /\ accounts' = [a \in DOMAIN accounts \cup {nextId} |->
                  IF a = nextId
                  THEN [owner |-> r.caller, currency |-> r.currency, balance |-> 0]
                  ELSE accounts[a]]
          /\ UNCHANGED <<transfers, entries>>
      BY <2>1, <2>4, BankAssumption DEF InsertAccount, KeyTaken, AddRow, db, IInv, TypeOK
    <3>2. nextId \in AccountIds /\ nextId \notin DOMAIN accounts
      BY <3>1, BankAssumption DEF IInv, TypeOK, AccountIds
    <3>3. r.caller \in Users /\ r.currency \in Currencies
      BY <2>4, RequestType DEF InsertAccount, KeyTaken, AddRow, IInv, TypeOK, Progress
    <3>4. L!Open(nextId, r.caller, r.currency)
      BY <3>1, <3>2 DEF L!Open
    <3> QED BY <3>2, <3>3, <3>4 DEF L!Next
  <2>5. CASE UpdateAccount(c)
    <3> DEFINE r == req[c]
    <3>1. PICK n \in FloatToCents(r.balance) :
             /\ r.id \in DOMAIN accounts
             /\ accounts' = [accounts EXCEPT ![r.id] = WithBalance(@, n)]
             /\ UNCHANGED <<transfers, entries>>
      BY <2>1, <2>5 DEF UpdateAccount, SetBalance, db
    <3>2. n \in Int64
      <4>1. r \in Requests /\ r.op = "UpdateAccount"
        BY <2>5 DEF UpdateAccount, SetBalance, IInv, TypeOK, Progress
      <4> QED BY <3>1, <4>1, RequestType, CentsType
    <3>3. r.id \in AccountIds
      BY <3>1 DEF IInv, TypeOK
    <3>4. L!SetBalance(r.id, n)
      BY <3>1 DEF L!SetBalance, L!WithBalance, WithBalance
    <3> QED BY <3>2, <3>3, <3>4 DEF L!Next, L!Int64, Int64, L!MinInt, MinInt
  <2>6. CASE DeleteAccount(c)
    <3> DEFINE a == req[c].id
    <3>1. /\ ~Referenced(a)
          /\ accounts' = [b \in DOMAIN accounts \ {a} |-> accounts[b]]
          /\ UNCHANGED <<transfers, entries>>
      BY <2>1, <2>6 DEF DeleteAccount, RemoveRow, db
    <3>2. a \in DOMAIN accounts
      <4> SUFFICES ASSUME a \notin DOMAIN accounts PROVE FALSE
        OBVIOUS
      <4>1. accounts' = accounts
        BY <3>1 DEF IInv, TypeOK
      <4> QED BY <2>1, <3>1, <4>1 DEF db
    <3>3. a \in AccountIds
      BY <3>2 DEF IInv, TypeOK
    <3>4. L!Close(a)
      BY <3>1, <3>2 DEF L!Close, L!Referenced, Referenced
    <3> QED BY <3>3, <3>4 DEF L!Next
  <2> QED BY <2>2, <2>3, <2>4, <2>5, <2>6
<1> QED BY <1>1, <1>2, Invariance, PTL DEF Spec, LedgerSpec, L!Spec
-----------------------------------------------------------------------------
(* Reconciliation.                                                         *)

\* The sum of a finite set of entries is one in the sense of Sums.
LEMMA AmountsIsSum ==
  ASSUME NEW S, IsFiniteSet(S)
  PROVE  \E g : IsSum(g, [e \in S |-> e.amount], S) /\ Amounts(S) = g[S]
<1> DEFINE f == [e \in S |-> e.amount]
           P(g) == g = [s \in SUBSET S |->
                     IF s = {} THEN 0
                     ELSE (CHOOSE x \in s : TRUE).amount
                            + g[s \ {CHOOSE x \in s : TRUE}]]
           h == CHOOSE g : P(g)
<1>1. ASSUME NEW g PROVE P(g) <=> IsSum(g, f, S)
  <2>1. \A s \in SUBSET S : s # {} =>
          (CHOOSE x \in s : TRUE).amount = f[CHOOSE x \in s : TRUE]
    OBVIOUS
  <2>2. [s \in SUBSET S |->
           IF s = {} THEN 0
           ELSE (CHOOSE x \in s : TRUE).amount + g[s \ {CHOOSE x \in s : TRUE}]]
        = [s \in SUBSET S |->
             IF s = {} THEN 0
             ELSE f[CHOOSE x \in s : TRUE] + g[s \ {CHOOSE x \in s : TRUE}]]
    BY <2>1
  <2> QED BY <2>2 DEF IsSum
<1>2. Amounts(S) = h[S]
  BY DEF Amounts, MapThenSumSet, MapThenFoldSet
<1>3. \E g : P(g)
  <2>1. \E g : IsSum(g, f, S)
    <3> HIDE DEF f
    <3> QED BY SumExists
  <2> HIDE DEF P, f
  <2> QED BY <1>1, <2>1
<1>4. P(h)
  <2> HIDE DEF P
  <2> QED BY <1>3
<1> QED BY <1>1, <1>2, <1>4

\* The sum of no entries, and of one more.
LEMMA AmountsEmpty == Amounts({}) = 0
<1> DEFINE none == {}
           f == [e \in none |-> e.amount]
<1>1. IsFiniteSet(none) BY FS_EmptySet
<1>2. PICK g : IsSum(g, f, none) /\ Amounts(none) = g[none]
  BY <1>1, AmountsIsSum
<1>3. none \in SUBSET none OBVIOUS
<1> HIDE DEF f
<1>4. g[none] = 0 BY <1>2, <1>3, SumEquation
<1> QED BY <1>2, <1>4

LEMMA AmountsAdd ==
  ASSUME NEW S, IsFiniteSet(S), \A e \in S : e.amount \in Int,
         NEW d, d \notin S, d.amount \in Int
  PROVE  /\ Amounts(S) \in Int
         /\ Amounts(S \cup {d}) = Amounts(S) + d.amount
<1> DEFINE T == S \cup {d}
           f == [e \in S |-> e.amount]
           h == [e \in T |-> e.amount]
<1>1. IsFiniteSet(T) BY FS_AddElement
<1>2. PICK g : IsSum(g, f, S) /\ Amounts(S) = g[S]
  BY AmountsIsSum
<1>3. PICK k : IsSum(k, h, T) /\ Amounts(T) = k[T]
  BY <1>1, AmountsIsSum
<1>4. /\ \A e \in S : f[e] \in Int /\ f[e] = h[e]
      /\ \A e \in T : h[e] \in Int
      /\ h[d] = d.amount
  OBVIOUS
<1>5. /\ S \in SUBSET S /\ S \in SUBSET T /\ S \subseteq T /\ T \in SUBSET T /\ d \in T
      /\ T \ {d} = S
  OBVIOUS
<1> HIDE DEF f, h, T
<1>6. k[T] = h[d] + k[S]
  BY <1>1, <1>3, <1>4, <1>5, SumStep
<1>7. k[S] = g[S]
  BY <1>2, <1>3, <1>4, <1>5, SumsAgree
<1>8. g[S] \in Int
  BY <1>2, <1>4, <1>5, SumType
<1>9. Amounts(T) = Amounts(S) + d.amount
  <2>1. PICK m \in Int, n \in Int : m = g[S] /\ n = d.amount
    BY <1>8
  <2>2. n + m = m + n BY <2>1
  <2> QED BY <1>2, <1>3, <1>4, <1>6, <1>7, <2>1, <2>2
<1> QED BY <1>2, <1>8, <1>9 DEF T

\* What Reconciled says of one account, and what else its proof needs: the
\* entries can be added up, and an account is never opened with an old id.
EntriesOn(a) == {e \in entries : e.account = a}

Opening(a) == IF a \in DOMAIN InitAccounts THEN InitAccounts[a].balance ELSE 0

NotOverwritten(a) == \A c \in Calls : req[c].op = "UpdateAccount" => req[c].id # a

Balanced(a) ==
  NotOverwritten(a) => accounts[a].balance = Opening(a) + Amounts(EntriesOn(a))

Books == /\ IsFiniteSet(entries)
         /\ nextId > Len(InitAccounts)
         /\ \A a \in DOMAIN accounts : Balanced(a)

LEMMA OpeningType ==
  ASSUME NEW a
  PROVE  /\ Opening(a) \in Int
         /\ Len(InitAccounts) \in Nat
         /\ DOMAIN InitAccounts = 1..Len(InitAccounts)
         /\ a \in DOMAIN InitAccounts => InitAccounts[a].balance = Opening(a)
<1>1. InitAccounts \in Seq(Account) BY BankAssumption
<1>2. /\ Len(InitAccounts) \in Nat
      /\ DOMAIN InitAccounts = 1..Len(InitAccounts)
      /\ \A b \in 1..Len(InitAccounts) : InitAccounts[b] \in Account
  BY <1>1
<1>3. \A row \in Account : row.balance \in Int
  BY MoneyAssumption DEF Account, Int64, MinInt
<1> QED BY <1>2, <1>3 DEF Opening

LEMMA InitBooks == Init => Books
<1> SUFFICES ASSUME Init PROVE Books OBVIOUS
<1>1. IsFiniteSet(entries) /\ nextId > Len(InitAccounts)
  BY OpeningType, FS_EmptySet DEF Init
<1>2. ASSUME NEW a \in DOMAIN accounts PROVE Balanced(a)
  <2>1. EntriesOn(a) = {} BY DEF Init, EntriesOn
  <2>2. accounts[a].balance = Opening(a) /\ Opening(a) \in Int
    BY OpeningType DEF Init
  <2> QED BY <2>1, <2>2, AmountsEmpty DEF Init, Balanced
<1> QED BY <1>1, <1>2 DEF Books

\* A committed transfer adds to either account what its entry says.
LEMMA PublishBooks ==
  ASSUME IInv, Books, NEW c \in Calls, pc[c] = "commit", Publish(c),
         UNCHANGED <<nextId, req>>
  PROVE  Books'
<1> DEFINE debit == DebitOf(c)
           credit == CreditOf(c)
<1>1. /\ entries' = entries \cup {debit, credit}
      /\ {req[c].from, req[c].to} \subseteq DOMAIN accounts
      /\ DOMAIN accounts' = DOMAIN accounts
      /\ \A a \in DOMAIN accounts :
            accounts'[a] = IF a \in {req[c].from, req[c].to}
                           THEN WithBalance(accounts[a],
                                     accounts[a].balance + Delta(c, a))
                           ELSE accounts[a]
  BY PublishEffect
<1>2. IsFiniteSet(entries')
  <2>1. IsFiniteSet(entries \cup {debit}) BY FS_AddElement DEF Books
  <2>2. IsFiniteSet((entries \cup {debit}) \cup {credit}) BY <2>1, FS_AddElement
  <2> QED BY <1>1, <2>2
<1>3. req[c].from # req[c].to
  BY DEF IInv, Progress, TxPC, CheckedFrom, validateCreateTransferRequest
<1>4. /\ debit.account = req[c].from /\ debit.amount = Delta(c, req[c].from)
      /\ credit.account = req[c].to /\ credit.amount = Delta(c, req[c].to)
      /\ debit.transfer = c /\ credit.transfer = c
  BY <1>3 DEF DebitOf, CreditOf, Delta
<1>5. debit.amount \in Int /\ credit.amount \in Int
  BY NegType, MoneyAssumption DEF IInv, TypeOK, DebitOf, CreditOf, Int64, MinInt
<1>6. \A e \in entries : e.transfer # c /\ e.amount \in Int
  <2>1. \A e \in entries : e.amount \in Int
    BY MoneyAssumption DEF IInv, TypeOK, Entry, Int64, MinInt
  <2>2. \A t \in transfers : t.id # c
    BY DEF IInv, Recorded
  <2>3. \A e \in entries : \E t \in transfers : e.transfer = t.id
    BY DEF IInv, DoubleEntry, EntriesOf
  <2> QED BY <2>1, <2>2, <2>3
<1> HIDE DEF debit, credit
<1>7. ASSUME NEW a \in DOMAIN accounts, NEW d, d \notin entries, d.amount \in Int
      PROVE  /\ Amounts(EntriesOn(a)) \in Int
             /\ Amounts(EntriesOn(a) \cup {d}) = Amounts(EntriesOn(a)) + d.amount
  <2>1. IsFiniteSet(EntriesOn(a)) BY FS_Subset DEF EntriesOn, Books
  <2>2. d \notin EntriesOn(a) /\ \A e \in EntriesOn(a) : e.amount \in Int
    BY <1>6, <1>7 DEF EntriesOn
  <2> QED BY <1>7, <2>1, <2>2, AmountsAdd
<1>8. debit \notin entries /\ credit \notin entries
  BY <1>4, <1>6
<1>9. ASSUME NEW a \in DOMAIN accounts, NotOverwritten(a)
      PROVE  accounts'[a].balance = Opening(a) + Amounts(EntriesOn(a)')
  <2>1. /\ accounts[a].balance = Opening(a) + Amounts(EntriesOn(a))
        /\ Opening(a) \in Int /\ Amounts(EntriesOn(a)) \in Int
    <3>1. Opening(a) \in Int
      BY OpeningType
    <3> QED BY <1>5, <1>7, <1>8, <1>9, <3>1 DEF Books, Balanced
  <2>2. CASE a \notin {req[c].from, req[c].to}
    <3>1. EntriesOn(a)' = EntriesOn(a)
      BY <1>1, <1>4, <2>2 DEF EntriesOn
    <3> QED BY <1>1, <2>1, <2>2, <3>1
  <2>3. ASSUME NEW d \in {debit, credit}, d.account = a, d.amount = Delta(c, a),
               EntriesOn(a)' = EntriesOn(a) \cup {d}, a \in {req[c].from, req[c].to}
        PROVE  accounts'[a].balance = Opening(a) + Amounts(EntriesOn(a)')
    <3>1. accounts'[a].balance = accounts[a].balance + Delta(c, a)
      BY <1>1, <2>3 DEF WithBalance
    <3>2. Amounts(EntriesOn(a) \cup {d}) = Amounts(EntriesOn(a)) + d.amount
      BY <1>5, <1>7, <1>8
    <3>3. PICK o \in Int, m \in Int, n \in Int :
            o = Opening(a) /\ m = Amounts(EntriesOn(a)) /\ n = d.amount
      BY <1>5, <2>1
    <3>4. (o + m) + n = o + (m + n) BY <3>3
    <3> QED BY <2>1, <2>3, <3>1, <3>2, <3>3, <3>4
  <2>4. CASE a = req[c].from
    <3>1. EntriesOn(a)' = EntriesOn(a) \cup {debit}
      BY <1>1, <1>3, <1>4, <2>4 DEF EntriesOn
    <3> QED BY <1>4, <2>3, <2>4, <3>1
  <2>5. CASE a = req[c].to
    <3>1. EntriesOn(a)' = EntriesOn(a) \cup {credit}
      BY <1>1, <1>3, <1>4, <2>5 DEF EntriesOn
    <3> QED BY <1>4, <2>3, <2>5, <3>1
  <2> QED BY <2>2, <2>4, <2>5
<1>10. \A a \in DOMAIN accounts' : Balanced(a)'
  BY <1>1, <1>9 DEF Balanced, NotOverwritten, Opening
<1> QED BY <1>2, <1>10 DEF Books

\* The statements that write rows of accounts.
LEMMA InsertBooks ==
  ASSUME IInv, Books, NEW c \in Calls, InsertAccount(c)
  PROVE  Books'
<1>1. entries' = entries /\ req' = req BY DEF InsertAccount
<1>2. \A a : EntriesOn(a)' = EntriesOn(a) /\ (NotOverwritten(a)' <=> NotOverwritten(a))
  BY <1>1 DEF EntriesOn, NotOverwritten
<1>3. /\ nextId \in Int /\ nextId' \in {nextId, nextId + 1}
      /\ nextId > Len(InitAccounts) /\ Len(InitAccounts) \in Int
      /\ nextId \notin DOMAIN InitAccounts /\ nextId \notin DOMAIN accounts
  BY OpeningType, BankAssumption DEF IInv, TypeOK, InsertAccount, Books
<1>4. nextId' > Len(InitAccounts) BY <1>3
<1>5. CASE accounts' = accounts
  BY <1>1, <1>2, <1>4, <1>5 DEF Books, Balanced, Opening
<1>6. CASE AddRow(req[c].caller, req[c].currency)
  <2>1. PICK n : n = nextId OBVIOUS
  <2>2. /\ \A a \in DOMAIN accounts' \ {n} :
              a \in DOMAIN accounts /\ accounts'[a] = accounts[a]
        /\ accounts'[n].balance = 0
    BY <1>6, <2>1 DEF AddRow
  <2>3. Opening(n) = 0
    BY <1>3, <2>1 DEF Opening
  <2>4. EntriesOn(n) = {}
    <3>1. \A t \in transfers : {t.from, t.to} \subseteq DOMAIN accounts
      BY DEF IInv, Recorded
    <3>2. \A e \in entries : e.account \in DOMAIN accounts
      BY <3>1 DEF IInv, DoubleEntry, EntriesOf
    <3> QED BY <1>3, <2>1, <3>2 DEF EntriesOn
  <2>5. Balanced(n)'
    <3>1. EntriesOn(n)' = {} BY <1>2, <2>4
    <3> QED BY <2>2, <2>3, <3>1, AmountsEmpty DEF Balanced, Opening
  <2>6. ASSUME NEW a \in DOMAIN accounts', a # n PROVE Balanced(a)'
    <3>1. a \in DOMAIN accounts /\ accounts'[a] = accounts[a] BY <2>2, <2>6
    <3> QED BY <1>2, <3>1 DEF Books, Balanced, Opening
  <2> QED BY <1>1, <1>4, <2>5, <2>6 DEF Books
<1> QED BY <1>5, <1>6 DEF InsertAccount

\* No step but these writes a balance, an entry or the sequence of ids.
LEMMA NextBooks == IInv /\ Books /\ [Next]_vars => Books'
<1> SUFFICES ASSUME IInv, Books, [Next]_vars PROVE Books' OBVIOUS
<1>1. CASE UNCHANGED <<accounts, entries, nextId, req>>
  BY <1>1 DEF Books, Balanced, EntriesOn, NotOverwritten, Opening
<1>2. ASSUME NEW c \in Calls, Commit(c) PROVE Books'
  <2>1. CASE UNCHANGED db BY <1>1, <1>2, <2>1 DEF Commit, db
  <2>2. CASE Publish(c) BY <1>2, <2>2, PublishBooks DEF Commit
  <2> QED BY <1>2, <2>1, <2>2 DEF Commit
<1>3. ASSUME NEW c \in Calls, UpdateAccount(c) PROVE Books'
  <2>1. entries' = entries /\ nextId' = nextId /\ req' = req BY <1>3 DEF UpdateAccount
  <2>2. DOMAIN accounts' = DOMAIN accounts
        /\ \A a \in DOMAIN accounts \ {req[c].id} : accounts'[a] = accounts[a]
    BY <1>3 DEF UpdateAccount, SetBalance, IInv, TypeOK
  <2>3. req[c].op = "UpdateAccount"
    BY <1>3 DEF UpdateAccount, IInv, Progress
  <2> QED BY <2>1, <2>2, <2>3 DEF Books, Balanced, EntriesOn, NotOverwritten, Opening
<1>4. ASSUME NEW c \in Calls, DeleteAccount(c) PROVE Books'
  <2>1. entries' = entries /\ nextId' = nextId /\ req' = req BY <1>4 DEF DeleteAccount
  <2>2. \A a \in DOMAIN accounts' : a \in DOMAIN accounts /\ accounts'[a] = accounts[a]
    BY <1>4 DEF DeleteAccount, RemoveRow
  <2> QED BY <2>1, <2>2 DEF Books, Balanced, EntriesOn, NotOverwritten, Opening
<1>5. ASSUME NEW c \in Calls,
             \/ Receive(c) \/ Fail(c) \/ CheckFromAccount(c) \/ CheckToAccount(c)
             \/ InsertTransfer(c) \/ InsertFromEntry(c) \/ InsertToEntry(c)
             \/ AddFirst(c) \/ AddSecond(c) \/ Rollback(c)
             \/ AuthorizeAccount(c) \/ LookUpAccount(c)
      PROVE  UNCHANGED <<accounts, entries, nextId, req>>
  BY <1>5 DEF db, Receive, Fail, CheckFromAccount, CheckToAccount, InsertTransfer,
     InsertFromEntry, InsertToEntry, CreateTransferEntry, AddFirst, AddSecond,
     AddAccountBalance, Rollback, AuthorizeAccount, LookUpAccount
<1> QED BY <1>1, <1>2, <1>3, <1>4, <1>5, InsertBooks
    DEF Next, Step, Quiescent, vars, db

\* Every balance is what the account was opened with plus its entries, unless
\* somebody overwrites it: no transfer is half done, lost or counted twice.
THEOREM ReconciledHolds == Spec => []Reconciled
<1>1. Books => Reconciled
  BY DEF Books, Balanced, NotOverwritten, Opening, EntriesOn, Reconciled
<1> QED BY <1>1, InitBooks, NextBooks, Invariance, PTL DEF Spec
=============================================================================
