------------------------------- MODULE Ledger -------------------------------
(***************************************************************************)
(* What the bank promises about money: a ledger of accounts on which a     *)
(* transfer is one indivisible step that appends a transfer and its two    *)
(* entries and moves the two balances by exactly the entries' amounts.     *)
(*                                                                         *)
(* This is the abstract specification; module Bank, the request handlers   *)
(* over SQL transactions, implements it.                                   *)
(***************************************************************************)
EXTENDS Money

CONSTANTS
  Users,        \* usernames
  Currencies,   \* util.IsSupportedCurrency
  AccountIds,   \* values of accounts.id
  TransferIds   \* values of transfers.id

VARIABLES
  accounts,     \* the accounts that exist: a function from their ids to rows
  transfers,    \* the transfers table
  entries       \* the entries table

vars == <<accounts, transfers, entries>>

Account  == [owner : Users, currency : Currencies, balance : Int64]
Transfer == [id : TransferIds, from : AccountIds, to : AccountIds,
             amount : Int64]
Entry    == [transfer : TransferIds, account : AccountIds, amount : Int64]

WithBalance(row, n) ==
  [owner |-> row.owner, currency |-> row.currency, balance |-> n]

\* Foreign keys onto accounts.
Referenced(a) == \/ \E t \in transfers : a \in {t.from, t.to}
                 \/ \E e \in entries : e.account = a

\* The accounts a migrated database starts with have no movements.
Init == /\ DOMAIN accounts \subseteq AccountIds
        /\ accounts \in [DOMAIN accounts -> Account]
        /\ transfers = {}
        /\ entries = {}

\* A new account is empty, and the only one of its owner in its currency.
Open(a, u, cur) ==
  /\ a \notin DOMAIN accounts
  /\ \A b \in DOMAIN accounts :
        accounts[b].owner # u \/ accounts[b].currency # cur
  /\ accounts' = [b \in DOMAIN accounts \cup {a} |->
                    IF b = a
                    THEN [owner |-> u, currency |-> cur, balance |-> 0]
                    ELSE accounts[b]]
  /\ UNCHANGED <<transfers, entries>>

\* An account is removed only when nothing refers to it.
Close(a) ==
  /\ a \in DOMAIN accounts
  /\ ~Referenced(a)
  /\ accounts' = [b \in DOMAIN accounts \ {a} |-> accounts[b]]
  /\ UNCHANGED <<transfers, entries>>

\* A balance is overwritten: no movement is recorded.
SetBalance(a, cents) ==
  /\ a \in DOMAIN accounts
  /\ accounts' = [accounts EXCEPT ![a] = WithBalance(@, cents)]
  /\ UNCHANGED <<transfers, entries>>

\* Money moves between two accounts of one currency, all at once.
Move(id, from, to, cents) ==
  /\ from # to
  /\ from \in DOMAIN accounts
  /\ to \in DOMAIN accounts
  /\ accounts[from].currency = accounts[to].currency
  /\ \A t \in transfers : t.id # id
  /\ accounts[from].balance + Neg(cents) \in Int64
  /\ accounts[to].balance + cents \in Int64
  /\ accounts' = [accounts EXCEPT
                    ![from] = WithBalance(@, @.balance + Neg(cents)),
                    ![to]   = WithBalance(@, @.balance + cents)]
  /\ transfers' = transfers \cup
       {[id |-> id, from |-> from, to |-> to, amount |-> cents]}
  /\ entries' = entries \cup
       {[transfer |-> id, account |-> from, amount |-> Neg(cents)],
        [transfer |-> id, account |-> to,   amount |-> cents]}

Next ==
  \/ \E a \in AccountIds, u \in Users, cur \in Currencies : Open(a, u, cur)
  \/ \E a \in AccountIds : Close(a)
  \/ \E a \in AccountIds, cents \in Int64 : SetBalance(a, cents)
  \/ \E id \in TransferIds, from, to \in AccountIds, cents \in Int64 :
        Move(id, from, to, cents)

Spec == Init /\ [][Next]_vars
=============================================================================
