------------------------------- MODULE MCBank -------------------------------
(***************************************************************************)
(* Instances of Bank for TLC.                                              *)
(***************************************************************************)
EXTENDS Bank, SequencesExt, TLC

CONSTANTS c1, c2, c3,        \* calls
          alice, bob, carol, \* users
          usd, eur, xxx      \* currencies; xxx is not supported

MCUsers      == {alice, bob, carol}
MCCurrencies == {usd, eur}

Row(u, cur, n) == [owner |-> u, currency |-> cur, balance |-> n]

\* alice and bob each have an account in dollars.
TwoAccounts == <<Row(alice, usd, 3), Row(bob, usd, 1)>>
\* and alice one in euros, and carol one in dollars.
FourAccounts ==
  TwoAccounts \o <<Row(alice, eur, 2), Row(carol, usd, 2)>>

Pay(u, from, to, amount, cur) ==
  [op |-> "CreateTransfer", caller |-> u, from |-> from, to |-> to,
   amount |-> amount, currency |-> cur]
OpenAcc(u, cur)    == [op |-> "CreateAccount", caller |-> u, currency |-> cur]
Edit(u, id, n)     == [op |-> "UpdateAccount", caller |-> u, id |-> id, balance |-> n]
Drop(u, id)        == [op |-> "DeleteAccount", caller |-> u, id |-> id]
Get(u, id)         == [op |-> "GetAccount", caller |-> u, id |-> id]
LookUp(u, id)      == [op |-> "LookUpAccount", caller |-> u, id |-> id]

\* Every operation, on the right and on the wrong account: amounts that are
\* whole cents, a half cent, zero, too large, or no number; ids that never
\* existed; an unsupported currency; a currency that is not the account's.
Mixed == <<
  Pay(alice, 1, 2, 20, usd), Pay(bob, 2, 1, 10, usd), Pay(bob, 1, 2, 10, usd),
  Pay(alice, 1, 2, 15, usd), Pay(alice, 1, 2, 0, usd), Pay(alice, 1, 1, 10, usd),
  Pay(alice, 1, 2, NaN, usd), Pay(alice, 1, 2, 1000, usd),
  Pay(alice, 1, 3, 10, usd), Pay(alice, 5, 2, 10, usd), Pay(alice, 1, 5, 10, eur),
  OpenAcc(bob, eur), OpenAcc(alice, usd), OpenAcc(bob, xxx),
  Edit(alice, 1, 0), Edit(bob, 2, 64), Edit(bob, 1, 10), Edit(bob, 2, -10),
  Edit(alice, 3, 1000),
  Drop(alice, 1), Drop(bob, 2), Drop(alice, 3), Drop(bob, 5), Drop(bob, 0),
  Get(alice, 1), Get(bob, 3), LookUp(bob, 1), LookUp(bob, 5)>>

\* Transfers around three accounts in one currency: three transactions that
\* could wait for each other in a circle, or in a chain.
Ring == <<
  Pay(alice, 1, 2, 10, usd), Pay(bob, 2, 4, 10, usd), Pay(carol, 4, 1, 20, usd)>>

AllRequests == ToSet(Mixed) \cup ToSet(Ring)

Sends(r1, r2, r3) == (c1 :> r1) @@ (c2 :> r2) @@ (c3 :> r3)

\* Every two of Mixed, next to a call that is refused at once, and every three
\* of Ring.  Calls are interchangeable: one order of the requests is enough.
AllScenarios ==
  {Sends(Mixed[i], Mixed[j], Drop(bob, 0)) :
     <<i, j>> \in {p \in (1..Len(Mixed)) \X (1..Len(Mixed)) : p[1] <= p[2]}}
  \cup
  {Sends(Ring[i], Ring[j], Ring[k]) :
     <<i, j, k>> \in {p \in (1..3) \X (1..3) \X (1..3) : p[1] <= p[2] /\ p[2] <= p[3]}}

\* Alice spends the same three cents twice.
SpendRequests == {Pay(alice, 1, 2, 20, usd), Pay(alice, 1, 2, 30, usd)}

\* Four tenths of a cent.
TinyRequests == {Pay(alice, 1, 2, 4, usd), Pay(alice, 1, 2, 10, usd)}

EveryScenario == [Calls -> Requests]
=============================================================================
