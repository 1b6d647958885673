----------------------------- MODULE MCLegacy ------------------------------
(***************************************************************************)
(* Instances of Legacy for TLC.                                            *)
(***************************************************************************)
EXTENDS Legacy, TLC

CONSTANTS c1, c2, c3, alice, bob, eve, usd, eur, xxx

Row(u, cur, n) == [owner |-> u, currency |-> cur, balance |-> n]
TwoAccounts == <<Row(alice, usd, 3), Row(bob, usd, 1)>>

SignUp(u, ok)       == [op |-> "createUser", username |-> u, valid |-> ok]
Login(u, right, ok) == [op |-> "loginUser", username |-> u, right |-> right, valid |-> ok]
Renew(ok)           == [op |-> "renewAccessToken", valid |-> ok]
OpenAcc(cur)        == [op |-> "createAccount", currency |-> cur]
Get(a)              == [op |-> "getAccount", id |-> a]
List(p, n)          == [op |-> "listAccounts", page |-> p, size |-> n]
Edit(a, n)          == [op |-> "updateAccount", id |-> a, balance |-> n]
Drop(a)             == [op |-> "deleteAccount", id |-> a]
Pay(f, t, n, cur)   == [op |-> "createTransfer", from |-> f, to |-> t,
                        amount |-> n, currency |-> cur]

\* What a call can do alone: requests the bindings refuse, names and ids that
\* do not exist, a wrong password, a currency that is not the account's, pages
\* whose offset wraps to a negative number and to zero.
Alone == {SignUp(eve, FALSE), Login(eve, TRUE, TRUE), Login(bob, FALSE, TRUE),
          Login(bob, TRUE, FALSE), Renew(FALSE), OpenAcc(xxx), Get(0), Get(9), Get(2),
          List(0, 1), List(1, 101), List(2, 1), List(127, 2), List(65, 4),
          Edit(0, 10), Edit(1, 0), Edit(1, -10), Edit(1, 5), Edit(1, 1000), Drop(0),
          Pay(0, 1, 10, usd), Pay(1, 2, 0, usd),
          Pay(1, 2, 10, xxx), Pay(1, 2, 10, eur), Pay(9, 2, 10, usd), Pay(1, 9, 10, usd),
          Pay(1, 2, 5, usd), Pay(1, 2, 1000, usd), Pay(1, 1, 1000, usd)}

\* What two calls can do to one another.
Together == {SignUp(eve, TRUE), Login(alice, TRUE, TRUE), Renew(TRUE), OpenAcc(usd),
             OpenAcc(eur), List(1, 2), Edit(1, 10), Drop(1), Drop(2),
             Pay(1, 2, 20, usd), Pay(1, 1, 20, usd), Pay(2, 1, 10, usd)}

AllRequests == Alone \cup Together

\* Any two of Together; a login, a renewal and what is done with the new token;
\* each of Alone beside a login.  Pong is refused by its binding.
Pong == Renew(FALSE)

Three(x, y, z) == (c1 :> x) @@ (c2 :> y) @@ (c3 :> z)

AllScenarios ==
  {Three(x, y, Pong) : x \in Together, y \in Together}
    \cup {Three(Login(alice, TRUE, TRUE), Renew(TRUE), z) : z \in Together}
    \cup {Three(x, Login(alice, TRUE, TRUE), Pong) : x \in Alone}
=============================================================================
