----------------------------- MODULE MCSessions -----------------------------
(***************************************************************************)
(* Instances of Sessions for TLC.                                          *)
(***************************************************************************)
EXTENDS Sessions, TLC

CONSTANTS c1, c2, c3,         \* calls
          alice, bob, carol,  \* carol is not registered
          p, q

Initially == (alice :> p) @@ (bob :> p)

Login(u, pw)  == [op |-> "LoginUser", username |-> u, password |-> pw, valid |-> TRUE]
Refresh       == [op |-> "RenewAccessToken", valid |-> TRUE]
Change(u, pw) == [op |-> "UpdateUser", username |-> u, password |-> pw, valid |-> TRUE]
Malformed(r)  == [r EXCEPT !.valid = FALSE]

\* Logins of two users, with the old, the new and a stranger's password, what
\* can be done with the tokens, and a malformed request of each kind.
AllRequests ==
  {Login(alice, p), Login(alice, q), Login(bob, p), Login(carol, p),
   Refresh, Change(alice, q),
   Malformed(Login(alice, p)), Malformed(Refresh), Malformed(Change(alice, q))}
=============================================================================
