--------------------------- MODULE MCRegistration ---------------------------
(***************************************************************************)
(* Instances of Registration for TLC.                                      *)
(***************************************************************************)
EXTENDS Registration, SequencesExt, TLC

CONSTANTS c1, c2, c3,   \* calls
          alice, bob,   \* usernames
          a, b          \* e-mail addresses

Register(u, e, ok)     == [op |-> "CreateUser", username |-> u, email |-> e, valid |-> ok]
Verify(id, code, ok)   == [op |-> "VerifyEmail", id |-> id, code |-> code, valid |-> ok]
Change(by, u, e, ok)   == [op |-> "UpdateUser", caller |-> by, username |-> u,
                           email |-> e, valid |-> ok]

\* Names and addresses that collide, changes of address, another user's
\* profile, and requests the validators refuse.
Registering == <<
  Register(alice, a, TRUE), Register(bob, a, TRUE), Register(bob, b, TRUE),
  Register(bob, b, FALSE), Change(bob, bob, a, TRUE),
  Change(alice, bob, b, TRUE), Change(alice, alice, NoEmail, TRUE)>>

\* One user registers, verifies, perhaps twice at a time, and changes the
\* address: with the right code, the code of another row, one never issued.
Verifying == <<
  Register(alice, a, TRUE), Verify(1, 1, TRUE), Verify(2, 2, TRUE),
  Verify(1, 2, TRUE), Verify(1, 0, TRUE), Verify(0, 0, FALSE),
  Change(alice, alice, b, TRUE)>>

AllRequests == ToSet(Registering) \cup ToSet(Verifying)

\* Three requests of s.  Calls are interchangeable: one order is enough.
Threes(s) ==
  {(c1 :> s[i]) @@ (c2 :> s[j]) @@ (c3 :> s[k]) :
     <<i, j, k>> \in {t \in (1..Len(s)) \X (1..Len(s)) \X (1..Len(s)) :
                        t[1] <= t[2] /\ t[2] <= t[3]}}

\* Three valid registrations at a time are all different.
AllScenarios ==
  LET registrations == ToSet(SubSeq(Registering, 1, 3))
      all(q)        == {q[c] : c \in Calls}
  IN  {q \in Threes(Registering) :
         all(q) \subseteq registrations => all(q) = registrations}
      \cup Threes(Verifying)

\* Without the change of address.
MailRequests == {Register(alice, a, TRUE), Verify(1, 1, TRUE)}

\* Without a wrong code.
ChangeRequests == {Register(alice, a, TRUE), Verify(1, 1, TRUE), Change(alice, alice, b, TRUE)}

EveryScenario == [Calls -> Requests]
=============================================================================
