------------------------ MODULE Registration_proofs -------------------------
(***************************************************************************)
(* For any calls, names, addresses and requests, any number of retries and *)
(* workers and any delays: unique addresses, atomic verification by a code *)
(* that was mailed, once, and bounded codes.                               *)
(***************************************************************************)
EXTENDS Registration, FiniteSetTheorems, SequenceTheorems, TLAPS

-----------------------------------------------------------------------------
(* The inductive invariant.                                                *)

\* The step of a handler tells which request it serves.
Serves(c) ==
  /\ pc[c] \in {"insertUser", "enqueue", "commitUser", "exists"} => req[c].op = "CreateUser"
  /\ pc[c] \in {"useCode", "markUser", "commitVerify"} => req[c].op = "VerifyEmail"
  /\ pc[c] = "updateUser" => req[c].op = "UpdateUser"
  /\ pc[c] # "done" => resp[c] = "none"

\* CreateUserTx: the user is inserted, then the task enqueued, then all of it
\* committed or rolled back.
Registers(c) ==
  /\ inserted[c] => /\ req[c].op = "CreateUser"
                    /\ pc[c] \in {"enqueue", "commitUser", "rollback"}
  /\ pc[c] \in {"enqueue", "commitUser"} => inserted[c]
  /\ pc[c] = "commitUser" => task[c] # "absent"
  /\ task[c] # "absent" => /\ req[c].op = "CreateUser"
                           /\ pc[c] \in {"commitUser", "rollback", "done"}

\* The worker has read the user, and mails the code to the address on its row.
Works(t) ==
  /\ task[t] \in {"createCode", "send"} => /\ req[t].username \in DOMAIN users
                                           /\ address[t] \in Emails
  /\ task[t] = "send" => /\ sending[t] # 0
                         /\ verifyEmails[sending[t]].email = address[t]

\* VerifyEmailTx has claimed the row it was asked for, whose code was mailed
\* and had not expired when it began.
Verifies(c) ==
  /\ pc[c] = "useCode" /\ req[c].code > 0 => Mailed(req[c].code)
  /\ claimed[c] # 0 =>
       /\ req[c].op = "VerifyEmail" /\ req[c].id = claimed[c]
       /\ pc[c] \in {"markUser", "commitVerify", "rollback"}
       /\ Mailed(claimed[c])
       /\ start[c] < verifyEmails[claimed[c]].expires
  /\ pc[c] \in {"markUser", "commitVerify"} => claimed[c] # 0

\* A call that was told its code is used has used it.
Succeeded(c) ==
  (req[c].op = "VerifyEmail" /\ resp[c] = "OK") =>
    /\ req[c].id \in DOMAIN verifyEmails
    /\ verifyEmails[req[c].id].used
    /\ start[c] < verifyEmails[req[c].id].expires

\* The users that open transactions have inserted are new, and differ.
NamesFree ==
  \A c \in Calls : inserted[c] => ~Taken(req[c].username, req[c].email)

NamesApart ==
  \A c, d \in Calls : c # d /\ inserted[c] /\ inserted[d] =>
    req[c].username # req[d].username /\ req[c].email # req[d].email

\* The codes that open transactions have claimed are unused, and differ.
ClaimsOpen ==
  \A c \in Calls : claimed[c] # 0 => ~verifyEmails[claimed[c]].used

ClaimsApart ==
  \A c, d \in Calls : c # d /\ claimed[c] # 0 => claimed[c] # claimed[d]

\* Codes are only of users, and mailed only to the address on their row.
RowsOfUsers == \A i \in DOMAIN verifyEmails : verifyEmails[i].username \in DOMAIN users

MailsMatch == \A m \in mails : m.to = verifyEmails[m.code].email

\* The k-th attempt of task t may have created a code.
Tried(t, k) ==
  /\ task[t] # "absent"
  /\ \/ k < retried[t]
     \/ k = retried[t] /\ task[t] \in {"send", "completed", "archived"}

\* Every code was created by an attempt of its own.
Attributed ==
  \E f \in [DOMAIN verifyEmails -> Calls \X (0..MaxRetry)] :
    /\ \A i, j \in DOMAIN verifyEmails : f[i] = f[j] => i = j
    /\ \A i \in DOMAIN verifyEmails :
         /\ Tried(f[i][1], f[i][2])
         /\ req[f[i][1]].username = verifyEmails[i].username

CallInv(c) == Serves(c) /\ Registers(c) /\ Works(c) /\ Verifies(c) /\ Succeeded(c)

IInv ==
  /\ TypeOK
  /\ \A c \in Calls : CallInv(c)
  /\ NamesFree /\ NamesApart /\ UniqueEmail /\ RegisteredHasTask
  /\ ClaimsOpen /\ ClaimsApart /\ CodeUsedOnce
  /\ RowsOfUsers /\ VerificationAtomic
  /\ MailsMatch
  /\ Attributed

-----------------------------------------------------------------------------
(* What requests are, and what every step leaves alone.                    *)

\* The fields a request has.
LEMMA RequestType ==
  ASSUME NEW r \in Requests
  PROVE  /\ r.op \in {"CreateUser", "VerifyEmail", "UpdateUser"}
         /\ r.op = "CreateUser" => r.username \in Usernames /\ r.email \in Emails
         /\ r.op = "UpdateUser" => r.username \in Usernames /\ r.email \in Emails \cup {NoEmail}
         /\ r.op = "VerifyEmail" => r.id \in Int /\ r.code \in Int
BY RegistrationAssumption DEF CreateUserRequest, VerifyEmailRequest, UpdateUserRequest

\* A row is never removed, and only its flag changes, once.
RowsKept ==
  \A i \in DOMAIN verifyEmails :
    /\ i \in DOMAIN verifyEmails'
    /\ verifyEmails'[i].username = verifyEmails[i].username
    /\ verifyEmails'[i].email = verifyEmails[i].email
    /\ verifyEmails'[i].expires = verifyEmails[i].expires
    /\ verifyEmails[i].used => verifyEmails'[i].used

\* A step of the calls in C: it takes back no mail, user, code, task or answer.
StepOf(C) ==
  /\ req' = req /\ mails \subseteq mails'
  /\ DOMAIN users \subseteq DOMAIN users' /\ RowsKept
  /\ \A d \in Calls : /\ task[d] # "absent" => task'[d] # "absent"
                      /\ resp[d] = "OK" => resp'[d] = "OK" /\ start'[d] = start[d]
  /\ \A d \in Calls \ C :
       /\ pc'[d] = pc[d] /\ resp'[d] = resp[d] /\ start'[d] = start[d]
       /\ inserted'[d] = inserted[d] /\ claimed'[d] = claimed[d]
       /\ task'[d] = task[d] /\ address'[d] = address[d] /\ sending'[d] = sending[d]

\* What was mailed remains mailed.
LEMMA MailedRemains ==
  ASSUME NEW C \in SUBSET Calls, StepOf(C), NEW i, Mailed(i)
  PROVE  Mailed(i)'
BY DEF StepOf, Mailed

\* The invariant of the calls that do not move.
LEMMA OthersKept ==
  ASSUME IInv, NEW C \in SUBSET Calls, StepOf(C), NEW d \in Calls \ C
  PROVE  CallInv(d)'
<1> USE DEF IInv, CallInv
<1>1. Serves(d)'
  BY DEF StepOf, Serves
<1>2. Registers(d)'
  BY DEF StepOf, Registers
<1>3. Works(d)'
  <2>1. sending[d] \in {0} \cup DOMAIN verifyEmails
    BY DEF TypeOK
  <2> QED BY <2>1 DEF StepOf, RowsKept, Works
<1>4. Verifies(d)'
  <2>1. claimed[d] \in {0} \cup DOMAIN verifyEmails
    BY DEF TypeOK
  <2>2. pc'[d] = "useCode" /\ req'[d].code > 0 => Mailed(req[d].code)'
    BY MailedRemains DEF StepOf, Verifies
  <2>3. claimed'[d] # 0 => Mailed(claimed[d])'
    BY MailedRemains DEF StepOf, Verifies
  <2> QED BY <2>1, <2>2, <2>3 DEF StepOf, RowsKept, Verifies
<1>5. Succeeded(d)'
  BY DEF StepOf, RowsKept, Succeeded
<1> QED BY <1>1, <1>2, <1>3, <1>4, <1>5

\* No name is taken, or taken twice, while no user is added or renamed.
LEMMA NamesKept ==
  ASSUME IInv, NEW C \in SUBSET Calls, StepOf(C), users' = users,
         \A d \in Calls : inserted'[d] => inserted[d]
  PROVE  NamesFree' /\ NamesApart' /\ UniqueEmail'
<1>1. req' = req
  BY DEF StepOf
<1>2. NamesFree'
  BY <1>1 DEF IInv, NamesFree, Taken
<1>3. NamesApart'
  BY <1>1 DEF IInv, NamesApart
<1>4. UniqueEmail'
  BY DEF IInv, UniqueEmail
<1> QED BY <1>2, <1>3, <1>4

\* The users there are have their tasks.
LEMMA OldTasksKept ==
  ASSUME IInv, NEW C \in SUBSET Calls, StepOf(C), NEW u \in DOMAIN users
  PROVE  \E t \in Calls : req'[t].op = "CreateUser" /\ req'[t].username = u /\ task'[t] # "absent"
BY DEF IInv, RegisteredHasTask, StepOf

\* No code is claimed, or used, anew.
LEMMA ClaimsKept ==
  ASSUME IInv, NEW C \in SUBSET Calls, StepOf(C),
         \A i \in DOMAIN verifyEmails : verifyEmails'[i].used = verifyEmails[i].used,
         \A d \in Calls : claimed'[d] \in {0, claimed[d]}
  PROVE  ClaimsOpen' /\ ClaimsApart'
<1>1. \A d \in Calls : claimed[d] \in {0} \cup DOMAIN verifyEmails
  BY DEF IInv, TypeOK
<1>2. ClaimsOpen'
  BY <1>1 DEF IInv, ClaimsOpen
<1>3. ClaimsApart'
  BY DEF IInv, ClaimsApart
<1> QED BY <1>2, <1>3

\* A call that succeeded before still has its code for itself.
LEMMA CodesKept ==
  ASSUME IInv, NEW C \in SUBSET Calls, StepOf(C),
         \A i \in DOMAIN verifyEmails' : verifyEmails'[i].used =>
            i \in DOMAIN verifyEmails /\ verifyEmails[i].used,
         \A d \in Calls : req[d].op = "VerifyEmail" /\ resp'[d] = "OK" => resp[d] = "OK"
  PROVE  CodeUsedOnce'
<1> USE DEF IInv, CallInv, CodeUsedOnce
<1>1. req' = req
  BY DEF StepOf
<1>2. ASSUME NEW i \in DOMAIN verifyEmails', verifyEmails'[i].used
      PROVE  [to |-> verifyEmails'[i].email, code |-> i] \in mails'
  BY <1>2 DEF StepOf, RowsKept
<1>3. ASSUME NEW c \in Calls, req[c].op = "VerifyEmail", resp'[c] = "OK"
      PROVE  /\ verifyEmails'[req[c].id].used
             /\ start'[c] < verifyEmails'[req[c].id].expires
             /\ \A d \in Calls \ {c} :
                  req[d].op = "VerifyEmail" /\ resp'[d] = "OK" => req[d].id # req[c].id
  <2>1. resp[c] = "OK" /\ req[c].id \in DOMAIN verifyEmails
    BY <1>3 DEF Succeeded
  <2> QED BY <1>3, <2>1 DEF StepOf, RowsKept
<1> QED BY <1>1, <1>2, <1>3

\* Attempts are not forgotten.
LEMMA AttributionKept ==
  ASSUME IInv, NEW C \in SUBSET Calls, StepOf(C),
         DOMAIN verifyEmails' = DOMAIN verifyEmails,
         \A t \in Calls : \A k \in 0..MaxRetry : Tried(t, k) => Tried(t, k)'
  PROVE  Attributed'
<1>1. PICK f \in [DOMAIN verifyEmails -> Calls \X (0..MaxRetry)] :
        /\ \A i, j \in DOMAIN verifyEmails : f[i] = f[j] => i = j
        /\ \A i \in DOMAIN verifyEmails :
             /\ Tried(f[i][1], f[i][2])
             /\ req[f[i][1]].username = verifyEmails[i].username
  BY DEF IInv, Attributed
<1>2. ASSUME NEW i \in DOMAIN verifyEmails
      PROVE  /\ Tried(f[i][1], f[i][2])'
             /\ req'[f[i][1]].username = verifyEmails'[i].username
  <2>1. f[i][1] \in Calls /\ f[i][2] \in 0..MaxRetry
    BY <1>1
  <2>2. /\ Tried(f[i][1], f[i][2])
        /\ req[f[i][1]].username = verifyEmails[i].username
    BY <1>1
  <2> QED BY <2>1, <2>2 DEF StepOf, RowsKept
<1>3. f \in [DOMAIN verifyEmails' -> Calls \X (0..MaxRetry)]
  OBVIOUS
<1> QED BY <1>1, <1>2, <1>3 DEF Attributed

\* A step that changes no table, inserts nothing, claims nothing and tells
\* nobody that a code is used.
LEMMA QuietStep ==
  ASSUME IInv, NEW C \in SUBSET Calls, StepOf(C), TypeOK',
         UNCHANGED <<users, verifyEmails, mails>>,
         \A d \in Calls : inserted'[d] => inserted[d],
         \A d \in Calls : claimed'[d] \in {0, claimed[d]},
         \A d \in Calls : req[d].op = "VerifyEmail" /\ resp'[d] = "OK" => resp[d] = "OK",
         \A t \in Calls : \A k \in 0..MaxRetry : Tried(t, k) => Tried(t, k)',
         \A c \in C : CallInv(c)'
  PROVE  IInv'
<1>1. \A d \in Calls : CallInv(d)'
  BY OthersKept
<1>2. NamesFree' /\ NamesApart' /\ UniqueEmail'
  BY NamesKept
<1>3. RegisteredHasTask'
  BY OldTasksKept DEF RegisteredHasTask
<1>4. ClaimsOpen' /\ ClaimsApart'
  BY ClaimsKept
<1>5. CodeUsedOnce'
  BY CodesKept
<1>6. RowsOfUsers' /\ VerificationAtomic' /\ MailsMatch'
  BY DEF IInv, RowsOfUsers, VerificationAtomic, MailsMatch
<1>7. Attributed'
  BY AttributionKept
<1> QED BY <1>1, <1>2, <1>3, <1>4, <1>5, <1>6, <1>7 DEF IInv

-----------------------------------------------------------------------------
(* The initial states, and the quiet steps.                                *)

LEMMA InitInv == Init => IInv
<1> SUFFICES ASSUME Init PROVE IInv
  OBVIOUS
<1>1. DOMAIN users = {} /\ DOMAIN verifyEmails = {} /\ verifyEmails \in Seq(VerifyEmail)
  BY EmptySeq DEF Init
<1>2. req \in [Calls -> Requests]
  BY RegistrationAssumption DEF Init
<1>3. TypeOK
  BY <1>1, <1>2, RegistrationAssumption DEF Init, TypeOK, PC, Codes
<1>4. \A c \in Calls : CallInv(c)
  BY DEF Init, CallInv, Serves, Registers, Works, Verifies, Succeeded
<1>5. /\ NamesFree /\ NamesApart /\ UniqueEmail /\ RegisteredHasTask
      /\ ClaimsOpen /\ ClaimsApart
  BY <1>1 DEF Init, NamesFree, NamesApart, UniqueEmail, RegisteredHasTask, ClaimsOpen, ClaimsApart
<1>6. CodeUsedOnce /\ RowsOfUsers /\ VerificationAtomic /\ MailsMatch
  BY <1>1 DEF Init, CodeUsedOnce, RowsOfUsers, VerificationAtomic, MailsMatch
<1>7. Attributed
  <2> DEFINE f == [i \in {} |-> <<0, 0>>]
  <2>1. f \in [DOMAIN verifyEmails -> Calls \X (0..MaxRetry)]
    BY <1>1
  <2> QED BY <1>1, <2>1 DEF Attributed
<1> QED BY <1>3, <1>4, <1>5, <1>6, <1>7 DEF IInv

\* A client knows a code only from a mail.
LEMMA ReceiveInv ==
  ASSUME IInv, NEW c \in Calls, Receive(c)
  PROVE  IInv'
<1> USE DEF IInv, CallInv
<1>1. StepOf({c})
  BY DEF Receive, StepOf, RowsKept, TypeOK, Serves, callVars, txVars, taskVars, Goto, Answer
<1>2. TypeOK'
  <2>1. pc' \in [Calls -> PC] /\ resp' \in [Calls -> Codes \cup {"none"}]
    BY DEF Receive, TypeOK, PC, Codes, Goto, Answer
  <2>2. start' \in [Calls -> 0..MaxTime]
    BY RegistrationAssumption DEF Receive, TypeOK
  <2> QED BY <2>1, <2>2 DEF Receive, TypeOK, txVars, taskVars
<1>3. Serves(c)' /\ Registers(c)'
  BY RequestType DEF Receive, TypeOK, Serves, Registers, Verifies, Active, callVars, txVars, taskVars, Goto, Answer
<1>4. Works(c)'
  BY DEF Receive, TypeOK, Works, callVars, txVars, taskVars, Goto, Answer
<1>5. Verifies(c)'
  BY DEF Receive, TypeOK, Verifies, Mailed, Serves, callVars, txVars, taskVars, Goto, Answer
<1>6. Succeeded(c)'
  BY DEF Receive, TypeOK, Succeeded, Serves, callVars, txVars, taskVars, Goto, Answer
<1>7. /\ UNCHANGED <<users, verifyEmails, mails>>
      /\ \A d \in Calls : inserted'[d] => inserted[d]
      /\ \A d \in Calls : claimed'[d] \in {0, claimed[d]}
      /\ \A d \in Calls : req[d].op = "VerifyEmail" /\ resp'[d] = "OK" => resp[d] = "OK"
  BY DEF Receive, TypeOK, callVars, txVars, taskVars, Goto, Answer
<1>8. \A t \in Calls : \A k \in 0..MaxRetry : Tried(t, k) => Tried(t, k)'
  BY DEF Receive, TypeOK, Tried, Registers, callVars, txVars, taskVars, Goto, Answer
<1> QED BY <1>1, <1>2, <1>3, <1>4, <1>5, <1>6, <1>7, <1>8, QuietStep

\* A task is due by the last instant.
LEMMA ScheduleType ==
  ASSUME TypeOK, NEW c \in Calls, Schedule(c)
  PROVE  runAt' \in [Calls -> 0..MaxTime]
<1> DEFINE at == IF now + ProcessIn > MaxTime THEN MaxTime ELSE now + ProcessIn
<1>1. at \in 0..MaxTime
  BY RegistrationAssumption DEF TypeOK
<1>2. runAt' = [runAt EXCEPT ![c] = at]
  BY DEF Schedule
<1> QED BY <1>1, <1>2 DEF TypeOK

\* The task exists before the user does.
LEMMA EnqueueInv ==
  ASSUME IInv, NEW c \in Calls, Enqueue(c)
  PROVE  IInv'
<1> USE DEF IInv, CallInv
<1>1. StepOf({c})
  BY DEF Enqueue, StepOf, RowsKept, TypeOK, Serves, callVars, txVars, taskVars, Goto, Schedule
<1>2. TypeOK'
  <2>1. pc' \in [Calls -> PC] /\ task' \in [Calls -> Active \cup Settled \cup {"absent", "scheduled"}]
    BY DEF Enqueue, Goto, Schedule, TypeOK, PC
  <2>2. runAt' \in [Calls -> 0..MaxTime]
    BY ScheduleType DEF Enqueue
  <2> QED BY <2>1, <2>2 DEF Enqueue, Goto, Schedule, TypeOK, txVars
<1>3. Serves(c)' /\ Registers(c)'
  BY RequestType DEF Enqueue, TypeOK, Serves, Registers, Verifies, Active, callVars, txVars, taskVars, Goto, Schedule
<1>4. Works(c)'
  BY DEF Enqueue, TypeOK, Works, callVars, txVars, taskVars, Goto, Schedule
<1>5. Verifies(c)'
  BY DEF Enqueue, TypeOK, Verifies, Mailed, Serves, callVars, txVars, taskVars, Goto, Schedule
<1>6. Succeeded(c)'
  BY DEF Enqueue, TypeOK, Succeeded, Serves, callVars, txVars, taskVars, Goto, Schedule
<1>7. /\ UNCHANGED <<users, verifyEmails, mails>>
      /\ \A d \in Calls : inserted'[d] => inserted[d]
      /\ \A d \in Calls : claimed'[d] \in {0, claimed[d]}
      /\ \A d \in Calls : req[d].op = "VerifyEmail" /\ resp'[d] = "OK" => resp[d] = "OK"
  BY DEF Enqueue, TypeOK, callVars, txVars, taskVars, Goto, Schedule
<1>8. \A t \in Calls : \A k \in 0..MaxRetry : Tried(t, k) => Tried(t, k)'
  BY DEF Enqueue, TypeOK, Tried, Registers, callVars, txVars, taskVars, Goto, Schedule
<1> QED BY <1>1, <1>2, <1>3, <1>4, <1>5, <1>6, <1>7, <1>8, QuietStep

\* The task may exist though the enqueuing failed.
LEMMA EnqueueFailsInv ==
  ASSUME IInv, NEW c \in Calls, EnqueueFails(c)
  PROVE  IInv'
<1> USE DEF IInv, CallInv
<1>1. StepOf({c})
  BY DEF EnqueueFails, StepOf, RowsKept, TypeOK, Serves, callVars, txVars, taskVars, Goto, Schedule
<1>2. TypeOK'
  <2>1. pc' \in [Calls -> PC] /\ task' \in [Calls -> Active \cup Settled \cup {"absent", "scheduled"}]
    BY DEF EnqueueFails, Goto, Schedule, TypeOK, PC, taskVars
  <2>2. runAt' \in [Calls -> 0..MaxTime]
    BY ScheduleType DEF EnqueueFails, TypeOK, taskVars
  <2>3. UNCHANGED <<retried, address, sending>>
    BY DEF EnqueueFails, Schedule, taskVars
  <2> QED BY <2>1, <2>2, <2>3 DEF EnqueueFails, Goto, TypeOK, txVars
<1>3. Serves(c)' /\ Registers(c)'
  BY RequestType DEF EnqueueFails, TypeOK, Serves, Registers, Verifies, Active, callVars, txVars, taskVars, Goto, Schedule
<1>4. Works(c)'
  BY DEF EnqueueFails, TypeOK, Works, callVars, txVars, taskVars, Goto, Schedule
<1>5. Verifies(c)'
  BY DEF EnqueueFails, TypeOK, Verifies, Mailed, Serves, callVars, txVars, taskVars, Goto, Schedule
<1>6. Succeeded(c)'
  BY DEF EnqueueFails, TypeOK, Succeeded, Serves, callVars, txVars, taskVars, Goto, Schedule
<1>7. /\ UNCHANGED <<users, verifyEmails, mails>>
      /\ \A d \in Calls : inserted'[d] => inserted[d]
      /\ \A d \in Calls : claimed'[d] \in {0, claimed[d]}
      /\ \A d \in Calls : req[d].op = "VerifyEmail" /\ resp'[d] = "OK" => resp[d] = "OK"
  BY DEF EnqueueFails, TypeOK, callVars, txVars, taskVars, Goto, Schedule
<1>8. \A t \in Calls : \A k \in 0..MaxRetry : Tried(t, k) => Tried(t, k)'
  BY DEF EnqueueFails, TypeOK, Tried, Registers, callVars, txVars, taskVars, Goto, Schedule
<1> QED BY <1>1, <1>2, <1>3, <1>4, <1>5, <1>6, <1>7, <1>8, QuietStep

\* A rollback gives up what was inserted and claimed.
LEMMA RollbackInv ==
  ASSUME IInv, NEW c \in Calls, Rollback(c)
  PROVE  IInv'
<1> USE DEF IInv, CallInv
<1>1. StepOf({c})
  BY DEF Rollback, StepOf, RowsKept, TypeOK, Serves, callVars, txVars, taskVars, Answer, EndTx
<1>2. TypeOK'
  BY RegistrationAssumption DEF Rollback, TypeOK, PC, Codes, Active, Settled, callVars, txVars, taskVars, Answer, EndTx
<1>3. Serves(c)' /\ Registers(c)'
  BY RequestType DEF Rollback, TypeOK, Serves, Registers, Verifies, Active, callVars, txVars, taskVars, Answer, EndTx
<1>4. Works(c)'
  BY DEF Rollback, TypeOK, Works, callVars, txVars, taskVars, Answer, EndTx
<1>5. Verifies(c)'
  BY DEF Rollback, TypeOK, Verifies, Mailed, Serves, callVars, txVars, taskVars, Answer, EndTx
<1>6. Succeeded(c)'
  BY DEF Rollback, TypeOK, Succeeded, Serves, callVars, txVars, taskVars, Answer, EndTx
<1>7. /\ UNCHANGED <<users, verifyEmails, mails>>
      /\ \A d \in Calls : inserted'[d] => inserted[d]
      /\ \A d \in Calls : claimed'[d] \in {0, claimed[d]}
      /\ \A d \in Calls : req[d].op = "VerifyEmail" /\ resp'[d] = "OK" => resp[d] = "OK"
  BY DEF Rollback, TypeOK, callVars, txVars, taskVars, Answer, EndTx
<1>8. \A t \in Calls : \A k \in 0..MaxRetry : Tried(t, k) => Tried(t, k)'
  BY DEF Rollback, TypeOK, Tried, Registers, callVars, txVars, taskVars, Answer, EndTx
<1> QED BY <1>1, <1>2, <1>3, <1>4, <1>5, <1>6, <1>7, <1>8, QuietStep

\* The user's row is locked.
LEMMA MarkUserInv ==
  ASSUME IInv, NEW c \in Calls, MarkUser(c)
  PROVE  IInv'
<1> USE DEF IInv, CallInv
<1>1. StepOf({c})
  BY DEF MarkUser, StepOf, RowsKept, TypeOK, Serves, callVars, txVars, taskVars, Goto
<1>2. TypeOK'
  BY RegistrationAssumption DEF MarkUser, TypeOK, PC, Codes, Active, Settled, callVars, txVars, taskVars, Goto
<1>3. Serves(c)' /\ Registers(c)'
  BY RequestType DEF MarkUser, TypeOK, Serves, Registers, Verifies, Active, callVars, txVars, taskVars, Goto
<1>4. Works(c)'
  BY DEF MarkUser, TypeOK, Works, callVars, txVars, taskVars, Goto
<1>5. Verifies(c)'
  BY DEF MarkUser, TypeOK, Verifies, Mailed, Serves, callVars, txVars, taskVars, Goto
<1>6. Succeeded(c)'
  BY DEF MarkUser, TypeOK, Succeeded, Serves, callVars, txVars, taskVars, Goto
<1>7. /\ UNCHANGED <<users, verifyEmails, mails>>
      /\ \A d \in Calls : inserted'[d] => inserted[d]
      /\ \A d \in Calls : claimed'[d] \in {0, claimed[d]}
      /\ \A d \in Calls : req[d].op = "VerifyEmail" /\ resp'[d] = "OK" => resp[d] = "OK"
  BY DEF MarkUser, TypeOK, callVars, txVars, taskVars, Goto
<1>8. \A t \in Calls : \A k \in 0..MaxRetry : Tried(t, k) => Tried(t, k)'
  BY DEF MarkUser, TypeOK, Tried, Registers, callVars, txVars, taskVars, Goto
<1> QED BY <1>1, <1>2, <1>3, <1>4, <1>5, <1>6, <1>7, <1>8, QuietStep

\* A statement fails.
LEMMA FailInv ==
  ASSUME IInv, NEW c \in Calls, Fail(c)
  PROVE  IInv'
<1> USE DEF IInv, CallInv
<1>1. StepOf({c})
  BY DEF Fail, StepOf, RowsKept, TypeOK, Serves, callVars, txVars, taskVars, Goto, Answer
<1>2. TypeOK'
  BY RegistrationAssumption DEF Fail, TypeOK, PC, Codes, Active, Settled, callVars, txVars, taskVars, Goto, Answer
<1>3. Serves(c)' /\ Registers(c)'
  BY RequestType DEF Fail, TypeOK, Serves, Registers, Verifies, Active, callVars, txVars, taskVars, Goto, Answer
<1>4. Works(c)'
  BY DEF Fail, TypeOK, Works, callVars, txVars, taskVars, Goto, Answer
<1>5. Verifies(c)'
  BY DEF Fail, TypeOK, Verifies, Mailed, Serves, callVars, txVars, taskVars, Goto, Answer
<1>6. Succeeded(c)'
  BY DEF Fail, TypeOK, Succeeded, Serves, callVars, txVars, taskVars, Goto, Answer
<1>7. /\ UNCHANGED <<users, verifyEmails, mails>>
      /\ \A d \in Calls : inserted'[d] => inserted[d]
      /\ \A d \in Calls : claimed'[d] \in {0, claimed[d]}
      /\ \A d \in Calls : req[d].op = "VerifyEmail" /\ resp'[d] = "OK" => resp[d] = "OK"
  BY DEF Fail, TypeOK, callVars, txVars, taskVars, Goto, Answer
<1>8. \A t \in Calls : \A k \in 0..MaxRetry : Tried(t, k) => Tried(t, k)'
  BY DEF Fail, TypeOK, Tried, Registers, callVars, txVars, taskVars, Goto, Answer
<1> QED BY <1>1, <1>2, <1>3, <1>4, <1>5, <1>6, <1>7, <1>8, QuietStep

\* A worker takes a task.
LEMMA DequeueInv ==
  ASSUME IInv, NEW c \in Calls, Dequeue(c)
  PROVE  IInv'
<1> USE DEF IInv, CallInv
<1>1. StepOf({c})
  BY DEF Dequeue, StepOf, RowsKept, TypeOK, Serves, callVars, txVars, taskVars
<1>2. TypeOK'
  BY RegistrationAssumption DEF Dequeue, TypeOK, PC, Codes, Active, Settled, callVars, txVars, taskVars
<1>3. Serves(c)' /\ Registers(c)'
  BY RequestType DEF Dequeue, TypeOK, Serves, Registers, Verifies, Active, callVars, txVars, taskVars
<1>4. Works(c)'
  BY DEF Dequeue, TypeOK, Works, callVars, txVars, taskVars
<1>5. Verifies(c)'
  BY DEF Dequeue, TypeOK, Verifies, Mailed, Serves, callVars, txVars, taskVars
<1>6. Succeeded(c)'
  BY DEF Dequeue, TypeOK, Succeeded, Serves, callVars, txVars, taskVars
<1>7. /\ UNCHANGED <<users, verifyEmails, mails>>
      /\ \A d \in Calls : inserted'[d] => inserted[d]
      /\ \A d \in Calls : claimed'[d] \in {0, claimed[d]}
      /\ \A d \in Calls : req[d].op = "VerifyEmail" /\ resp'[d] = "OK" => resp[d] = "OK"
  BY DEF Dequeue, TypeOK, callVars, txVars, taskVars
<1>8. \A t \in Calls : \A k \in 0..MaxRetry : Tried(t, k) => Tried(t, k)'
  BY DEF Dequeue, TypeOK, Tried, Registers, callVars, txVars, taskVars
<1> QED BY <1>1, <1>2, <1>3, <1>4, <1>5, <1>6, <1>7, <1>8, QuietStep

\* The worker reads the address of a user, or gives the task up.
LEMMA GetUserInv ==
  ASSUME IInv, NEW c \in Calls, GetUser(c)
  PROVE  IInv'
<1> USE DEF IInv, CallInv
<1>1. StepOf({c})
  BY DEF GetUser, StepOf, RowsKept, TypeOK, Serves, callVars, txVars, taskVars, Found, User
<1>2. TypeOK'
  <2>1. \A row \in Found(req[c].username) : row.email \in Emails
    BY DEF Found, TypeOK, User
  <2>2. address' \in [Calls -> Emails \cup {NoEmail}]
    BY <2>1 DEF GetUser, TypeOK
  <2>3. task' \in [Calls -> Active \cup Settled \cup {"absent", "scheduled"}]
    BY DEF GetUser, TypeOK, Active, Settled
  <2> QED BY <2>2, <2>3 DEF GetUser, TypeOK, callVars, txVars
<1>3. Serves(c)' /\ Registers(c)'
  BY RequestType DEF GetUser, TypeOK, Serves, Registers, Verifies, Active, callVars, txVars, taskVars, Found, User
<1>4. Works(c)'
  BY DEF GetUser, TypeOK, Works, callVars, txVars, taskVars, Found, User
<1>5. Verifies(c)'
  BY DEF GetUser, TypeOK, Verifies, Mailed, Serves, callVars, txVars, taskVars, Found, User
<1>6. Succeeded(c)'
  BY DEF GetUser, TypeOK, Succeeded, Serves, callVars, txVars, taskVars, Found, User
<1>7. /\ UNCHANGED <<users, verifyEmails, mails>>
      /\ \A d \in Calls : inserted'[d] => inserted[d]
      /\ \A d \in Calls : claimed'[d] \in {0, claimed[d]}
      /\ \A d \in Calls : req[d].op = "VerifyEmail" /\ resp'[d] = "OK" => resp[d] = "OK"
  BY DEF GetUser, TypeOK, callVars, txVars, taskVars, Found, User
<1>8. \A t \in Calls : \A k \in 0..MaxRetry : Tried(t, k) => Tried(t, k)'
  BY DEF GetUser, TypeOK, Tried, Registers, callVars, txVars, taskVars, Found, User
<1> QED BY <1>1, <1>2, <1>3, <1>4, <1>5, <1>6, <1>7, <1>8, QuietStep

LEMMA TickInv ==
  ASSUME IInv, Tick
  PROVE  IInv'
<1>1. StepOf({})
  BY DEF Tick, StepOf, RowsKept, callVars, txVars, taskVars
<1>2. TypeOK'
  BY RegistrationAssumption DEF Tick, IInv, TypeOK, callVars, txVars, taskVars
<1>3. \A t \in Calls : \A k \in 0..MaxRetry : Tried(t, k) => Tried(t, k)'
  BY DEF Tick, Tried, taskVars
<1> QED BY <1>1, <1>2, <1>3, QuietStep DEF Tick, callVars, txVars

LEMMA StutterInv ==
  ASSUME IInv, UNCHANGED vars
  PROVE  IInv'
<1>1. StepOf({})
  BY DEF vars, StepOf, RowsKept, callVars, txVars, taskVars
<1>2. TypeOK'
  BY DEF vars, IInv, TypeOK, callVars, txVars, taskVars
<1>3. \A t \in Calls : \A k \in 0..MaxRetry : Tried(t, k) => Tried(t, k)'
  BY DEF vars, Tried, taskVars
<1> QED BY <1>1, <1>2, <1>3, QuietStep DEF vars, callVars, txVars

-----------------------------------------------------------------------------
(* Users.                                                                  *)

\* The new user is not there yet, nor inserted by another transaction.
LEMMA InsertUserInv ==
  ASSUME IInv, NEW c \in Calls, InsertUser(c)
  PROVE  IInv'
<1> USE DEF IInv, CallInv
<1> DEFINE r == req[c]
<1>1. StepOf({c})
  BY DEF InsertUser, Goto, StepOf, RowsKept, TypeOK, taskVars
<1>2. TypeOK'
  BY DEF InsertUser, Goto, TypeOK, PC, taskVars
<1>3. CallInv(c)'
  <2>1. Serves(c)' /\ Registers(c)'
    BY DEF InsertUser, Goto, TypeOK, Serves, Registers, taskVars
  <2>2. Works(c)' /\ Succeeded(c)'
    BY DEF InsertUser, Goto, TypeOK, Works, Succeeded, taskVars
  <2>3. Verifies(c)'
    BY DEF InsertUser, Goto, TypeOK, Verifies, Mailed, taskVars
  <2> QED BY <2>1, <2>2, <2>3
<1>4. \A d \in Calls : CallInv(d)'
  BY <1>1, <1>3, OthersKept
<1>5. /\ UNCHANGED <<users, verifyEmails, mails, req, resp, claimed, task, retried>>
      /\ \A d \in Calls \ {c} : inserted'[d] = inserted[d]
      /\ inserted'[c] => ~Taken(r.username, r.email) /\ Inserting(c, r.username, r.email) = {}
  BY DEF InsertUser, Goto, TypeOK, Registers, taskVars
<1>6. NamesFree'
  BY <1>5 DEF NamesFree, Taken
<1>7. NamesApart'
  BY <1>5 DEF NamesApart, Inserting
<1>8. UniqueEmail'
  BY <1>5 DEF UniqueEmail
<1>9. RegisteredHasTask'
  BY <1>1, <1>5, OldTasksKept DEF RegisteredHasTask
<1>10. ClaimsOpen' /\ ClaimsApart'
  BY <1>1, <1>5, ClaimsKept
<1>11. CodeUsedOnce'
  BY <1>1, <1>5, CodesKept
<1>12. RowsOfUsers' /\ VerificationAtomic' /\ MailsMatch'
  BY <1>5 DEF RowsOfUsers, VerificationAtomic, MailsMatch
<1>13. Attributed'
  BY <1>1, <1>5, AttributionKept DEF Tried
<1> QED BY <1>2, <1>4, <1>6, <1>7, <1>8, <1>9, <1>10, <1>11, <1>12, <1>13

\* The user that is published has the name and the address nobody has, and the
\* task; or the transaction leaves no trace.
LEMMA CommitUserInv ==
  ASSUME IInv, NEW c \in Calls, CommitUser(c)
  PROVE  IInv'
<1> USE DEF IInv, CallInv
<1> DEFINE r == req[c]
           user == [email |-> r.email, verified |-> FALSE]
<1>1. /\ r.op = "CreateUser" /\ r.username \in Usernames /\ r.email \in Emails
      /\ inserted[c] /\ task[c] # "absent" /\ resp[c] = "none"
      /\ r.username \notin DOMAIN users
      /\ \A v \in DOMAIN users : users[v].email # r.email
  BY RequestType DEF CommitUser, TypeOK, Serves, Registers, NamesFree, Taken
<1>2. /\ UNCHANGED <<verifyEmails, mails, req, start, task, retried, address, sending>>
      /\ pc'[c] = "done" /\ resp'[c] \in {"OK", "Internal"} /\ ~inserted'[c] /\ claimed'[c] = 0
      /\ \A d \in Calls \ {c} : /\ pc'[d] = pc[d] /\ resp'[d] = resp[d]
                                /\ inserted'[d] = inserted[d] /\ claimed'[d] = claimed[d]
      /\ \/ users' = users
         \/ users' = [u \in DOMAIN users \cup {r.username} |->
                        IF u = r.username THEN user ELSE users[u]]
  BY DEF CommitUser, PublishUser, Answer, EndTx, TypeOK, taskVars
<1>3. StepOf({c})
  BY <1>1, <1>2 DEF StepOf, RowsKept
<1>4. TypeOK'
  <2>1. user \in User
    BY <1>1 DEF User
  <2>2. DOMAIN users' \subseteq Usernames /\ users' \in [DOMAIN users' -> User]
    <3>1. CASE users' = users
      BY <3>1 DEF TypeOK
    <3>2. CASE users' # users
      <4>1. users' = [u \in DOMAIN users \cup {r.username} |->
                        IF u = r.username THEN user ELSE users[u]]
        BY <1>2, <3>2
      <4>2. \A u \in DOMAIN users : users[u] \in User
        BY DEF TypeOK
      <4>3. DOMAIN users' \subseteq Usernames
        BY <1>1, <4>1 DEF TypeOK
      <4> QED BY <2>1, <4>1, <4>2, <4>3
    <3> QED BY <3>1, <3>2
  <2> QED BY <2>2 DEF CommitUser, Answer, EndTx, TypeOK, PC, Codes, taskVars
<1>5. CallInv(c)'
  <2>1. Serves(c)' /\ Registers(c)' /\ Verifies(c)' /\ Succeeded(c)'
    BY <1>1, <1>2 DEF Serves, Registers, Verifies, Succeeded
  <2>2. Works(c)'
    BY <1>2 DEF Works
  <2> QED BY <2>1, <2>2
<1>6. \A d \in Calls : CallInv(d)'
  BY <1>3, <1>5, OthersKept
<1>7. /\ DOMAIN users' \subseteq DOMAIN users \cup {r.username}
      /\ \A v \in DOMAIN users : v \in DOMAIN users' /\ users'[v] = users[v]
      /\ r.username \in DOMAIN users' => users'[r.username] = user
  BY <1>1, <1>2
<1>8. NamesFree'
  <2>1. ASSUME NEW d \in Calls, inserted'[d]
        PROVE  /\ req[d].username \notin DOMAIN users'
               /\ \A v \in DOMAIN users' : users'[v].email # req[d].email
    <3>1. d # c /\ inserted[d]
      BY <1>2, <2>1
    <3>2. req[d].username # r.username /\ req[d].email # r.email
      BY <1>1, <3>1 DEF NamesApart
    <3>3. /\ req[d].username \notin DOMAIN users
          /\ \A v \in DOMAIN users : users[v].email # req[d].email
      BY <3>1 DEF NamesFree, Taken
    <3> QED BY <1>7, <3>2, <3>3
  <2> QED BY <1>2, <2>1 DEF NamesFree, Taken
<1>9. NamesApart'
  BY <1>2 DEF NamesApart
<1>10. UniqueEmail'
  BY <1>1, <1>7 DEF UniqueEmail
<1>11. RegisteredHasTask'
  <2>1. ASSUME NEW u \in DOMAIN users'
        PROVE  \E t \in Calls : /\ req'[t].op = "CreateUser" /\ req'[t].username = u
                                /\ task'[t] # "absent"
    BY <1>1, <1>2, <1>3, <1>7, OldTasksKept
  <2> QED BY <2>1 DEF RegisteredHasTask
<1>12. ClaimsOpen' /\ ClaimsApart'
  BY <1>2, <1>3, ClaimsKept
<1>13. CodeUsedOnce'
  BY <1>1, <1>2, <1>3, CodesKept
<1>14. RowsOfUsers' /\ MailsMatch'
  BY <1>2, <1>7 DEF RowsOfUsers, MailsMatch
<1>15. VerificationAtomic'
  BY <1>2, <1>7 DEF VerificationAtomic
<1>16. Attributed'
  BY <1>2, <1>3, AttributionKept DEF Tried
<1> QED BY <1>4, <1>6, <1>8, <1>9, <1>10, <1>11, <1>12, <1>13, <1>14, <1>15, <1>16

\* The new address is nobody's, and no open transaction has inserted it.
LEMMA UpdateUserInv ==
  ASSUME IInv, NEW c \in Calls, UpdateUser(c)
  PROVE  IInv'
<1> USE DEF IInv, CallInv
<1> DEFINE r == req[c]
<1>1. r.op = "UpdateUser" /\ r.email \in Emails \cup {NoEmail} /\ ~inserted[c]
  BY RequestType DEF UpdateUser, TypeOK, Serves, Registers
<1>2. /\ UNCHANGED <<verifyEmails, mails, req, start, inserted, claimed,
                     task, retried, address, sending>>
      /\ pc'[c] = "done" /\ resp'[c] # "none"
      /\ \A d \in Calls \ {c} : pc'[d] = pc[d] /\ resp'[d] = resp[d]
      /\ pc[c] = "updateUser" /\ \A d \in Calls : inserted[d] => req[d].email # r.email
      /\ \/ users' = users
         \/ /\ users' = [users EXCEPT ![r.username].email = IF r.email = NoEmail THEN @ ELSE r.email]
            /\ \A v \in DOMAIN users \ {r.username} : users[v].email # r.email
            /\ r.username \in DOMAIN users
  BY <1>1 DEF UpdateUser, SetEmail, Answer, TypeOK, taskVars, txVars
<1>3. StepOf({c})
  BY <1>2 DEF StepOf, RowsKept, Serves
<1>4. /\ DOMAIN users' = DOMAIN users
      /\ \A v \in DOMAIN users : /\ users'[v] \in User
                                 /\ users'[v].verified = users[v].verified
                                 /\ v # r.username => users'[v] = users[v]
                                 /\ users'[v].email \in {users[v].email, r.email}
      /\ \/ users' = users
         \/ \A v \in DOMAIN users \ {r.username} : users[v].email # r.email
  <2>1. \A v \in DOMAIN users : users[v] \in User
    BY DEF TypeOK
  <2>2. CASE users' = users
    BY <2>1, <2>2
  <2>3. CASE users' # users
    BY <1>1, <1>2, <2>1, <2>3 DEF User
  <2> QED BY <2>2, <2>3
<1>5. TypeOK'
  <2>1. DOMAIN users' \subseteq Usernames /\ users' \in [DOMAIN users' -> User]
    <3>1. users' = [v \in DOMAIN users |-> users'[v]]
      BY <1>2 DEF TypeOK
    <3> QED BY <1>4, <3>1 DEF TypeOK
  <2>2. resp' \in [Calls -> Codes \cup {"none"}] /\ pc' \in [Calls -> PC]
    BY DEF UpdateUser, Answer, TypeOK, PC, Codes
  <2> QED BY <2>1, <2>2 DEF UpdateUser, TypeOK, taskVars, txVars
<1>6. CallInv(c)'
  <2>1. Serves(c)' /\ Registers(c)' /\ Succeeded(c)' /\ Works(c)'
    BY <1>1, <1>2, <1>4 DEF Serves, Registers, Succeeded, Works
  <2>2. Verifies(c)'
    BY <1>1, <1>2 DEF Verifies, Mailed
  <2> QED BY <2>1, <2>2
<1>7. \A d \in Calls : CallInv(d)'
  BY <1>3, <1>6, OthersKept
<1>8. NamesFree'
  BY <1>2, <1>4 DEF NamesFree, Taken
<1>9. NamesApart'
  BY <1>2 DEF NamesApart
<1>10. UniqueEmail'
  BY <1>4 DEF UniqueEmail
<1>11. RegisteredHasTask'
  BY <1>2, <1>4 DEF RegisteredHasTask
<1>12. ClaimsOpen' /\ ClaimsApart'
  BY <1>2, <1>3, ClaimsKept
<1>13. CodeUsedOnce'
  BY <1>1, <1>2, <1>3, CodesKept
<1>14. RowsOfUsers' /\ MailsMatch' /\ VerificationAtomic'
  BY <1>2, <1>4 DEF RowsOfUsers, MailsMatch, VerificationAtomic
<1>15. Attributed'
  BY <1>2, <1>3, AttributionKept DEF Tried
<1> QED BY <1>5, <1>7, <1>8, <1>9, <1>10, <1>11, <1>12, <1>13, <1>14, <1>15

-----------------------------------------------------------------------------
(* The use of a code.                                                      *)

\* The row that is claimed is unused, and nobody else has claimed it.
LEMMA UseCodeInv ==
  ASSUME IInv, NEW c \in Calls, UseCode(c)
  PROVE  IInv'
<1> USE DEF IInv, CallInv
<1> DEFINE i == req[c].id
<1>1. /\ UNCHANGED <<users, verifyEmails, mails, req, resp, start, inserted, task,
                     retried, address, sending>>
      /\ pc[c] = "useCode" /\ pc'[c] \in {"markUser", "rollback"}
      /\ \A d \in Calls \ {c} : /\ pc'[d] = pc[d] /\ claimed'[d] = claimed[d]
                                /\ claimed[d] # i
  BY DEF UseCode, Goto, TypeOK, taskVars
<1>2. \/ claimed' = claimed /\ pc'[c] = "rollback"
      \/ claimed'[c] = i /\ CodeValid(c)
  BY DEF UseCode, Goto, TypeOK
<1>3. StepOf({c})
  BY <1>1 DEF StepOf, RowsKept
<1>4. TypeOK'
  <2>1. claimed' \in [Calls -> {0} \cup DOMAIN verifyEmails] /\ pc' \in [Calls -> PC]
    BY DEF UseCode, CodeValid, Goto, TypeOK, PC
  <2> QED BY <1>1, <2>1 DEF UseCode, TypeOK, taskVars
<1>5. req[c].op = "VerifyEmail" /\ resp[c] = "none" /\ claimed[c] = 0 /\ ~inserted[c]
  BY <1>1 DEF Serves, Verifies, Registers
<1>6. CodeValid(c) => i # 0 /\ Mailed(i)
  <2> SUFFICES ASSUME CodeValid(c) PROVE i # 0 /\ Mailed(i)
    OBVIOUS
  <2>1. i \in 1..Len(verifyEmails) /\ req[c].code = i
    BY LenProperties DEF CodeValid, TypeOK
  <2>2. req[c].code > 0
    BY <2>1
  <2> QED BY <1>1, <2>1, <2>2 DEF Verifies
<1>7. CallInv(c)'
  <2>1. Serves(c)' /\ Registers(c)' /\ Succeeded(c)' /\ Works(c)'
    BY <1>1, <1>5 DEF Serves, Registers, Succeeded, Works
  <2>2. Verifies(c)'
    BY <1>1, <1>2, <1>5, <1>6 DEF Verifies, CodeValid, Mailed, TypeOK
  <2> QED BY <2>1, <2>2
<1>8. \A d \in Calls : CallInv(d)'
  BY <1>3, <1>7, OthersKept
<1>9. NamesFree' /\ NamesApart' /\ UniqueEmail'
  BY <1>1, <1>3, NamesKept
<1>10. RegisteredHasTask'
  BY <1>1, <1>3, OldTasksKept DEF RegisteredHasTask
<1>11. ClaimsOpen'
  BY <1>1, <1>2, <1>5 DEF ClaimsOpen, CodeValid
<1>12. ClaimsApart'
  BY <1>1, <1>2, <1>5 DEF ClaimsApart
<1>13. CodeUsedOnce'
  BY <1>1, <1>3, CodesKept
<1>14. RowsOfUsers' /\ MailsMatch' /\ VerificationAtomic'
  BY <1>1 DEF RowsOfUsers, MailsMatch, VerificationAtomic
<1>15. Attributed'
  BY <1>1, <1>3, AttributionKept DEF Tried
<1> QED BY <1>4, <1>8, <1>9, <1>10, <1>11, <1>12, <1>13, <1>14, <1>15

\* The code and the flag of its user are set together, or neither is; no call
\* has succeeded with that code before.
LEMMA CommitVerifyInv ==
  ASSUME IInv, NEW c \in Calls, CommitVerify(c)
  PROVE  IInv'
<1> USE DEF IInv, CallInv
<1> DEFINE i == claimed[c]
           u == verifyEmails[i].username
<1>1. /\ req[c].op = "VerifyEmail" /\ req[c].id = i /\ i \in DOMAIN verifyEmails
      /\ ~verifyEmails[i].used /\ start[c] < verifyEmails[i].expires /\ Mailed(i)
      /\ resp[c] = "none" /\ ~inserted[c] /\ task[c] = "absent"
      /\ \A d \in Calls \ {c} : claimed[d] # i
  BY DEF CommitVerify, TypeOK, Serves, Verifies, Registers, ClaimsOpen, ClaimsApart
<1>2. /\ UNCHANGED <<mails, req, start, task, retried, address, sending>>
      /\ pc'[c] = "done" /\ resp'[c] \in {"OK", "Internal"} /\ ~inserted'[c] /\ claimed'[c] = 0
      /\ \A d \in Calls \ {c} : /\ pc'[d] = pc[d] /\ resp'[d] = resp[d]
                                /\ inserted'[d] = inserted[d] /\ claimed'[d] = claimed[d]
      /\ \/ UNCHANGED <<users, verifyEmails>> /\ resp'[c] = "Internal"
         \/ /\ verifyEmails' = [verifyEmails EXCEPT ![i].used = TRUE]
            /\ users' = [users EXCEPT ![u].verified = TRUE]
  BY DEF CommitVerify, PublishVerified, UserOf, Answer, EndTx, TypeOK, taskVars
<1>3. u \in DOMAIN users
  BY <1>1 DEF RowsOfUsers
<1>4. \A v \in DOMAIN users : users[v] \in User
  BY DEF TypeOK
<1>5. \A j \in DOMAIN verifyEmails : verifyEmails[j] \in VerifyEmail
  BY LenProperties DEF TypeOK
<1> DEFINE published == verifyEmails' # verifyEmails
<1>6. /\ DOMAIN users' = DOMAIN users /\ DOMAIN verifyEmails' = DOMAIN verifyEmails
      /\ \A v \in DOMAIN users : /\ users'[v].email = users[v].email
                                 /\ users'[v].verified <=>
                                      (users[v].verified \/ (published /\ v = u))
      /\ \A j \in DOMAIN verifyEmails :
           /\ verifyEmails'[j].username = verifyEmails[j].username
           /\ verifyEmails'[j].email = verifyEmails[j].email
           /\ verifyEmails'[j].expires = verifyEmails[j].expires
           /\ verifyEmails'[j].used <=> (verifyEmails[j].used \/ (published /\ j = i))
      /\ resp'[c] = "OK" => published
  <2>1. CASE UNCHANGED <<users, verifyEmails>> /\ resp'[c] = "Internal"
    BY <1>4, <1>5, <2>1 DEF User, VerifyEmail
  <2>2. CASE /\ verifyEmails' = [verifyEmails EXCEPT ![i].used = TRUE]
             /\ users' = [users EXCEPT ![u].verified = TRUE]
    <3>1. DOMAIN verifyEmails' = DOMAIN verifyEmails /\ DOMAIN users' = DOMAIN users
      BY <2>2
    <3>2. \A j \in DOMAIN verifyEmails :
            verifyEmails'[j] = IF j = i THEN [verifyEmails[i] EXCEPT !.used = TRUE]
                                        ELSE verifyEmails[j]
      BY <1>1, <2>2
    <3>3. verifyEmails'[i].used = TRUE
      BY <1>1, <1>5, <3>2 DEF VerifyEmail
    <3>4. published
      BY <1>1, <3>3
    <3>5. \A j \in DOMAIN verifyEmails :
           /\ verifyEmails'[j].username = verifyEmails[j].username
           /\ verifyEmails'[j].email = verifyEmails[j].email
           /\ verifyEmails'[j].expires = verifyEmails[j].expires
           /\ verifyEmails'[j].used <=> (verifyEmails[j].used \/ (published /\ j = i))
      BY <1>5, <3>2, <3>4 DEF VerifyEmail
    <3>6. \A v \in DOMAIN users : users'[v] = IF v = u THEN [users[u] EXCEPT !.verified = TRUE]
                                                       ELSE users[v]
      BY <1>3, <2>2
    <3>7. \A v \in DOMAIN users : /\ users'[v].email = users[v].email
                                  /\ users'[v].verified <=>
                                       (users[v].verified \/ (published /\ v = u))
      BY <1>4, <3>4, <3>6 DEF User
    <3> QED BY <3>1, <3>4, <3>5, <3>7
  <2> QED BY <1>2, <2>1, <2>2
<1>7. StepOf({c})
  BY <1>1, <1>2, <1>6 DEF StepOf, RowsKept
<1>8. TypeOK'
  <2>1. users' \in [DOMAIN users' -> User]
    <3>1. [users[u] EXCEPT !.verified = TRUE] \in User
      BY <1>3, <1>4 DEF User
    <3> QED BY <1>2, <1>3, <1>4, <3>1 DEF TypeOK
  <2>2. verifyEmails' \in Seq(VerifyEmail)
    <3>1. [verifyEmails[i] EXCEPT !.used = TRUE] \in VerifyEmail
      BY <1>1, <1>5 DEF VerifyEmail
    <3>2. i \in 1..Len(verifyEmails)
      BY <1>1, LenProperties DEF TypeOK
    <3>3. CASE verifyEmails' = [verifyEmails EXCEPT ![i].used = TRUE]
      <4> DEFINE row == [verifyEmails[i] EXCEPT !.used = TRUE]
      <4>1. verifyEmails' = [verifyEmails EXCEPT ![i] = row]
        BY <3>3
      <4>2. verifyEmails \in Seq(VerifyEmail)
        BY DEF TypeOK
      <4> HIDE DEF row
      <4>3. [verifyEmails EXCEPT ![i] = row] \in Seq(VerifyEmail)
        BY <3>1, <3>2, <4>2, ExceptSeq DEF row
      <4> QED BY <4>1, <4>3
    <3> QED BY <1>2, <3>3 DEF TypeOK
  <2>3. /\ pc' \in [Calls -> PC] /\ resp' \in [Calls -> Codes \cup {"none"}]
        /\ inserted' \in [Calls -> BOOLEAN] /\ marked' \in [Calls -> BOOLEAN]
        /\ claimed' \in [Calls -> {0} \cup DOMAIN verifyEmails]
    BY DEF CommitVerify, Answer, EndTx, TypeOK, PC, Codes
  <2> QED BY <1>2, <1>6, <2>1, <2>2, <2>3 DEF CommitVerify, TypeOK, taskVars
<1>9. CallInv(c)'
  <2>1. Serves(c)' /\ Registers(c)' /\ Verifies(c)' /\ Works(c)'
    BY <1>1, <1>2 DEF Serves, Registers, Verifies, Works
  <2>2. Succeeded(c)'
    BY <1>1, <1>2, <1>6 DEF Succeeded
  <2> QED BY <2>1, <2>2
<1>10. \A d \in Calls : CallInv(d)'
  BY <1>7, <1>9, OthersKept
<1>11. NamesFree' /\ NamesApart' /\ UniqueEmail'
  BY <1>2, <1>6 DEF NamesFree, NamesApart, UniqueEmail, Taken
<1>12. RegisteredHasTask'
  BY <1>6, <1>7, OldTasksKept DEF RegisteredHasTask
<1>13. ClaimsOpen' /\ ClaimsApart'
  <2>1. \A d \in Calls : claimed[d] \in {0} \cup DOMAIN verifyEmails
    BY DEF TypeOK
  <2> QED BY <1>1, <1>2, <1>6, <2>1 DEF ClaimsOpen, ClaimsApart
<1>14. CodeUsedOnce'
  <2>1. ASSUME NEW j \in DOMAIN verifyEmails', verifyEmails'[j].used
        PROVE  [to |-> verifyEmails'[j].email, code |-> j] \in mails'
    <3>1. CASE verifyEmails[j].used
      BY <1>2, <1>6, <3>1 DEF CodeUsedOnce
    <3>2. CASE ~verifyEmails[j].used
      <4>1. j = i
        BY <1>6, <2>1, <3>2
      <4>2. PICK m \in mails : m.code = i
        BY <1>1 DEF Mailed
      <4>3. m = [to |-> verifyEmails[i].email, code |-> i]
        BY <4>2 DEF MailsMatch, TypeOK
      <4> QED BY <1>1, <1>2, <1>6, <4>1, <4>3
    <3> QED BY <3>1, <3>2
  <2>2. ASSUME NEW d \in Calls, req[d].op = "VerifyEmail", resp'[d] = "OK"
        PROVE  /\ verifyEmails'[req[d].id].used
               /\ start'[d] < verifyEmails'[req[d].id].expires
    <3>1. Succeeded(d)'
      BY <1>10
    <3> QED BY <1>2, <2>2, <3>1 DEF Succeeded
  <2>3. ASSUME NEW d \in Calls, req[d].op = "VerifyEmail", resp'[d] = "OK",
               NEW e \in Calls \ {d}, req[e].op = "VerifyEmail", resp'[e] = "OK"
        PROVE  req[e].id # req[d].id
    <3>1. \A x \in Calls \ {c} : req[x].op = "VerifyEmail" /\ resp'[x] = "OK" => req[x].id # i
      BY <1>1, <1>2 DEF Succeeded
    <3>2. CASE d = c \/ e = c
      BY <1>1, <2>3, <3>1, <3>2
    <3>3. CASE d # c /\ e # c
      BY <1>2, <2>3, <3>3 DEF CodeUsedOnce
    <3> QED BY <3>2, <3>3
  <2> QED BY <1>2, <2>1, <2>2, <2>3 DEF CodeUsedOnce
<1>15. RowsOfUsers' /\ MailsMatch'
  BY <1>2, <1>6 DEF RowsOfUsers, MailsMatch, TypeOK
<1>16. VerificationAtomic'
  <2>1. {v \in DOMAIN users : users[v].verified} =
          {verifyEmails[j].username : j \in {k \in DOMAIN verifyEmails : verifyEmails[k].used}}
    BY DEF VerificationAtomic
  <2> DEFINE flagged == {v \in DOMAIN users' : users'[v].verified}
             owners  == {verifyEmails'[j].username :
                           j \in {k \in DOMAIN verifyEmails' : verifyEmails'[k].used}}
  <2>2. ASSUME NEW v \in flagged PROVE v \in owners
    <3>1. CASE users[v].verified
      <4>1. PICK j \in DOMAIN verifyEmails : verifyEmails[j].used /\ verifyEmails[j].username = v
        BY <1>6, <2>1, <3>1
      <4> QED BY <1>6, <4>1
    <3>2. CASE ~users[v].verified
      BY <1>1, <1>6, <3>2
    <3> QED BY <3>1, <3>2
  <2>3. ASSUME NEW v \in owners PROVE v \in flagged
    <3>1. PICK j \in DOMAIN verifyEmails : verifyEmails'[j].used /\ verifyEmails[j].username = v
      BY <1>6
    <3>2. CASE verifyEmails[j].used
      BY <1>6, <2>1, <3>1, <3>2
    <3>3. CASE ~verifyEmails[j].used
      BY <1>3, <1>6, <3>1, <3>3
    <3> QED BY <3>2, <3>3
  <2>4. flagged = owners
    BY <2>2, <2>3
  <2> QED BY <2>4 DEF VerificationAtomic
<1>17. Attributed'
  BY <1>2, <1>6, <1>7, AttributionKept DEF Tried
<1> QED BY <1>8, <1>10, <1>11, <1>12, <1>13, <1>14, <1>15, <1>16, <1>17

-----------------------------------------------------------------------------
(* The worker.                                                             *)

\* What a step of the worker on task t leaves alone.
WorkerFrame(t) ==
  /\ UNCHANGED <<users, now, callVars, txVars>>
  /\ task[t] \in Active /\ task'[t] # "absent"
  /\ \A s \in Calls \ {t} : /\ task'[s] = task[s] /\ retried'[s] = retried[s]
                            /\ address'[s] = address[s] /\ sending'[s] = sending[s]

\* The rows after CreateVerifyEmail.
LEMMA RowAdded ==
  ASSUME IInv, NEW t \in Calls, task[t] = "createCode",
         verifyEmails' = Append(verifyEmails, NewCode(t))
  PROVE  LET n == Len(verifyEmails) + 1
         IN  /\ verifyEmails' \in Seq(VerifyEmail)
             /\ n \notin DOMAIN verifyEmails /\ n \in Nat \ {0}
             /\ DOMAIN verifyEmails' = DOMAIN verifyEmails \cup {n}
             /\ \A i \in DOMAIN verifyEmails : verifyEmails'[i] = verifyEmails[i]
             /\ verifyEmails'[n] = NewCode(t)
<1>1. req[t].op = "CreateUser" /\ address[t] \in Emails
  BY DEF IInv, CallInv, Works, Registers
<1>2. NewCode(t) \in VerifyEmail
  BY <1>1, RequestType, RegistrationAssumption DEF IInv, TypeOK, NewCode, VerifyEmail
<1>3. verifyEmails \in Seq(VerifyEmail)
  BY DEF IInv, TypeOK
<1>4. /\ Len(verifyEmails) \in Nat /\ DOMAIN verifyEmails = 1..Len(verifyEmails)
  BY <1>3, LenProperties
<1>5. /\ verifyEmails' \in Seq(VerifyEmail)
      /\ Len(verifyEmails') = Len(verifyEmails) + 1
      /\ \A i \in 1..Len(verifyEmails) : verifyEmails'[i] = verifyEmails[i]
      /\ verifyEmails'[Len(verifyEmails) + 1] = NewCode(t)
  BY <1>2, <1>3
<1>6. DOMAIN verifyEmails' = 1..(Len(verifyEmails) + 1)
  BY <1>5, LenProperties
<1> QED BY <1>4, <1>5, <1>6

\* A new code belongs to the attempt that creates it, and is neither claimed nor
\* used nor mailed.
LEMMA CodeAdded ==
  ASSUME IInv, NEW t \in Calls, task[t] = "createCode", WorkerFrame(t), mails' = mails,
         verifyEmails' = Append(verifyEmails, NewCode(t)),
         CallInv(t)', TypeOK',
         \A k \in 0..MaxRetry : k <= retried[t] => Tried(t, k)'
  PROVE  IInv'
<1> DEFINE n == Len(verifyEmails) + 1
<1>1. /\ n \notin DOMAIN verifyEmails /\ n # 0
      /\ DOMAIN verifyEmails' = DOMAIN verifyEmails \cup {n}
      /\ \A i \in DOMAIN verifyEmails : verifyEmails'[i] = verifyEmails[i]
      /\ verifyEmails'[n].username = req[t].username
      /\ ~verifyEmails'[n].used
  BY RowAdded DEF NewCode
<1> HIDE DEF n
<1>2. UNCHANGED <<users, req, pc, resp, start, inserted, claimed>>
  BY DEF WorkerFrame, callVars, txVars
<1>3. StepOf({t})
  BY <1>1, <1>2 DEF WorkerFrame, StepOf, RowsKept, Active
<1>4. \A d \in Calls : CallInv(d)'
  BY <1>3, OthersKept
<1>5. NamesFree' /\ NamesApart' /\ UniqueEmail'
  BY <1>2, <1>3, NamesKept
<1>6. RegisteredHasTask'
  BY <1>2, <1>3, OldTasksKept DEF RegisteredHasTask
<1>7. ClaimsOpen' /\ ClaimsApart'
  BY <1>1, <1>2, <1>3, ClaimsKept
<1>8. CodeUsedOnce'
  <2>1. \A i \in DOMAIN verifyEmails' : verifyEmails'[i].used =>
          i \in DOMAIN verifyEmails /\ verifyEmails[i].used
    BY <1>1
  <2> QED BY <1>2, <1>3, <2>1, CodesKept
<1>9. RowsOfUsers'
  <2>1. req[t].username \in DOMAIN users
    BY DEF IInv, CallInv, Works
  <2> QED BY <1>1, <1>2, <2>1 DEF IInv, RowsOfUsers
<1>10. VerificationAtomic'
  <2>1. {verifyEmails'[j].username : j \in {k \in DOMAIN verifyEmails' : verifyEmails'[k].used}}
          = {verifyEmails[j].username : j \in {k \in DOMAIN verifyEmails : verifyEmails[k].used}}
    BY <1>1
  <2> QED BY <1>2, <2>1 DEF IInv, VerificationAtomic
<1>11. MailsMatch'
  BY <1>1 DEF IInv, TypeOK, MailsMatch
<1>12. Attributed'
  <2>1. PICK f \in [DOMAIN verifyEmails -> Calls \X (0..MaxRetry)] :
          /\ \A i, j \in DOMAIN verifyEmails : f[i] = f[j] => i = j
          /\ \A i \in DOMAIN verifyEmails :
               /\ Tried(f[i][1], f[i][2])
               /\ req[f[i][1]].username = verifyEmails[i].username
    BY DEF IInv, Attributed
  <2>2. PICK m \in 0..MaxRetry : m = retried[t]
    BY DEF IInv, TypeOK
  <2>3. PICK g : g = [i \in DOMAIN verifyEmails \cup {n} |-> IF i = n THEN <<t, m>> ELSE f[i]]
    OBVIOUS
  <2>4. /\ g \in [DOMAIN verifyEmails' -> Calls \X (0..MaxRetry)]
        /\ g[n][1] = t /\ g[n][2] = m
        /\ \A i \in DOMAIN verifyEmails : g[i] = f[i]
    BY <1>1, <2>3
  <2>5. ASSUME NEW i \in DOMAIN verifyEmails PROVE f[i] # <<t, m>>
    <3>1. Tried(f[i][1], f[i][2])
      BY <2>1
    <3>2. ~Tried(t, m)
      BY <2>2 DEF Tried
    <3> QED BY <3>1, <3>2
  <2>6. \A i, j \in DOMAIN verifyEmails' : g[i] = g[j] => i = j
    BY <1>1, <2>1, <2>3, <2>5
  <2>7. ASSUME NEW s \in Calls, NEW k \in 0..MaxRetry, Tried(s, k) PROVE Tried(s, k)'
    <3>1. CASE s = t
      <4>1. k <= retried[t]
        BY <2>2, <2>7, <3>1 DEF Tried
      <4> QED BY <3>1, <4>1
    <3>2. CASE s # t
      BY <2>7, <3>2 DEF Tried, WorkerFrame
    <3> QED BY <3>1, <3>2
  <2>8. ASSUME NEW i \in DOMAIN verifyEmails'
        PROVE  Tried(g[i][1], g[i][2])' /\ req'[g[i][1]].username = verifyEmails'[i].username
    <3>1. CASE i = n
      <4>1. Tried(t, m)'
        BY <2>2
      <4> QED BY <1>1, <1>2, <2>4, <3>1, <4>1
    <3>2. CASE i # n
      <4>1. i \in DOMAIN verifyEmails /\ g[i] = f[i]
        BY <1>1, <2>4, <3>2
      <4>2. f[i][1] \in Calls /\ f[i][2] \in 0..MaxRetry
        BY <4>1
      <4>3. Tried(f[i][1], f[i][2])'
        BY <2>1, <2>7, <4>1, <4>2
      <4>4. req[f[i][1]].username = verifyEmails[i].username
        BY <2>1, <4>1
      <4> QED BY <1>1, <1>2, <4>1, <4>3, <4>4
    <3> QED BY <3>1, <3>2
  <2> QED BY <2>4, <2>6, <2>8 DEF Attributed
<1> QED BY <1>4, <1>5, <1>6, <1>7, <1>8, <1>9, <1>10, <1>11, <1>12 DEF IInv

\* A step of the worker that creates no code; it may deliver a mail, to the
\* address of the code it has created.
LEMMA NoCodeAdded ==
  ASSUME IInv, NEW t \in Calls, WorkerFrame(t), verifyEmails' = verifyEmails,
         \/ mails' = mails
         \/ task[t] = "send" /\ Deliver(t),
         CallInv(t)', TypeOK',
         \A k \in 0..MaxRetry : Tried(t, k) => Tried(t, k)'
  PROVE  IInv'
<1>1. UNCHANGED <<users, req, pc, resp, start, inserted, claimed>>
  BY DEF WorkerFrame, callVars, txVars
<1>2. mails \subseteq mails' /\ \A m \in mails' \ mails : m.to = verifyEmails[m.code].email
  BY DEF IInv, CallInv, Works, Deliver
<1>3. StepOf({t})
  BY <1>1, <1>2 DEF WorkerFrame, StepOf, RowsKept, Active
<1>4. \A d \in Calls : CallInv(d)'
  BY <1>3, OthersKept
<1>5. NamesFree' /\ NamesApart' /\ UniqueEmail'
  BY <1>1, <1>3, NamesKept
<1>6. RegisteredHasTask'
  BY <1>1, <1>3, OldTasksKept DEF RegisteredHasTask
<1>7. ClaimsOpen' /\ ClaimsApart'
  BY <1>1, <1>3, ClaimsKept
<1>8. CodeUsedOnce'
  BY <1>1, <1>3, CodesKept
<1>9. RowsOfUsers' /\ VerificationAtomic' /\ MailsMatch'
  BY <1>1, <1>2 DEF IInv, RowsOfUsers, VerificationAtomic, MailsMatch
<1>10. Attributed'
  <2>1. ASSUME NEW s \in Calls, NEW k \in 0..MaxRetry, Tried(s, k) PROVE Tried(s, k)'
    <3>1. CASE s = t
      BY <2>1, <3>1
    <3>2. CASE s # t
      BY <2>1, <3>2 DEF Tried, WorkerFrame
    <3> QED BY <3>1, <3>2
  <2> QED BY <1>3, <2>1, AttributionKept
<1> QED BY <1>4, <1>5, <1>6, <1>7, <1>8, <1>9, <1>10 DEF IInv

\* The call of a task is not changed by its worker.
LEMMA WorkerCall ==
  ASSUME IInv, NEW t \in Calls, WorkerFrame(t), mails \subseteq mails', RowsKept, Works(t)'
  PROVE  CallInv(t)'
<1> USE DEF IInv, CallInv
<1>1. UNCHANGED <<users, req, pc, resp, start, inserted, claimed>>
  BY DEF WorkerFrame, callVars, txVars
<1>2. Serves(t)' /\ Registers(t)'
  BY <1>1 DEF WorkerFrame, Serves, Registers, Active
<1>3. Verifies(t)' /\ Succeeded(t)'
  <2>1. claimed[t] \in {0} \cup DOMAIN verifyEmails
    BY DEF TypeOK
  <2> QED BY <1>1, <2>1 DEF RowsKept, Verifies, Mailed, Succeeded
<1> QED BY <1>2, <1>3

LEMMA CreateVerifyEmailInv ==
  ASSUME IInv, NEW t \in Calls, CreateVerifyEmail(t)
  PROVE  IInv'
<1> DEFINE n == Len(verifyEmails) + 1
<1>1. /\ task[t] = "createCode" /\ verifyEmails' = Append(verifyEmails, NewCode(t))
      /\ sending' = [sending EXCEPT ![t] = n] /\ task' = [task EXCEPT ![t] = "send"]
      /\ UNCHANGED <<users, mails, now, callVars, txVars, retried, runAt, address>>
  BY DEF CreateVerifyEmail
<1>2. /\ verifyEmails' \in Seq(VerifyEmail) /\ n # 0
      /\ n \notin DOMAIN verifyEmails
      /\ DOMAIN verifyEmails' = DOMAIN verifyEmails \cup {n}
      /\ \A i \in DOMAIN verifyEmails : verifyEmails'[i] = verifyEmails[i]
      /\ verifyEmails'[n].email = address[t]
  <2>1. /\ verifyEmails' \in Seq(VerifyEmail)
        /\ n \notin DOMAIN verifyEmails /\ n \in Nat \ {0}
        /\ DOMAIN verifyEmails' = DOMAIN verifyEmails \cup {n}
        /\ \A i \in DOMAIN verifyEmails : verifyEmails'[i] = verifyEmails[i]
        /\ verifyEmails'[n] = NewCode(t)
    BY <1>1, RowAdded
  <2>2. NewCode(t).email = address[t]
    BY DEF NewCode
  <2> QED BY <2>1, <2>2
<1> HIDE DEF n
<1>3. task'[t] = "send" /\ sending'[t] = n
  BY <1>1 DEF IInv, TypeOK
<1>4. WorkerFrame(t)
  BY <1>1, <1>3 DEF WorkerFrame, Active, IInv, TypeOK
<1>5. TypeOK'
  <2>1. sending' \in [Calls -> {0} \cup DOMAIN verifyEmails']
    BY <1>1, <1>2 DEF IInv, TypeOK
  <2>2. mails' \subseteq [to : Emails, code : DOMAIN verifyEmails']
    BY <1>1, <1>2 DEF IInv, TypeOK
  <2>3. claimed' \in [Calls -> {0} \cup DOMAIN verifyEmails']
    BY <1>1, <1>2 DEF IInv, TypeOK, txVars
  <2> QED BY <1>1, <1>2, <2>1, <2>2, <2>3 DEF IInv, TypeOK, Active, callVars, txVars
<1>6. Works(t)'
  <2>1. req[t].username \in DOMAIN users /\ address[t] \in Emails
    BY <1>1 DEF IInv, CallInv, Works
  <2> QED BY <1>1, <1>2, <1>3, <2>1 DEF Works, callVars
<1>7. CallInv(t)'
  BY <1>1, <1>2, <1>4, <1>6, WorkerCall DEF RowsKept
<1>8. \A k \in 0..MaxRetry : k <= retried[t] => Tried(t, k)'
  BY <1>1, <1>3 DEF Tried, IInv, TypeOK
<1> QED BY <1>1, <1>4, <1>5, <1>7, <1>8, CodeAdded

LEMMA SendEmailInv ==
  ASSUME IInv, NEW t \in Calls, SendEmail(t)
  PROVE  IInv'
<1>1. /\ task[t] = "send" /\ Deliver(t) /\ task' = [task EXCEPT ![t] = "completed"]
      /\ task'[t] = "completed" /\ UNCHANGED <<verifyEmails, retried>>
  BY DEF SendEmail, IInv, TypeOK
<1>2. WorkerFrame(t)
  BY <1>1 DEF SendEmail, Forget, WorkerFrame, Active, IInv, TypeOK
<1>3. TypeOK'
  <2>1. [to |-> address[t], code |-> sending[t]] \in [to : Emails, code : DOMAIN verifyEmails]
    BY <1>1 DEF IInv, CallInv, TypeOK, Works
  <2> QED BY <2>1 DEF SendEmail, Deliver, Forget, IInv, TypeOK, Settled, callVars, txVars
<1>4. Works(t)'
  BY <1>1 DEF Works
<1>5. CallInv(t)'
  BY <1>1, <1>2, <1>4, WorkerCall DEF Deliver, RowsKept
<1>6. \A k \in 0..MaxRetry : Tried(t, k) => Tried(t, k)'
  BY <1>1 DEF Tried
<1> QED BY <1>1, <1>2, <1>3, <1>5, <1>6, NoCodeAdded

\* An attempt that fails is counted, whatever it has done.
LEMMA RetryCounts ==
  ASSUME IInv, NEW t \in Calls, task[t] \in Active, Retry(t)
  PROVE  /\ task'[t] \in {"scheduled", "archived"}
         /\ \A s \in Calls \ {t} : task'[s] = task[s] /\ retried'[s] = retried[s]
         /\ task' \in [Calls -> Active \cup Settled \cup {"absent", "scheduled"}]
         /\ retried' \in [Calls -> 0..MaxRetry]
         /\ \A k \in 0..MaxRetry : k <= retried[t] => Tried(t, k)'
<1>1. retried[t] \in 0..MaxRetry
  BY DEF IInv, TypeOK
<1>2. CASE retried[t] < MaxRetry
  <2>1. /\ task' = [task EXCEPT ![t] = "scheduled"]
        /\ retried' = [retried EXCEPT ![t] = retried[t] + 1]
    BY <1>2 DEF Retry
  <2>2. retried[t] + 1 \in 0..MaxRetry
    BY <1>1, <1>2, RegistrationAssumption
  <2> QED BY <1>1, <2>1, <2>2 DEF IInv, TypeOK, Tried
<1>3. CASE ~(retried[t] < MaxRetry)
  <2>1. task' = [task EXCEPT ![t] = "archived"] /\ retried' = retried
    BY <1>3 DEF Retry
  <2> QED BY <1>1, <2>1 DEF IInv, TypeOK, Tried, Settled
<1> QED BY <1>2, <1>3

LEMMA WorkerFailsInv ==
  ASSUME IInv, NEW t \in Calls, WorkerFails(t)
  PROVE  IInv'
<1>1. task[t] \in Active /\ Retry(t) /\ UNCHANGED <<users, now, callVars, txVars, runAt>>
  BY DEF WorkerFails
<1>2. /\ address' = [address EXCEPT ![t] = NoEmail] /\ sending' = [sending EXCEPT ![t] = 0]
  BY DEF WorkerFails, Forget
<1>3. WorkerFrame(t)
  <2>1. \A s \in Calls \ {t} : address'[s] = address[s] /\ sending'[s] = sending[s]
    BY <1>2 DEF IInv, TypeOK
  <2>2. task'[t] # "absent"
    BY <1>1, RetryCounts
  <2>3. \A s \in Calls \ {t} : task'[s] = task[s] /\ retried'[s] = retried[s]
    BY <1>1, RetryCounts
  <2> QED BY <1>1, <2>1, <2>2, <2>3 DEF WorkerFrame
<1>4. Works(t)'
  BY <1>1, RetryCounts DEF Works
<1>5. \A k \in 0..MaxRetry : Tried(t, k) => Tried(t, k)'
  <2>1. \A k \in 0..MaxRetry : Tried(t, k) => k <= retried[t]
    BY DEF Tried, IInv, TypeOK
  <2> QED BY <1>1, <2>1, RetryCounts
<1>6. CASE task[t] = "createCode" /\ verifyEmails' = Append(verifyEmails, NewCode(t)) /\ mails' = mails
  <2>1. /\ verifyEmails' \in Seq(VerifyEmail)
        /\ DOMAIN verifyEmails \subseteq DOMAIN verifyEmails'
        /\ \A i \in DOMAIN verifyEmails : verifyEmails'[i] = verifyEmails[i]
    BY <1>6, RowAdded
  <2>2. TypeOK'
    <3>1. sending' \in [Calls -> {0} \cup DOMAIN verifyEmails']
      BY <1>2, <2>1 DEF IInv, TypeOK
    <3>2. mails' \subseteq [to : Emails, code : DOMAIN verifyEmails']
      BY <1>6, <2>1 DEF IInv, TypeOK
    <3>3. claimed' \in [Calls -> {0} \cup DOMAIN verifyEmails']
      BY <1>1, <2>1 DEF IInv, TypeOK, txVars
    <3> QED BY <1>1, <1>2, <2>1, <3>1, <3>2, <3>3, RetryCounts DEF IInv, TypeOK, callVars, txVars
  <2>3. CallInv(t)'
    BY <1>3, <1>4, <1>6, <2>1, WorkerCall DEF RowsKept
  <2> QED BY <1>1, <1>3, <1>6, <2>2, <2>3, RetryCounts, CodeAdded
<1>7. CASE verifyEmails' = verifyEmails /\ (mails' = mails \/ (task[t] = "send" /\ Deliver(t)))
  <2>1. mails \subseteq mails' /\ mails' \subseteq [to : Emails, code : DOMAIN verifyEmails]
    BY <1>7 DEF Deliver, IInv, CallInv, TypeOK, Works
  <2>2. TypeOK'
    BY <1>1, <1>2, <1>7, <2>1, RetryCounts DEF IInv, TypeOK, callVars, txVars
  <2>3. CallInv(t)'
    BY <1>3, <1>4, <1>7, <2>1, WorkerCall DEF RowsKept
  <2> QED BY <1>3, <1>5, <1>7, <2>2, <2>3, NoCodeAdded
<1> QED BY <1>6, <1>7 DEF WorkerFails

-----------------------------------------------------------------------------
(* The theorems.                                                           *)

\* IInv holds initially and is preserved by every step.
THEOREM Invariance == Spec => []IInv
<1>1. IInv /\ [Next]_vars => IInv'
  BY ReceiveInv, InsertUserInv, EnqueueInv, EnqueueFailsInv, CommitUserInv, RollbackInv,
     UseCodeInv, MarkUserInv, CommitVerifyInv, UpdateUserInv, FailInv, DequeueInv,
     GetUserInv, CreateVerifyEmailInv, SendEmailInv, WorkerFailsInv, TickInv, StutterInv
  DEF Next, CallStep, WorkerStep, Quiescent
<1> QED BY <1>1, InitInv, PTL DEF Spec

\* Every variable keeps its type: no retry beyond MaxRetry, no mail without a row.
THEOREM TypeCorrect == Spec => []TypeOK
<1>1. IInv => TypeOK BY DEF IInv
<1> QED BY <1>1, Invariance, PTL

\* CreateUserTx and UpdateUser: two users never have one address.
THEOREM UniqueEmailHolds == Spec => []UniqueEmail
<1>1. IInv => UniqueEmail BY DEF IInv
<1> QED BY <1>1, Invariance, PTL

\* CreateUserTx: nobody is registered without the task that mails the code.
THEOREM RegisteredHasTaskHolds == Spec => []RegisteredHasTask
<1>1. IInv => RegisteredHasTask BY DEF IInv
<1> QED BY <1>1, Invariance, PTL

\* VerifyEmailTx: the code and the flag of its user change together.
THEOREM VerificationAtomicHolds == Spec => []VerificationAtomic
<1>1. IInv => VerificationAtomic BY DEF IInv
<1> QED BY <1>1, Invariance, PTL

\* VerifyEmailTx: a code that was used was mailed to the address on its row, had
\* not expired, and was used by one successful call only.
THEOREM CodeUsedOnceHolds == Spec => []CodeUsedOnce
<1>1. IInv => CodeUsedOnce BY DEF IInv
<1> QED BY <1>1, Invariance, PTL

\* ProcessTaskSendVerifyEmail: the attribution of codes to attempts is an injection,
\* so that a user's codes are at most as many as the attempts of the user's tasks.
THEOREM CodesBoundedHolds == Spec => []CodesBounded
<1>1. ASSUME IInv, NEW u \in Usernames
      PROVE  LET codes == {i \in DOMAIN verifyEmails : verifyEmails[i].username = u}
                 tasks == {t \in Calls : /\ req[t].op = "CreateUser"
                                         /\ req[t].username = u
                                         /\ task[t] # "absent"}
             IN  Cardinality(codes) <= (MaxRetry + 1) * Cardinality(tasks)
  <2> DEFINE codes == {i \in DOMAIN verifyEmails : verifyEmails[i].username = u}
             tasks == {t \in Calls : /\ req[t].op = "CreateUser"
                                     /\ req[t].username = u
                                     /\ task[t] # "absent"}
             attempts == tasks \X (0..MaxRetry)
  <2>1. PICK f \in [DOMAIN verifyEmails -> Calls \X (0..MaxRetry)] :
          /\ \A i, j \in DOMAIN verifyEmails : f[i] = f[j] => i = j
          /\ \A i \in DOMAIN verifyEmails :
               /\ Tried(f[i][1], f[i][2])
               /\ req[f[i][1]].username = verifyEmails[i].username
    BY <1>1 DEF IInv, Attributed
  <2>2. ASSUME NEW i \in codes PROVE f[i] \in attempts
    <3>1. f[i] \in Calls \X (0..MaxRetry) /\ f[i][1] \in Calls
      BY <2>1
    <3>2. task[f[i][1]] # "absent" /\ req[f[i][1]].username = u
      BY <2>1 DEF Tried
    <3>3. req[f[i][1]].op = "CreateUser"
      BY <1>1, <3>1, <3>2 DEF IInv, CallInv, Registers
    <3> QED BY <3>1, <3>2, <3>3
  <2> DEFINE g == [i \in codes |-> f[i]]
  <2>3. g \in Injection(codes, attempts)
    BY <2>1, <2>2 DEF Injection, IsInjective
  <2>4. IsFiniteSet(tasks) /\ IsFiniteSet(0..MaxRetry) /\ Cardinality(0..MaxRetry) = MaxRetry + 1
    <3>1. IsFiniteSet(tasks)
      BY RegistrationAssumption, FS_Subset
    <3>2. 0 \in Int /\ MaxRetry \in Int /\ ~(0 > MaxRetry)
      BY RegistrationAssumption
    <3> QED BY <3>1, <3>2, FS_Interval
  <2> HIDE DEF tasks, codes, g
  <2>5. IsFiniteSet(attempts) /\ Cardinality(attempts) = Cardinality(tasks) * Cardinality(0..MaxRetry)
    BY <2>4, FS_Product
  <2> HIDE DEF attempts
  <2>6. Cardinality(codes) <= Cardinality(attempts)
    BY <2>3, <2>5, FS_Injection
  <2>7. Cardinality(tasks) \in Nat
    BY <2>4, FS_CardinalityType
  <2>8. Cardinality(attempts) = (MaxRetry + 1) * Cardinality(tasks)
    BY <2>4, <2>5, <2>7, RegistrationAssumption
  <2>9. Cardinality(codes) <= (MaxRetry + 1) * Cardinality(tasks)
    BY <2>6, <2>8
  <2> QED BY <2>9 DEF codes, tasks
<1>2. IInv => CodesBounded
  BY <1>1 DEF CodesBounded
<1> QED BY <1>2, Invariance, PTL
=============================================================================
