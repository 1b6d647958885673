---------------------------- MODULE Registration ----------------------------
(***************************************************************************)
(* Registration and e-mail verification: CreateUser, UpdateUser and        *)
(* VerifyEmail of the gRPC server, the task queue (asynq over Redis) and   *)
(* the worker that mails the verification codes, all running concurrently. *)
(*                                                                         *)
(* Each element of Calls is one invocation of a handler.  The task that a  *)
(* CreateUser call enqueues is named after the call.  Redis is not part of *)
(* the SQL transaction: the task exists as soon as it is enqueued, whether *)
(* or not the user's row is ever committed.                                *)
(*                                                                         *)
(* A secret code is a random string, drawn afresh for each row of          *)
(* verify_emails: it is modelled by the row's id, any other value being a  *)
(* code that was never issued.  Time advances in steps up to MaxTime,      *)
(* which stands for every later time.                                      *)
(***************************************************************************)
EXTENDS Integers, Sequences, FiniteSets

CONSTANTS
  Calls,          \* handler invocations
  Usernames,
  Emails,
  NoEmail,        \* an UpdateUser request without the optional e-mail
  Requests,       \* the requests the clients may send
  Scenarios,      \* which request each call carries: [Calls -> Requests], or a
                  \* part of it that an instance is restricted to
  MaxRetry,       \* asynq.MaxRetry
  ProcessIn,      \* asynq.ProcessIn, the delay of a task
  CodeLifetime,   \* how long a code is valid
  Concurrency,    \* workers of the asynq server
  MaxTime         \* bound: the last instant

\* "valid" tells whether the request passes its field validators.
CreateUserRequest  == [op : {"CreateUser"}, username : Usernames,
                       email : Emails, valid : BOOLEAN]
VerifyEmailRequest == [op : {"VerifyEmail"}, id : Int, code : Int,
                       valid : BOOLEAN]
UpdateUserRequest  == [op : {"UpdateUser"}, caller : Usernames,
                       username : Usernames, email : Emails \cup {NoEmail},
                       valid : BOOLEAN]

ASSUME RegistrationAssumption ==
  /\ MaxRetry \in Nat /\ ProcessIn \in Nat /\ CodeLifetime \in Nat
  /\ Concurrency \in Nat \ {0} /\ MaxTime \in Nat
  /\ NoEmail \notin Emails
  /\ Requests \subseteq
       CreateUserRequest \cup VerifyEmailRequest \cup UpdateUserRequest
  /\ IsFiniteSet(Calls) /\ Scenarios \subseteq [Calls -> Requests]

\* The rows of users and verify_emails.
User        == [email : Emails, verified : BOOLEAN]
VerifyEmail == [username : Usernames, email : Emails, used : BOOLEAN,
                expires : Nat]

VARIABLES
  users,          \* committed users: username -> [email, verified]
  verifyEmails,   \* verify_emails, by id
  mails,          \* the mails delivered: [to, code]
  now,
  req, pc, resp,  \* of each call: request, next step, status code
  start,          \* now() of each VerifyEmailTx: the time it began
  inserted,       \* the call's transaction has inserted its user
  claimed,        \* the verify_emails row the transaction has updated, or 0
  marked,         \* the transaction has updated the user's row
  task,           \* the state of each call's task
  retried,        \* how often the task was retried
  runAt,          \* when the task may run
  address,        \* the e-mail address the worker read for the task
  sending         \* the id of the code the worker is about to mail, or 0

callVars == <<req, pc, resp, start>>
txVars   == <<inserted, claimed, marked>>
taskVars == <<task, retried, runAt, address, sending>>
vars     == <<users, verifyEmails, mails, now, callVars, txVars, taskVars>>

PC == {"idle", "insertUser", "enqueue", "commitUser", "exists", "rollback",
       "useCode", "markUser", "commitVerify", "updateUser", "done"}

Codes == {"OK", "InvalidArgument", "PermissionDenied", "NotFound",
          "AlreadyExists", "Internal"}

Active  == {"getUser", "createCode", "send"}
Settled == {"completed", "skipped", "archived"}

Init ==
  /\ users = [u \in {} |-> [email |-> NoEmail, verified |-> FALSE]]
  /\ verifyEmails = <<>>
  /\ mails = {}
  /\ now = 0
  /\ req \in Scenarios
  /\ pc = [c \in Calls |-> "idle"]
  /\ resp = [c \in Calls |-> "none"]
  /\ start = [c \in Calls |-> 0]
  /\ inserted = [c \in Calls |-> FALSE]
  /\ claimed = [c \in Calls |-> 0]
  /\ marked = [c \in Calls |-> FALSE]
  /\ task = [c \in Calls |-> "absent"]
  /\ retried = [c \in Calls |-> 0]
  /\ runAt = [c \in Calls |-> 0]
  /\ address = [c \in Calls |-> NoEmail]
  /\ sending = [c \in Calls |-> 0]

-----------------------------------------------------------------------------
Goto(c, label) == /\ pc' = [pc EXCEPT ![c] = label]
                  /\ UNCHANGED resp

Answer(c, code) == /\ pc' = [pc EXCEPT ![c] = "done"]
                   /\ resp' = [resp EXCEPT ![c] = code]

\* MUTANT, EveryCallAnswered: a lock outlives its transaction.
EndTxKeepsCode(c) == /\ inserted' = [inserted EXCEPT ![c] = FALSE]
                     /\ marked' = [marked EXCEPT ![c] = FALSE]
                     /\ UNCHANGED claimed

\* The transaction is over: its locks are released.
EndTx(c) == /\ inserted' = [inserted EXCEPT ![c] = FALSE]
            /\ claimed' = [claimed EXCEPT ![c] = 0]
            /\ marked' = [marked EXCEPT ![c] = FALSE]

\* GetUser: the row of a user, if there is one.
Found(u) == {users[v] : v \in DOMAIN users \cap {u}}

Mailed(code) == \E m \in mails : m.code = code

\* Validation, the ownership check of UpdateUser, and BEGIN.  A client knows
\* a code only from a mail, and has an access token only as a user who exists.
Receive(c) ==
  LET r == req[c]
  IN  /\ pc[c] = "idle"
      /\ (r.op = "VerifyEmail" /\ r.code > 0) => Mailed(r.code)
      /\ r.op = "UpdateUser" => r.caller \in DOMAIN users
      /\ \/ ~r.valid /\ Answer(c, "InvalidArgument")
         \/ r.valid /\ r.op = "CreateUser" /\ Goto(c, "insertUser")
         \/ r.valid /\ r.op = "VerifyEmail" /\ Goto(c, "useCode")
         \/ /\ r.valid /\ r.op = "UpdateUser"
            /\ IF r.caller = r.username
               THEN Goto(c, "updateUser")
               ELSE Answer(c, "PermissionDenied")
      /\ start' = [start EXCEPT ![c] = IF r.op = "VerifyEmail" THEN now ELSE 0]
      /\ UNCHANGED <<users, verifyEmails, mails, now, req, txVars, taskVars>>

-----------------------------------------------------------------------------
(* CreateUser: CreateUserTx.                                               *)

\* MUTANT, UniqueEmail: uncommitted users are overlooked.
InsertingNone(c, u, e) == {}

\* The open transactions whose inserted user has the name or the address: a
\* unique index makes others wait for their end.
Inserting(c, u, e) ==
  {d \in Calls \ {c} : inserted[d] /\ (req[d].username = u \/ req[d].email = e)}

Taken(u, e) == u \in DOMAIN users \/ \E v \in DOMAIN users : users[v].email = e

InsertUser(c) ==
  LET r == req[c]
  IN  /\ pc[c] = "insertUser"
      /\ Inserting(c, r.username, r.email) = {}
      /\ IF Taken(r.username, r.email)
         THEN Goto(c, "exists") /\ UNCHANGED inserted
         ELSE /\ inserted' = [inserted EXCEPT ![c] = TRUE]
              /\ Goto(c, "enqueue")
      /\ UNCHANGED <<users, verifyEmails, mails, now, req, start, claimed, marked,
                     taskVars>>

\* AfterCreate: DistributeTaskSendVerifyEmail, before the commit.
Schedule(c) ==
  /\ task' = [task EXCEPT ![c] = "scheduled"]
  /\ runAt' = [runAt EXCEPT ![c] =
                 IF now + ProcessIn > MaxTime THEN MaxTime ELSE now + ProcessIn]
  /\ UNCHANGED <<retried, address, sending>>

Enqueue(c) ==
  /\ pc[c] = "enqueue"
  /\ Schedule(c)
  /\ Goto(c, "commitUser")
  /\ UNCHANGED <<users, verifyEmails, mails, now, req, start, txVars>>

\* MUTANT, RegisteredHasTask: the error is only logged.
EnqueueFailsSilently(c) ==
  /\ pc[c] = "enqueue"
  /\ Goto(c, "commitUser")
  /\ UNCHANGED <<users, verifyEmails, mails, now, req, start, txVars, taskVars>>

\* Redis fails, or only its reply is lost: the transaction is rolled back.
EnqueueFails(c) ==
  /\ pc[c] = "enqueue"
  /\ Schedule(c) \/ UNCHANGED taskVars
  /\ Goto(c, "rollback")
  /\ UNCHANGED <<users, verifyEmails, mails, now, req, start, txVars>>

PublishUser(c) ==
  users' = [u \in DOMAIN users \cup {req[c].username} |->
              IF u = req[c].username
              THEN [email |-> req[c].email, verified |-> FALSE]
              ELSE users[u]]

\* tx.Commit: done; or done and the reply is lost; or failed.
CommitUser(c) ==
  /\ pc[c] = "commitUser"
  /\ \/ PublishUser(c) /\ Answer(c, "OK")
     \/ PublishUser(c) /\ Answer(c, "Internal")
     \/ UNCHANGED users /\ Answer(c, "Internal")
  /\ EndTx(c)
  /\ UNCHANGED <<verifyEmails, mails, now, req, start, taskVars>>

\* tx.Rollback, of any of the transactions; whether it works or not, the
\* error that caused it decides the answer.
Rollback(c) ==
  /\ \/ pc[c] = "exists" /\ Answer(c, "AlreadyExists")
     \/ pc[c] = "rollback" /\ Answer(c, "Internal")
  /\ EndTx(c)
  /\ UNCHANGED <<users, verifyEmails, mails, now, req, start, taskVars>>

-----------------------------------------------------------------------------
(* VerifyEmail: VerifyEmailTx.                                             *)

\* MUTANT, CodeUsedOnce: without "AND is_used = false".
CodeValidAgain(c) ==
  LET i == req[c].id
  IN  /\ i \in DOMAIN verifyEmails
      /\ req[c].code = i
      /\ verifyEmails[i].expires > start[c]

\* UpdateVerifyEmail: the row must be unlocked, and is then tested as it is;
\* the expiry is compared with the time the transaction began.
CodeValid(c) ==
  LET i == req[c].id
  IN  /\ i \in DOMAIN verifyEmails
      /\ req[c].code = i
      /\ ~verifyEmails[i].used
      /\ verifyEmails[i].expires > start[c]

\* MUTANT, VerificationAtomic: the statement commits on its own.
UseCodeAtOnce(c) ==
  /\ pc[c] = "useCode"
  /\ IF CodeValid(c)
     THEN /\ verifyEmails' = [verifyEmails EXCEPT ![req[c].id].used = TRUE]
          /\ claimed' = [claimed EXCEPT ![c] = req[c].id]
          /\ Goto(c, "markUser")
     ELSE Goto(c, "rollback") /\ UNCHANGED <<claimed, verifyEmails>>
  /\ UNCHANGED <<users, mails, now, req, start, inserted, marked, taskVars>>

UseCode(c) ==
  /\ pc[c] = "useCode"
  /\ \A d \in Calls \ {c} : claimed[d] # req[c].id
  /\ IF CodeValid(c)
     THEN claimed' = [claimed EXCEPT ![c] = req[c].id] /\ Goto(c, "markUser")
     ELSE Goto(c, "rollback") /\ UNCHANGED claimed
  /\ UNCHANGED <<users, verifyEmails, mails, now, req, start, inserted, marked,
                 taskVars>>

\* The user whose code call c has claimed.
UserOf(c) == verifyEmails[claimed[c]].username

\* The open transactions that have updated user u's row.
Marking(c, u) == {d \in Calls \ {c} : marked[d] /\ UserOf(d) = u}

\* UpdateUser, setting is_email_verified only.
MarkUser(c) ==
  /\ pc[c] = "markUser"
  /\ Marking(c, UserOf(c)) = {}
  /\ marked' = [marked EXCEPT ![c] = TRUE]
  /\ Goto(c, "commitVerify")
  /\ UNCHANGED <<users, verifyEmails, mails, now, req, start, inserted, claimed,
                 taskVars>>

PublishVerified(c) ==
  /\ verifyEmails' = [verifyEmails EXCEPT ![claimed[c]].used = TRUE]
  /\ users' = [users EXCEPT ![UserOf(c)].verified = TRUE]

CommitVerify(c) ==
  /\ pc[c] = "commitVerify"
  /\ \/ PublishVerified(c) /\ Answer(c, "OK")
     \/ PublishVerified(c) /\ Answer(c, "Internal")
     \/ UNCHANGED <<users, verifyEmails>> /\ Answer(c, "Internal")
  /\ EndTx(c)
  /\ UNCHANGED <<mails, now, req, start, taskVars>>

-----------------------------------------------------------------------------
(* UpdateUser: one statement; the other columns are not modelled.          *)

\* A column that is not given stays as it is.
SetEmail(u, e) ==
  users' = [users EXCEPT ![u].email = IF e = NoEmail THEN @ ELSE e]

UpdateUser(c) ==
  LET r == req[c]
  IN  /\ pc[c] = "updateUser"
      /\ Marking(c, r.username) = {}
      /\ \A d \in Calls \ {c} : inserted[d] => req[d].email # r.email
      /\ IF r.username \notin DOMAIN users
         THEN Answer(c, "NotFound") /\ UNCHANGED users
         ELSE IF \E v \in DOMAIN users \ {r.username} : users[v].email = r.email
         THEN Answer(c, "AlreadyExists") /\ UNCHANGED users
         ELSE /\ SetEmail(r.username, r.email)
              /\ Answer(c, "OK") \/ Answer(c, "Internal")
      /\ UNCHANGED <<verifyEmails, mails, now, req, start, txVars, taskVars>>

-----------------------------------------------------------------------------
\* A statement fails: the connection breaks or the request is cancelled.
Fail(c) ==
  /\ \/ pc[c] \in {"insertUser", "useCode", "markUser"} /\ Goto(c, "rollback")
     \/ pc[c] = "updateUser" /\ Answer(c, "Internal")
  /\ UNCHANGED <<users, verifyEmails, mails, now, req, start, txVars, taskVars>>

-----------------------------------------------------------------------------
(* The worker: ProcessTaskSendVerifyEmail, under asynq.                    *)

\* A free worker takes a task that is due.
Dequeue(t) ==
  /\ task[t] = "scheduled"
  /\ runAt[t] <= now
  /\ Cardinality({s \in Calls : task[s] \in Active}) < Concurrency
  /\ task' = [task EXCEPT ![t] = "getUser"]
  /\ runAt' = [runAt EXCEPT ![t] = 0]
  /\ UNCHANGED <<users, verifyEmails, mails, now, callVars, txVars, retried, address,
                 sending>>

\* No row is answered with asynq.SkipRetry.
GetUser(t) ==
  LET found == Found(req[t].username)
  IN  /\ task[t] = "getUser"
      /\ \/ \E row \in found :
              /\ address' = [address EXCEPT ![t] = row.email]
              /\ task' = [task EXCEPT ![t] = "createCode"]
         \/ /\ found = {}
            /\ task' = [task EXCEPT ![t] = "skipped"]
            /\ UNCHANGED address
      /\ UNCHANGED <<users, verifyEmails, mails, now, callVars, txVars, retried, runAt,
                     sending>>

NewCode(t) == [username |-> req[t].username, email |-> address[t],
               used |-> FALSE, expires |-> now + CodeLifetime]

CreateVerifyEmail(t) ==
  /\ task[t] = "createCode"
  /\ verifyEmails' = Append(verifyEmails, NewCode(t))
  /\ sending' = [sending EXCEPT ![t] = Len(verifyEmails) + 1]
  /\ task' = [task EXCEPT ![t] = "send"]
  /\ UNCHANGED <<users, mails, now, callVars, txVars, retried, runAt, address>>

\* What the worker's handler knows is gone when it returns.
Forget(t) == /\ address' = [address EXCEPT ![t] = NoEmail]
             /\ sending' = [sending EXCEPT ![t] = 0]

Deliver(t) == mails' = mails \cup {[to |-> address[t], code |-> sending[t]]}

SendEmail(t) ==
  /\ task[t] = "send"
  /\ Deliver(t)
  /\ task' = [task EXCEPT ![t] = "completed"]
  /\ Forget(t)
  /\ UNCHANGED <<users, verifyEmails, now, callVars, txVars, retried, runAt>>

\* MUTANT, CodesBounded: the retries are not counted.
RetryForever(t) == task' = [task EXCEPT ![t] = "scheduled"] /\ UNCHANGED retried

\* MUTANT, TypeOK: one retry too many.
RetryOnceMore(t) ==
  IF retried[t] <= MaxRetry
  THEN /\ task' = [task EXCEPT ![t] = "scheduled"]
       /\ retried' = [retried EXCEPT ![t] = @ + 1]
  ELSE task' = [task EXCEPT ![t] = "archived"] /\ UNCHANGED retried

\* MUTANT, EveryTaskSettles: a task whose worker crashed is never recovered.
RetryLost(t) == task' = [task EXCEPT ![t] = "leased"] /\ UNCHANGED retried

\* asynq: a failed task is tried again, MaxRetry times at most.
Retry(t) ==
  IF retried[t] < MaxRetry
  THEN /\ task' = [task EXCEPT ![t] = "scheduled"]
       /\ retried' = [retried EXCEPT ![t] = @ + 1]
  ELSE task' = [task EXCEPT ![t] = "archived"] /\ UNCHANGED retried

\* A step of the worker returns an error or the worker crashes; the row may
\* have been inserted, or the mail delivered, all the same.
WorkerFails(t) ==
  /\ task[t] \in Active
  /\ \/ UNCHANGED <<verifyEmails, mails>>
     \/ /\ task[t] = "createCode"
        /\ verifyEmails' = Append(verifyEmails, NewCode(t)) /\ UNCHANGED mails
     \/ task[t] = "send" /\ Deliver(t) /\ UNCHANGED verifyEmails
  /\ Retry(t)
  /\ Forget(t)
  /\ UNCHANGED <<users, now, callVars, txVars, runAt>>

-----------------------------------------------------------------------------
Tick == /\ now < MaxTime
        /\ now' = now + 1
        /\ UNCHANGED <<users, verifyEmails, mails, callVars, txVars, taskVars>>

CallStep(c) == \/ InsertUser(c) \/ Enqueue(c) \/ CommitUser(c) \/ Rollback(c)
               \/ UseCode(c) \/ MarkUser(c) \/ CommitVerify(c) \/ UpdateUser(c)

WorkerStep(t) ==
  Dequeue(t) \/ GetUser(t) \/ CreateVerifyEmail(t) \/ SendEmail(t)

Quiescent == /\ now = MaxTime
             /\ \A c \in Calls : /\ pc[c] \in {"idle", "done"}
                                 /\ task[c] \in Settled \cup {"absent"}
             /\ UNCHANGED vars

Next == \/ \E c \in Calls : \/ Receive(c) \/ CallStep(c) \/ WorkerStep(c)
                            \/ EnqueueFails(c) \/ Fail(c) \/ WorkerFails(c)
        \/ Tick
        \/ Quiescent

\* Handlers and workers keep running, and time passes; failures, and the
\* arrival of requests, are never owed.
Fairness == /\ \A c \in Calls : WF_vars(CallStep(c)) /\ WF_vars(WorkerStep(c))
            /\ WF_vars(Tick)

Spec     == Init /\ [][Next]_vars
FairSpec == Spec /\ Fairness

-----------------------------------------------------------------------------
(* Properties.                                                             *)

\* The type of every variable.
TypeOK ==
  /\ DOMAIN users \subseteq Usernames
  /\ users \in [DOMAIN users -> User]
  /\ verifyEmails \in Seq(VerifyEmail)
  /\ mails \subseteq [to : Emails, code : DOMAIN verifyEmails]
  /\ now \in 0..MaxTime
  /\ req \in [Calls -> Requests]
  /\ pc \in [Calls -> PC]
  /\ resp \in [Calls -> Codes \cup {"none"}]
  /\ start \in [Calls -> 0..MaxTime]
  /\ inserted \in [Calls -> BOOLEAN]
  /\ claimed \in [Calls -> {0} \cup DOMAIN verifyEmails]
  /\ marked \in [Calls -> BOOLEAN]
  /\ task \in [Calls -> Active \cup Settled \cup {"absent", "scheduled"}]
  /\ retried \in [Calls -> 0..MaxRetry]
  /\ runAt \in [Calls -> 0..MaxTime]
  /\ address \in [Calls -> Emails \cup {NoEmail}]
  /\ sending \in [Calls -> {0} \cup DOMAIN verifyEmails]

\* Two users never have one address, though registrations and changes of
\* address with the same one run at the same time.
UniqueEmail ==
  \A u, v \in DOMAIN users : users[u].email = users[v].email => u = v

\* VerifyEmailTx is all or nothing: the users whose flag is set are exactly
\* the ones with a used code, whichever statement or commit failed.
VerificationAtomic ==
  {u \in DOMAIN users : users[u].verified} =
    {verifyEmails[i].username : i \in {j \in DOMAIN verifyEmails : verifyEmails[j].used}}

\* service_go_bank.proto: the link expires and "can only be used once".  Every
\* code that was used had been mailed, to the address on its row: the code of
\* another row, or one never issued, does not do.  Of the calls racing with one
\* code at most one succeeds, and it began before the code expired.
CodeUsedOnce ==
  /\ \A i \in DOMAIN verifyEmails : verifyEmails[i].used =>
       [to |-> verifyEmails[i].email, code |-> i] \in mails
  /\ \A c \in Calls : (req[c].op = "VerifyEmail" /\ resp[c] = "OK") =>
       /\ verifyEmails[req[c].id].used
       /\ start[c] < verifyEmails[req[c].id].expires
       /\ \A d \in Calls \ {c} :
            (req[d].op = "VerifyEmail" /\ resp[d] = "OK") => req[d].id # req[c].id

\* Nobody is registered without the task that mails the code: CreateUserTx
\* commits only after the task was enqueued.
RegisteredHasTask ==
  \A u \in DOMAIN users : \E t \in Calls :
    req[t].op = "CreateUser" /\ req[t].username = u /\ task[t] # "absent"

\* A task that is tried again creates a code again, but the codes of a user
\* are bounded by the attempts of the user's tasks.
CodesBounded ==
  \A u \in Usernames :
    Cardinality({i \in DOMAIN verifyEmails : verifyEmails[i].username = u})
      <= (MaxRetry + 1) * Cardinality({t \in Calls : /\ req[t].op = "CreateUser"
                                                     /\ req[t].username = u
                                                     /\ task[t] # "absent"})

\* Every request that arrives is answered: no statement waits for the lock of
\* another transaction forever.
EveryCallAnswered ==
  \A c \in Calls : pc[c] # "idle" ~> pc[c] = "done"

\* Every task that was enqueued is completed or given up, for every pattern
\* of failures: the retries end.
EveryTaskSettles ==
  \A t \in Calls : task[t] = "scheduled" ~> task[t] \in Settled

-----------------------------------------------------------------------------
(* What the comments say and the code does not keep.                       *)

\* ProcessTaskSendVerifyEmail gives a task up only when the user "was deleted
\* after the task was enqueued": nobody deletes users, so the task of a user
\* whose registration was acknowledged would not be given up.
SkippedOnlyIfDeleted ==
  \A t \in Calls : task[t] = "skipped" => resp[t] # "OK"

\* user.proto: the flag tells whether "the user's email address has been
\* verified", so a code was mailed to that address and used.
VerifiedEmailIsCurrent ==
  \A u \in DOMAIN users : users[u].verified =>
    \E i \in DOMAIN verifyEmails :
      verifyEmails[i].used /\ verifyEmails[i].email = users[u].email
=============================================================================
