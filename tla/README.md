# GoBank: specification and proofs

TLA+ models of GoBank (`src/`), a bank served over gRPC (with an HTTP gateway)
by Go handlers over PostgreSQL, with a Redis task queue and a mail worker. TLC
checks the models on small instances; TLAPS proves their safety and action properties,
and the refinement of the ledger, for every instance.

## Inventory

| Component | State | Operations | Interacts with |
|---|---|---|---|
| Transfers (`gapi/rpc_transfer.go`, `db/sqlc/tx_transfer.go`) | rows of `transfers`, `entries`, balances | `CreateTransfer` -> `TransferTx` | reads accounts *before* its transaction; five statements inside it |
| Accounts (`gapi/rpc_account.go`, `db/sqlc/account.sql.go`) | rows of `accounts` | create, get, look up, list, update, delete | foreign keys from transfers and entries |
| Transactions (`db/sqlc/store.go`) | open transactions, row locks | `execTx`: BEGIN, statements, COMMIT or ROLLBACK | every handler that writes twice |
| Money (`util/money.go`, `val/validation.go`) | none | float64 major units to int64 cents, validation | both sides of the API |
| Users and verification (`gapi/rpc_create_user.go`, `rpc_update_user.go`, `rpc_verify_email.go`, `db/sqlc/tx_*.go`) | rows of `users`, `verify_emails` | `CreateUser`, `UpdateUser`, `VerifyEmail` | enqueues a task inside its transaction; the codes come back from mails |
| Queue and worker (`worker/`, `mail/`) | tasks in Redis | enqueue, process, retry, give up | reads users, inserts codes, sends mails |
| Sessions and tokens (`gapi/rpc_login_user.go`, `rpc_token.go`, `middleware.go`, `token/`) | rows of `sessions`, clock | login, renew, authenticate | every protected handler |
| Listings (`gapi/rpc_entry.go`, `ListAccounts`) | none | pages by OFFSET | read accounts, entries |
| Gateway and start-up (`main.go`, `pb/*.gw.go`, `pb/*_grpc.pb.go`, `gapi/middleware.go`) | the listeners, a loopback connection, calls in flight | route, decode, call the gRPC server, intercept, answer | every handler is entered through it |
| Logging (`logger/`) | the sampler's counters | one line of the gateway and one of the gRPC server per call | request ids, codes and statuses of calls |
| Legacy HTTP server (`api/`) | the same tables | users, tokens, accounts, transfers over Gin | kept for reference, not started by `main.go` |
| Configuration, swagger pages, conversions | none | | |

What is hard: handlers run concurrently and read rows outside the transaction
that acts on them; transactions wait for each other's row locks; any statement,
commit or reply may fail; a task is enqueued in another system before the
transaction that justifies it commits; workers retry; codes and tokens expire;
two listeners start in no order, one calls the other, and a client may go away while
its call is being handled.

What makes each component correct:

- *Transfers and accounts*: double entry; balances move by the entries, once,
  without lost updates; no movement of a deleted account; what was validated
  still holds of what is recorded; the answer tells the truth; no deadlock.
- *Users and verification*: unique addresses; verification is all or nothing and
  by a code that was mailed, unexpired and used once; nobody is registered
  without a task; the flag speaks of the current address.
- *Queue and worker*: every task ends; retries are bounded.
- *Sessions*: every token goes back to a login with the right password; a refresh
  token has its session; an access token outlives a session by a bounded time;
  blocking a session stops its renewals; only its user changes a password.
- *Gateway and start-up*: whichever way a call comes in, a protected handler is entered
  only for the user of a valid token, with the id the path names; a status tells what
  may be concluded about the database, whatever fails on the way.
- *Logging*: both lines of a call carry its request id and agree on the level, and
  sampling hides no kind of line behind another.
- *Legacy server*: rows are changed and shown only by their owners; money is conserved;
  answers tell the truth.
- *Listings*: going from page to page skips nothing unless something was deleted,
  and repeats nothing unless something was inserted; behind the last row there is
  nothing.

`PROJECT.json` lists the hazards line by line.

## Plan

1. `Money`, `Ledger`, `Bank`: the core and its refinement - done, checked and proved
   (`Bank_proofs`, with `Sums` for the reconciliation of balances and entries).
2. `Registration`: users, verification, queue and worker - done, checked; its safety
   properties proved (`Registration_proofs`).
3. `Sessions`: login, renewal, the interceptor, password changes, blocking of
   sessions, expiry of tokens - done, checked and proved (`Sessions_proofs`).
4. `Paging`: `ListAccounts` and `ListEntries`, page after page, while rows come and
   go, with offsets that wrap around - done, checked and proved (`Paging_proofs`).
5. `Gateway`: the process around the handlers, its two listeners, and the lines it logs
   - done, checked and proved (`Gateway_proofs`).
6. `Legacy`: the handlers of `api/` with tokens that expire while they run - done, checked
   and proved (`Legacy_proofs`).
7. An abstract specification of verification (a user is unverified, then verified
   by a mailed code) that `Registration` implements - to do.

## Modules

| Module | Models |
|---|---|
| `Money` | amounts: `FloatToCents` with rounding, overflow and NaN; two's complement negation |
| `Ledger` | what the bank promises about money: a transfer is one step |
| `Bank` | the account and transfer handlers over SQL transactions |
| `Sums` | lemmas about sums over finite sets |
| `Bank_proofs` | the theorems about `Bank` |
| `Registration` | registration, change of address, verification, queue and worker |
| `Registration_proofs` | the theorems about `Registration` |
| `Sessions` | login, renewal, authentication, change of password, blocking |
| `Sessions_proofs` | the theorems about `Sessions` |
| `Paging` | the listings, page after page, over changing tables |
| `Paging_proofs` | the theorems about `Paging` |
| `Gateway` | routing, interceptors, answers, logging, start and end of the process |
| `Gateway_proofs` | the theorems about `Gateway` |
| `Legacy` | the Gin server: users, tokens, accounts and transfers |
| `Legacy_proofs` | the theorems about `Legacy` |
| `MCBank`, `MCRegistration`, `MCSessions`, `MCPaging`, `MCGateway`, `MCLegacy` | instances for TLC |

The modules share the database but no tables that they both change, except `users`:
`Registration` has the address and the verified flag of a row, `Sessions` the
password and its time. `Bank` and `Registration` take the username the interceptor
puts into the context as part of a request, and `Gateway` shows that they may. In turn
`Gateway` takes of a handler that it ends with some code, and that any code but
`Internal` tells whether it has changed the database: `AnswersHonest` of `Bank` says so
of transfers. `Legacy` takes `TransferTx` as one step, as `Bank` refines it
(`LedgerSpec`), and proves nothing more about its statements.

### Bank

Each element of `Calls` is one invocation of a handler with a request `req[c]`;
`pc[c]` is its next statement and `resp[c]` its gRPC code. `accounts`,
`transfers` and `entries` are the committed rows; what a transaction has written
and not committed is in `newTransfers`, `newEntries` and `newBalances`. One
action is one statement sent to the database with the code around it:

- `Receive` - validation (`validate...Request`).
- `CheckFromAccount`, `CheckToAccount` - the reads of `CreateTransfer`, which
  keep the balance (`seen`) and the converted amount (`cents`).
- `InsertTransfer`, `InsertFromEntry`, `InsertToEntry`, `AddFirst`, `AddSecond`,
  `Commit`, `Rollback` - `TransferTx` under `execTx`, in its order.
- `InsertAccount`, `AuthorizeAccount`, `LookUpAccount`, `UpdateAccount`,
  `DeleteAccount` - the account handlers; `UpdateAccount` and `DeleteAccount`
  check the owner in one statement and write in another.
- `Fail` - any statement fails (connection lost, request cancelled).

PostgreSQL is external and modelled by what the statements rely on: committed
reads, `KEY SHARE` locks of foreign keys, `NO KEY UPDATE` locks of balance
updates, and `DELETE` waiting for both. Locks are not a variable: they are what
the pending writes imply (`KeyShared`, `Updated`). The amount of a request is a
number of tenths of a cent, or NaN, and the width of integers is `MaxInt`.

### Registration

`users`, `verifyEmails` and `mails` are the committed rows and the mails
delivered. A call of `CreateUser` runs `InsertUser`, `Enqueue` (or
`EnqueueFails`) and `CommitUser`; its task, named after the call, runs
`Dequeue`, `GetUser`, `CreateVerifyEmail` and `SendEmail`, each of which may fail
(`WorkerFails`, with or without its effect) and is then retried by asynq up to
`MaxRetry` times. `VerifyEmail` runs `UseCode`, `MarkUser`, `CommitVerify`. A
secret code is the id of its row; a client presents a positive code only after
it was mailed. `UpdateUser` is one statement, of which only the address is
modelled.

### Sessions

A token is the payload it seals: id, user and expiry. `held` has every token a
client was answered with; a call presents one of them, of either kind, or something
that is no token. `LoginUser` runs `GetUser`, `SignIn` (password check and both
tokens) and `CreateSession`; `RenewAccessToken` runs `VerifyRefreshToken`,
`GetSession` and `Renew`; `UpdateUser` runs `Authenticate` (the interceptor, then the
handler's checks), `StampChange` and `UpdateUser`. Time passes between the steps, so
a token may expire, and a session be blocked (`Block`, by hand: no code does it),
between a check and what it permits. A hash is modelled by the password it matches.

### Paging

`rows` are the committed rows of a user's two tables, of which only the id and the
time of the transaction are kept, as these order the listings. A client asks for
page after page (`List`), each of which is one statement, until one is not full. In
between, transactions insert rows (`BeginTx`, `Insert`, `Commit`, `Rollback`: the ids
are drawn early, the rows appear late) and accounts are deleted. The offset is an
integer that wraps around beyond `MaxInt`, and the numbers of the pages end there: a
client that has asked for page `MaxInt` and was answered a full one cannot go on
(`"exhausted"`).

### Gateway

A call of `Calls` is an HTTP request or one sent straight to the gRPC server. `gw[c]` is
its next step in the gateway (`ServeHTTP`, `Invoke`, `Disconnect`, `Reply`, `LogHTTP`) and
`srv[c]` in the gRPC server (`ReceiveGRPC`, `Decode`, `Intercept`, `Handle`, `Return`,
`ReturnStream`); both go on by themselves once the client has gone away. `Routes` is the
table the generated code registers, in its order, and a path is the sequence of its
segments; of a message only the id is kept, from the body, the query or the path as
`request_GoBank_*_0` reads them; a template names its variable `"id"`, as the
generated patterns do. `ListenHTTP`, `ListenGRPC`, `Connect` and `Fatal` are the
start and the end of the process. A line of the log is its message, level and
request id, and whether the sampler kept it; `count` are the sampler's counters and
`Second` resets one. The mux of grpc-gateway, the channel of grpc-go and zap's sampler
are external, modelled by what the code expects of them. The duration of a connection
attempt and its back-off are not modelled: a failed connection may be tried again at
any time.

### Legacy

One action is one statement of the store with the code up to the next one, named after
the handler. A client presents any token it holds, of either kind; `authMiddleware` checks
it once, and time passes between the statements. An INSERT, UPDATE or DELETE may take
effect and its reply be lost (`Took`), or fail (`Fail`). `held`, `sessions`, `accounts` and
`moved` (the rows of `transfers`) are the tables and what clients have; balances are in
cents of width `MaxInt`.

## Runs

| Run | Shows |
|---|---|
| `bank_all` | all handlers, any two of 28 calls on 4 accounts beside a third, and three transfers in a ring, 64-bit edge at 7, under fairness: types, double entry, foreign keys, authorization of recorded transfers, honest answers, no lost updates, one account per currency, no deadlock, balances reconcile with entries, everybody is answered, overdraft only by the race, refinement of `Ledger` |
| `bank_overdraft` (violated) | two transfers that both pass the check overdraw the account |
| `bank_tiny` (violated) | a transfer of 0.4 cents is recorded with amount 0 |
| `registration_safe` | 3 calls: registrations and changes of address, or a registration and calls with right, wrong, used and expired codes: unique addresses, a task for everyone, bounded codes, atomic verification by a mailed code, once |
| `registration_live` | calls are answered, tasks settle |
| `registration_skip` (violated) | the task runs before the registration commits and is given up |
| `registration_change` (violated) | a changed address is reported as verified |
| `sessions_all` | 3 calls of every kind, with expiry and blocking: where tokens come from, how long they last, what stops a renewal, who changes a password |
| `paging_walks` | walks through 3 accounts or 2 entries while 2 transactions insert and accounts are deleted: nothing is skipped without a deletion, nothing repeated without an insertion, nothing found behind the last row unless the offset wraps |
| `gateway_all` | every verb and path, every content and header alone, any two of four calls together, three lines of one kind: who reaches which handler with which id, what a status tells, levels, sampling and request ids of the lines |
| `gateway_log` (violated) | the id of a request that has none is generated by the middleware and missing in the gRPC server's line |
| `legacy_all` | 3 calls, 39 requests on 2 accounts, expiring tokens and lost replies: only owners change and see rows, transfers conserve money and overdraw only by the race, answers are honest |

More things in which the code differs from its documentation were met while modelling
and have no violated run:

- `VerifyEmail` answers every error of its transaction with `Internal`, a wrong or expired
  code included (`gapi/rpc_verify_email.go:25`), where `proto/service_go_bank.proto:129`
  promises 400 and 404: `Rollback` of `Registration`.
- `ListAccounts` misses an account that is there all the time when another one is deleted
  between two pages (`service_go_bank.proto:185`: "a paginated list of all accounts"):
  hence the condition `~shrunk` of `NothingSkipped`. And the page of a very large number
  has rows of another one (`gapi/rpc_account.go:123`, `gapi/rpc_entry.go:31`): hence
  `PastTheEndOnlyByWrap`.
- `password_changed_at` is stamped before the statement runs (`gapi/rpc_update_user.go:55`),
  so of two concurrent changes the one that takes effect last may carry the earlier time,
  against "the last password change" of `proto/user.proto:43`: `StampChange` and
  `UpdateUser` of `Sessions`. Nothing reads the column.
- The gRPC line never has the `user` that `logger/grpc.go:115` promises: its context key
  (`logger/grpc.go:334`) is of another type than the one `gapi` stores the payload under,
  and the context the inner interceptor derives is not the one the outer one reads.
- `HTTPMiddleware` "logs every request" (`logger/http.go:106`) through a sampler that drops
  lines; `/metrics` and the health check of `main.go:117` have rules in the logger, but no
  handler.
- The reflection stream is served without an auth interceptor (`main.go:127`).
- The legacy server accepts a transfer from an account to itself, answers 401 for a
  foreign source account, and refuses to set a balance of 0 although its binding says
  `gte=0`.

**Bounds.** Requests are sets chosen in the MC modules, and `Scenarios` are the
combinations of them that are sent together. Calls are interchangeable, so one order of
the requests of a scenario stands for all: the MC modules enumerate these instead of
declaring a symmetry, which liveness does not permit. Two calls are enough for every pair of handlers to interleave at
every statement, three for a cycle of three lock holders and for a third party
to change what two others read. `MaxInt = 7` puts overflow, the
smallest integer and unrepresentable amounts next to ordinary ones. `MaxAccountId`
bounds the account sequence: beyond it `CreateAccount` fails. In `Registration`,
`MaxRetry = 1` stands for 10, and `MaxTime`, the last instant, stands for every
later time: it lets a task become due, run before or after the commit, and its
code expire before it is used. In `Sessions` a refresh token lasts one instant of
three, so that it can be used, expire between its verification and the renewal, and
be refused; three calls are a login, a use of its token and a call that races with
that. In `Paging` pages have one or two rows of three, two transactions insert up to
four, which may commit in either order, and `MaxInt = 7` makes the offset wrap at page
7 as 2^31 - 1 does far behind any real row. Walks do not interact, so one client is
enough. In `Gateway` calls meet only in the connection, the process and the sampler's
counters, so two at a time, of one request of each kind, show their interference; the
sampler keeps 1 line of a kind and then every 2nd (in the code 100 and every 100th), so
that three lines reach each case. In `Legacy` a refresh token lasts 2 of 3 instants and an
access token 1, so that tokens expire, and are renewed, while calls run, and balances are 3 and 1
at an integer width of 7.

**Fairness.** A handler that was entered keeps executing, and so does the
worker; time passes. Nothing makes a request arrive or a failure happen. The
steps that wait for a row lock are disabled meanwhile, so weak fairness suffices
only because locks are released in the end, which is what is checked.

## Proofs

Every invariant and every action property of the passing runs is a theorem, and so is the
refinement of `Ledger`: `Spec => ...`, for any sets of calls, users and
requests and any value of the other constants that the module's assumption admits (`BankAssumption`,
`MoneyAssumption`, `GatewayAssumption`, ...). What these ask of the constants is
that requests have the fields of their kind, that bounds and durations are
numbers, and, where something is counted, that the calls are finitely many.

The argument is the same each time: the properties do not say how far each call has got, so they
are not inductive as they stand; `IInv` adds, for each step of a handler, what the
call has read, checked and written by then, and the theorem `Invariance` is
`Spec => []IInv`. The invariants were first checked by TLC on the runs' instances. Properties of steps are then
proved of a step from a state with `IInv`.

`Bank_proofs`:

- `Invariance`. `IInv` says, for each call, what its pending writes are at each `pc`
  (`Pending`), what has been checked of the accounts its request names (`Progress`), that
  no two transactions have updated one row (`Exclusive`), that the rows a transaction has
  locked are there with the balances it saw (`Locked`), and that a recorded transfer is
  the one its call made, between accounts that are still there, while an acknowledged
  one is recorded (`Recorded`, `Acknowledged`).
- From it `TypeCorrect`, `DoubleEntryHolds`, `NoDanglingHolds`, `AuthorizedHolds`,
  `AnswersHonestHolds`, `NoLostUpdateHolds`, `OneAccountHolds`, `OverdraftHolds`.
- `NoDeadlockHolds`: in a group of calls that all wait within the group, every
  waiting call is waited for by one that holds a smaller account id; the least id
  wanted is a contradiction. It holds for groups of any size.
- `Refinement`: `Spec => LedgerSpec`. A commit that takes effect is one `Move`
  (`CommitMoves`, which needs that the pending balances are current); every other
  step is a step of the ledger on one account or changes no table.
- `ReconciledHolds`, from the further invariant `Books`: the entries are finitely many, an
  id that is drawn is new, and each account that no call overwrites holds what it was opened
  with plus its committed entries.

`Sums` holds what the proofs about money need of `MapThenSumSet`: that the sum exists,
is an integer, changes by the element added or changed, and is the same for functions
that agree. The sum is a fold in an unknown order, and the induction over subsets is made
from a smallest counterexample (`WFMin`), as the induction theorems of the library
are out of the provers' reach.

`Registration_proofs`: `Invariance`, then `TypeCorrect`, `UniqueEmailHolds`,
`RegisteredHasTaskHolds`, `VerificationAtomicHolds`, `CodeUsedOnceHolds`,
`CodesBoundedHolds`. `IInv` adds where each transaction and each attempt
of the worker stands (`Registers`, `Works`, `Verifies`, `Succeeded`), that the users inserted but not
yet committed are new and differ (`NamesFree`, `NamesApart`), and that the codes claimed
but not yet committed are unused and differ (`ClaimsOpen`, `ClaimsApart`): these four are
what the unique constraints and the row locks of PostgreSQL give, and uniqueness after the commit follows from them.
The bound on codes is the cardinality of an injection of codes into the attempts of
tasks (`Attributed`); each insert of a code extends it, which a bound alone would not
let one prove.

`Sessions_proofs`: `Invariance`, then `TypeCorrect`, `RefreshHasSessionHolds`,
`TokensComeFromLoginsHolds`, `AccessBoundedHolds`. `IInv` adds what tokens a call can show
(`Presents`), that the two tokens of a login were made at one instant after the password was found right (`LoggingIn`), that a session once read only
changes by being blocked (`Renewing`), and that a session is that of its refresh token
(`Stored`). `OwnerChanges` is about steps. `BlockStops` is a temporal one:
a call that has not read its session when it is blocked is `Stopped`, and stays so, whatever comes.

`Legacy_proofs`: `Invariance`, then `TypeCorrect` and `AnswersHonestHolds`; `OwnersOnlyHolds`
rests on `Owns`: the owner is checked against a row read by an earlier
statement, but an id is never given to a second account (`IdsDrawn`), so the row written is that
owner's or is gone. `TransfersSoundHolds` rests on `Funded`
(a transfer reaches its transaction only after the balance read covered it) and on the lemmas of `Sums`.

`Paging_proofs`: `Invariance`, then `TypeCorrect`, `NothingSkippedHolds`,
`NothingRepeatedHolds`, `PastTheEndHolds`. Ids are drawn once, so either order of the rows is total
and their ranks are a bijection onto `0..n-1`. Unless rows went, all that
a client has yet to see stands at or after the offset it asks for next (`Ahead`);
unless rows came, all it has seen stands before it (`Behind`). The
offset wraps at the width of int32, and a page whose offset has wrapped below zero fails.

`Gateway_proofs`:

- `Authenticated`: `Spec => []HandlersAuthenticated`. Its invariant `AuthInv` adds that what
  stands before its handler has been let through by the interceptor or is the stream
  (`LetThrough`), and that an HTTP request nobody has looked at has not reached the gRPC
  server (`Untouched`), so that no message is replaced after the check.
- `StatusHonest`: `Spec => []StatusTellsEffect`. The property is about the end of a call; the
  invariant `Progress` says at each step what the gateway and the gRPC server know of each
  other, which a status may say only because the server has done with the call by then,
  never got it, or the client is gone.
- `Invariance` of `Typed`, then `TypeCorrect` and `RoutedAsDocumentedHolds`. A call has at
  most one message, and it is the one a handler is entered with (`Delivered`). That it is the right one
  (`ChosenIsRight`) is a fact about the table of routes: of thirteen templates three have a
  variable, no earlier one of the same verb matches the same path, and the path is read after the
  query and the body.
- `LinesInvariance` of `LinesInv`, then `LinesAgreeHolds` and `LinesKeptHolds`. Each side writes its line
  at its end, with the level of what it answers, under the request id of the client if it
  sent one (`Told`); the counter of a kind of line is ahead of the calls that have one kept only when
  enough are kept (`Samples`, `KeptEnough`).

Only model-checked: the liveness properties `EveryCallAnswered` (of `Bank` and of
`Registration`) and `EveryTaskSettles`, as the provers know nothing of fairness and
`ENABLED`. The properties of the runs that find a violation are false, and have no theorem.

## What is not modelled

Configuration, the swagger pages and the conversions of answers, which keep no state and
choose nothing. The encoders of the logger and the fields that are only rendered;
`worker/logger.go`, which hands the lines of asynq on. The texts of names, addresses and
mails: a request carries whether its fields are valid. User agent and address of a
session, which nothing reads. The cryptography of tokens, and the JWT maker, which
is not used. Timestamps of rows that order nothing. Failures of the whole database: what
has been committed stays.
