------------------------------- MODULE Paging -------------------------------
(***************************************************************************)
(* ListAccounts and ListEntries, called page after page by clients while   *)
(* rows come and go.                                                       *)
(*                                                                         *)
(* A table holds the rows of one user: its accounts, or the entries of all *)
(* its accounts.  Of a row only what orders it is kept: the id, and the    *)
(* time its transaction began, which is the default of created_at.  Rows   *)
(* become visible when their transaction commits, which need be neither in *)
(* the order of the ids nor in that of the times.                          *)
(*                                                                         *)
(* A client walks through a table by asking for one page after the other   *)
(* until one is not full.                                                  *)
(***************************************************************************)
EXTENDS Integers, FiniteSets

CONSTANTS
  Clients,
  Writers,          \* transactions that insert rows
  Requests,         \* the walks the clients may make
  InitAccounts,     \* how many rows there are when the clients start
  InitEntries,
  MaxInt,           \* the largest page number and offset, 2^31 - 1 in the code
  MaxAccountsPage,  \* the largest page sizes, 100 and 50 in the code
  MaxEntriesPage,
  MaxTime           \* bound: the last instant

MinInt == -MaxInt - 1

Tables == {"accounts", "entries"}

\* A walk: the table, the page it begins with, the size of the pages.
Walk == [table : Tables, first : MinInt..MaxInt, size : MinInt..MaxInt]

ASSUME PagingAssumption ==
  /\ MaxInt \in Nat \ {0} /\ MaxTime \in Nat \ {0}
  /\ InitAccounts \in Nat /\ InitEntries \in Nat
  /\ MaxAccountsPage \in 1..MaxInt /\ MaxEntriesPage \in 1..MaxInt
  /\ Requests \subseteq Walk

VARIABLES
  rows,       \* the committed rows of each table
  nextId,     \* the sequences the ids are drawn from
  now,
  tx,         \* of each writer: step, table, time it began, rows it inserted
  walk, page, \* of each client: its walk, the page it asks for next
  status,     \* "walking", or how it ended: the code of the last answer, or
              \* "exhausted" if the page numbers were
  seen,       \* the rows it was answered with
  repeated,   \* it was answered with a row twice
  start,      \* history: the rows of the table when the walk began,
  shrunk,     \*   whether rows were deleted since,
  grown       \*   whether rows were inserted since

clientVars == <<walk, page, status, seen, repeated, start>>
vars == <<rows, nextId, now, tx, clientVars, shrunk, grown>>

Row == [id : Nat, at : Nat]

Idle == [step |-> "idle", table |-> "accounts", at |-> 0, rows |-> {}]

InitRows(n) == {[id |-> i, at |-> 0] : i \in 1..n}

Init ==
  /\ rows = [t \in Tables |-> InitRows(IF t = "accounts" THEN InitAccounts
                                                         ELSE InitEntries)]
  /\ nextId = [t \in Tables |-> Cardinality(rows[t]) + 1]
  /\ now = 1
  /\ tx = [w \in Writers |-> Idle]
  /\ walk \in [Clients -> Requests]
  /\ page = [c \in Clients |-> 0]
  /\ status = [c \in Clients |-> "idle"]
  /\ seen = [c \in Clients |-> {}]
  /\ repeated = [c \in Clients |-> FALSE]
  /\ start = [c \in Clients |-> {}]
  /\ shrunk = [c \in Clients |-> FALSE]
  /\ grown = [c \in Clients |-> FALSE]

-----------------------------------------------------------------------------
(* The queries.                                                            *)

\* ValidatePageID.
ValidatePageID(p) == p >= 1

\* ValidatePageSize of ListAccounts, validateEntriesPageSize of ListEntries.
ValidatePageSize(t, size) ==
  size >= 1 /\ size <= IF t = "accounts" THEN MaxAccountsPage ELSE MaxEntriesPage

Valid(t, p, size) == ValidatePageID(p) /\ ValidatePageSize(t, size)

\* Integers wrap around.
Wrap(n) == ((n - MinInt) % (MaxInt - MinInt + 1)) + MinInt

\* MUTANT, NothingSkipped: the page number counts from zero.
OffsetFromZero(p, size) == Wrap(p * size)

\* MUTANT, NothingRepeated: the pages overlap.
OffsetOverlapping(p, size) == Wrap((p - 1) * (size - 1))

\* Of (pageId - 1) * pageSize, both of them int32, the low bits are kept.
Offset(p, size) == Wrap((p - 1) * size)

\* ORDER BY id; ORDER BY created_at DESC, id DESC.
Before(t, r, s) ==
  IF t = "accounts" THEN r.id < s.id
  ELSE r.at > s.at \/ (r.at = s.at /\ r.id > s.id)

Rank(t, r) == Cardinality({s \in rows[t] : Before(t, s, r)})

\* LIMIT and OFFSET.
Page(t, limit, offset) ==
  {r \in rows[t] : offset <= Rank(t, r) /\ Rank(t, r) < offset + limit}

-----------------------------------------------------------------------------
(* The clients.                                                            *)

Begin(c) ==
  /\ status[c] = "idle"
  /\ page' = [page EXCEPT ![c] = walk[c].first]
  /\ start' = [start EXCEPT ![c] = rows[walk[c].table]]
  /\ shrunk' = [shrunk EXCEPT ![c] = FALSE]
  /\ grown' = [grown EXCEPT ![c] = FALSE]
  /\ status' = [status EXCEPT ![c] = "walking"]
  /\ UNCHANGED <<rows, nextId, now, tx, walk, seen, repeated>>

Stop(c, code) == /\ status' = [status EXCEPT ![c] = code]
                 /\ UNCHANGED <<page, seen, repeated>>

\* An answer with rows: the client goes on if the page is full, unless there is
\* no larger page number.
Take(c, answer) ==
  /\ seen' = [seen EXCEPT ![c] = @ \cup answer]
  /\ repeated' = [repeated EXCEPT ![c] = @ \/ answer \cap seen[c] # {}]
  /\ IF Cardinality(answer) = walk[c].size /\ page[c] < MaxInt
     THEN page' = [page EXCEPT ![c] = @ + 1] /\ UNCHANGED status
     ELSE /\ status' = [status EXCEPT ![c] =
                          IF Cardinality(answer) = walk[c].size THEN "exhausted" ELSE "OK"]
          /\ UNCHANGED page

\* One call; PostgreSQL refuses a negative OFFSET.  A call that fails for any
\* other reason changes nothing, and the client asks for the page again.
List(c) ==
  LET t == walk[c].table
      size == walk[c].size
      offset == Offset(page[c], size)
  IN  /\ status[c] = "walking"
      /\ IF ~Valid(t, page[c], size)
         THEN Stop(c, "InvalidArgument")
         ELSE IF offset < 0 THEN Stop(c, "Internal")
         ELSE Take(c, Page(t, size, offset))
      /\ UNCHANGED <<rows, nextId, now, tx, walk, start, shrunk, grown>>

-----------------------------------------------------------------------------
(* The writers: CreateAccount, and TransferTx, of which the user has one   *)
(* entry, or two if both accounts are the user's.                          *)

BeginTx(w, t) ==
  /\ tx[w].step = "idle"
  /\ tx' = [tx EXCEPT ![w] = [step |-> "begun", table |-> t, at |-> now, rows |-> {}]]
  /\ UNCHANGED <<rows, nextId, now, clientVars, shrunk, grown>>

Insert(w) ==
  LET t == tx[w].table
  IN  /\ tx[w].step = "begun"
      /\ Cardinality(tx[w].rows) < IF t = "accounts" THEN 1 ELSE 2
      /\ tx' = [tx EXCEPT ![w].rows = @ \cup {[id |-> nextId[t], at |-> tx[w].at]}]
      /\ nextId' = [nextId EXCEPT ![t] = @ + 1]
      /\ UNCHANGED <<rows, now, clientVars, shrunk, grown>>

Mark(history, t) == history' = [c \in Clients |-> history[c] \/ walk[c].table = t]

Commit(w) ==
  LET t == tx[w].table
  IN  /\ tx[w].step = "begun"
      /\ tx[w].rows # {}
      /\ rows' = [rows EXCEPT ![t] = @ \cup tx[w].rows]
      /\ tx' = [tx EXCEPT ![w].step = "ended", ![w].rows = {}]
      /\ Mark(grown, t)
      /\ UNCHANGED <<nextId, now, clientVars, shrunk>>

\* MUTANT, TypeOK: the ids that were drawn are given back.
RollbackSequence(w) ==
  /\ tx[w].step = "begun"
  /\ tx' = [tx EXCEPT ![w].step = "ended", ![w].rows = {}]
  /\ nextId' = [nextId EXCEPT ![tx[w].table] = @ - Cardinality(tx[w].rows)]
  /\ UNCHANGED <<rows, now, clientVars, shrunk, grown>>

\* The ids that were drawn are lost.
Rollback(w) ==
  /\ tx[w].step = "begun"
  /\ tx' = [tx EXCEPT ![w].step = "ended", ![w].rows = {}]
  /\ UNCHANGED <<rows, nextId, now, clientVars, shrunk, grown>>

\* DeleteAccount.  Nothing deletes entries, nor an account that has any.
DeleteAccount(r) ==
  /\ rows' = [rows EXCEPT !["accounts"] = @ \ {r}]
  /\ Mark(shrunk, "accounts")
  /\ UNCHANGED <<nextId, now, tx, clientVars, grown>>

Tick == /\ now < MaxTime
        /\ now' = now + 1
        /\ UNCHANGED <<rows, nextId, tx, clientVars, shrunk, grown>>

\* Every client has what it wanted.
Quiescent == /\ \A c \in Clients : status[c] \notin {"idle", "walking"}
             /\ UNCHANGED vars

Next == \/ \E c \in Clients : Begin(c) \/ List(c)
        \/ \E w \in Writers :
             \/ \E t \in Tables : BeginTx(w, t)
             \/ Insert(w) \/ Commit(w) \/ Rollback(w)
        \/ \E r \in rows["accounts"] : DeleteAccount(r)
        \/ Tick
        \/ Quiescent

Spec == Init /\ [][Next]_vars

-----------------------------------------------------------------------------
(* Properties.                                                             *)

\* The type of every variable.
TypeOK ==
  /\ rows \in [Tables -> SUBSET Row]
  /\ \A t \in Tables : \A r \in rows[t] : r.id < nextId[t]
  /\ nextId \in [Tables -> Nat]
  /\ now \in 1..MaxTime
  /\ tx \in [Writers -> [step : {"idle", "begun", "ended"}, table : Tables,
                         at : 0..MaxTime, rows : SUBSET Row]]
  /\ walk \in [Clients -> Requests]
  /\ page \in [Clients -> MinInt..MaxInt]
  /\ status \in [Clients -> {"idle", "walking", "exhausted",
                             "OK", "InvalidArgument", "Internal"}]
  /\ repeated \in [Clients -> BOOLEAN]
  /\ shrunk \in [Clients -> BOOLEAN] /\ grown \in [Clients -> BOOLEAN]
  /\ seen \in [Clients -> SUBSET Row] /\ start \in [Clients -> SUBSET Row]

\* A walk from the first page to the last sees every row that was there when
\* it began, however many come in front of it or commit late; rows that are
\* deleted, which entries never are, may make it skip others.
NothingSkipped ==
  \A c \in Clients :
    (status[c] = "OK" /\ walk[c].first = 1 /\ ~shrunk[c]) => start[c] \subseteq seen[c]

\* No row is answered twice, on two pages, unless rows were inserted during
\* the walk: deletions never repeat one.
NothingRepeated == \A c \in Clients : repeated[c] => grown[c]

\* A page behind the last row has rows only if its offset is beyond the largest
\* integer, where (pageId - 1) * pageSize wraps around to a smaller one, or if
\* rows were inserted meanwhile.
PastTheEndOnlyByWrap ==
  \A c \in Clients :
    LET offset == (walk[c].first - 1) * walk[c].size
    IN  (seen[c] # {} /\ offset >= Cardinality(start[c])) =>
          offset > MaxInt \/ grown[c]
=============================================================================
