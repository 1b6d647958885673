--------------------------- MODULE Paging_proofs ----------------------------
(***************************************************************************)
(* For any number of clients and writers, any walks, tables, page sizes    *)
(* and any width of integers: a walk answers every row that stays and no   *)
(* row twice, unless rows are deleted or inserted meanwhile.               *)
(***************************************************************************)
EXTENDS Paging, Functions, FiniteSetTheorems, TLAPS

-----------------------------------------------------------------------------
(* The inductive invariant.                                                *)

Table(c) == walk[c].table

\* The rows of a table, those included that are not committed yet.
Inserted(t) == rows[t] \cup UNION {tx[w].rows : w \in {v \in Writers : tx[v].table = t}}

\* No id is drawn twice, so that either order of rows is a total one.
IdsUnique ==
  \A t \in Tables : \A r, s \in Inserted(t) :
    r.id < nextId[t] /\ (r.id = s.id => r = s)

\* Only a transaction that is open has rows of its own.
Written == \A w \in Writers : /\ IsFiniteSet(tx[w].rows)
                              /\ tx[w].step # "begun" => tx[w].rows = {}

RowsInv == IdsUnique /\ Written /\ \A t \in Tables : IsFiniteSet(rows[t])

\* A client that has not seen anything has not gone on.
Fresh(c) == /\ status[c] = "idle" => seen[c] = {} /\ ~repeated[c]
            /\ status[c] = "walking" /\ seen[c] = {} => page[c] = walk[c].first

\* What the histories say of the table.
Kept(c) == status[c] # "idle" =>
             /\ IsFiniteSet(start[c])
             /\ ~grown[c] => rows[Table(c)] \subseteq start[c]
             /\ ~shrunk[c] => start[c] \subseteq rows[Table(c)]

\* The offset of the page a client asks for next.
NextOffset(c) == Offset(page[c], walk[c].size)

\* What a walking client has seen is in front of the page it asks for next ...
Behind(c) == status[c] = "walking" /\ ~grown[c] /\ NextOffset(c) >= 0 =>
  \A r \in seen[c] \cap rows[Table(c)] : Rank(Table(c), r) < NextOffset(c)

\* ... and what it has yet to see is not.
Ahead(c) == status[c] = "walking" /\ ~shrunk[c] /\ walk[c].first = 1 /\ NextOffset(c) >= 0 =>
  \A r \in start[c] \ seen[c] : Rank(Table(c), r) >= NextOffset(c)

\* The properties, of one client.
Complete(c) ==
  (status[c] = "OK" /\ walk[c].first = 1 /\ ~shrunk[c]) => start[c] \subseteq seen[c]

Once(c) == repeated[c] => grown[c]

PastTheEnd(c) ==
  LET offset == (walk[c].first - 1) * walk[c].size
  IN  (seen[c] # {} /\ offset >= Cardinality(start[c])) => offset > MaxInt \/ grown[c]

ClientInv(c) == /\ Fresh(c) /\ Kept(c) /\ Behind(c) /\ Ahead(c)
                /\ Complete(c) /\ Once(c) /\ PastTheEnd(c)

IInv == TypeOK /\ RowsInv /\ \A c \in Clients : ClientInv(c)

-----------------------------------------------------------------------------
(* Integers that wrap around.                                              *)

LEMMA ModDef ==
  ASSUME NEW m \in Nat \ {0}, NEW a \in Int
  PROVE  a % m \in 0..(m - 1) /\ \E q \in Int : a = (m * q) + (a % m)
<1>1. a % m \in 0..(m - 1) OBVIOUS
<1>2. \E q \in Int : a = (m * q) + (a % m)
  <2>1. a = (m * (a \div m)) + (a % m) OBVIOUS
  <2>2. (a \div m) \in Int OBVIOUS
  <2> QED BY <2>1, <2>2
<1> QED BY <1>1, <1>2

\* There is one remainder.
LEMMA ModUnique ==
  ASSUME NEW m \in Nat \ {0}, NEW r \in 0..(m - 1), NEW s \in 0..(m - 1), NEW q \in Int,
         r = s + (m * q)
  PROVE  r = s
<1>1. CASE q = 0 BY <1>1
<1>2. CASE q >= 1
  <2>1. m * q >= m BY <1>2
  <2> QED BY <2>1
<1>3. CASE q <= -1
  <2>1. m * q <= -m BY <1>3
  <2> QED BY <2>1
<1> QED BY <1>1, <1>2, <1>3

\* The remainder of a sum is that of the remainder of one summand, and the other.
LEMMA ModAdd ==
  ASSUME NEW m \in Nat \ {0}, NEW a \in Int, NEW b \in Int
  PROVE  (a + b) % m = ((a % m) + b) % m
<1>1. PICK q \in Int : a = (m * q) + (a % m) BY ModDef
<1>2. PICK z \in Int : z = a % m BY ModDef
<1>3. PICK k \in Int : a + b = (m * k) + ((a + b) % m)
  <2>1. a + b \in Int OBVIOUS
  <2> QED BY <2>1, ModDef
<1>4. PICK j \in Int : z + b = (m * j) + ((z + b) % m)
  <2>1. z + b \in Int OBVIOUS
  <2> QED BY <2>1, ModDef
<1>5. PICK x \in 0..(m - 1), y \in 0..(m - 1) : x = (a + b) % m /\ y = (z + b) % m
  <2>1. a + b \in Int /\ z + b \in Int OBVIOUS
  <2> QED BY <2>1, ModDef
<1>6. x = y + (m * ((q + j) - k))
  <2>1. a = (m * q) + z /\ a + b = (m * k) + x /\ z + b = (m * j) + y
    BY <1>1, <1>2, <1>3, <1>4, <1>5
  <2>2. m * ((q + j) - k) = ((m * q) + (m * j)) - (m * k) OBVIOUS
  <2>3. m * q \in Int /\ m * j \in Int /\ m * k \in Int OBVIOUS
  <2> QED BY ONLY <2>1, <2>2, <2>3, z \in Int, x \in 0..(m - 1), y \in 0..(m - 1),
                  a \in Int, b \in Int, m \in Nat
<1> QED BY <1>2, <1>5, <1>6, ModUnique

\* Wrap leaves alone what fits.
LEMMA WrapFits ==
  ASSUME NEW n \in Int
  PROVE  /\ Wrap(n) \in MinInt..MaxInt
         /\ n \in MinInt..MaxInt => Wrap(n) = n
<1> DEFINE m == MaxInt - MinInt + 1
           a == n - MinInt
<1>1. m \in Nat \ {0} /\ a \in Int /\ MinInt \in Int /\ MaxInt \in Int
      /\ m = MaxInt - MinInt + 1 /\ a = n - MinInt
  BY PagingAssumption DEF MinInt
<1>2. Wrap(n) = (a % m) + MinInt BY DEF Wrap
<1> HIDE DEF m, a
<1>3. a % m \in 0..(m - 1) BY <1>1, ModDef
<1>4. a \in 0..(m - 1) => a % m = a BY <1>1
<1> QED BY <1>1, <1>2, <1>3, <1>4

\* A number that is wrapped to one of zero or more, and grows by no more than
\* the largest integer, is wrapped to that much more, or to less than zero.
LEMMA WrapNext ==
  ASSUME NEW n \in Int, NEW k \in 0..MaxInt, Wrap(n) >= 0, Wrap(n + k) >= 0
  PROVE  Wrap(n + k) = Wrap(n) + k
<1> DEFINE m == MaxInt - MinInt + 1
           a == n - MinInt
<1>1. /\ m \in Nat \ {0} /\ a \in Int /\ MinInt \in Int /\ MaxInt \in Nat \ {0}
      /\ m = MaxInt - MinInt + 1 /\ a = n - MinInt /\ MinInt = -MaxInt - 1
      /\ (n + k) - MinInt = a + k
  BY PagingAssumption DEF MinInt
<1>2. Wrap(n) = (a % m) + MinInt /\ Wrap(n + k) = ((a + k) % m) + MinInt
  BY <1>1 DEF Wrap
<1> HIDE DEF m, a
<1>3. PICK x \in 0..(m - 1) : x = a % m BY <1>1, ModDef
<1>4. PICK y \in 0..(m - 1) : y = (x + k) % m
  <2>1. x + k \in Int BY <1>1
  <2> QED BY <1>1, <2>1, ModDef
<1>5. (a + k) % m = y
  <2>1. k \in Int BY <1>1
  <2> QED BY <1>1, <1>3, <1>4, <2>1, ModAdd
<1>6. CASE x + k <= m - 1
  <2>1. x + k \in 0..(m - 1) BY <1>1, <1>6
  <2>2. y = x + k BY <1>1, <1>4, <2>1
  <2> QED BY <1>1, <1>2, <1>3, <1>5, <2>2
<1>7. CASE x + k > m - 1
  <2>1. (x + k) - m \in 0..(m - 1) BY <1>1, <1>7
  <2>2. PICK q \in Int : x + k = (m * q) + y
    <3>1. x + k \in Int BY <1>1
    <3> QED BY <1>1, <1>4, <3>1, ModDef
  <2>3. (x + k) - m = y + (m * (q - 1))
    <3>1. m * (q - 1) = (m * q) - m BY <1>1
    <3>2. m * q \in Int BY <1>1
    <3> QED BY <1>1, <2>2, <3>1, <3>2
  <2>4. q - 1 \in Int OBVIOUS
  <2>5. y = (x + k) - m BY <1>1, <2>1, <2>3, <2>4, ModUnique
  <2> QED BY <1>1, <1>2, <1>3, <1>5, <2>5
<1> QED BY <1>1, <1>6, <1>7

\* The offset of the page after a page is behind that page, if it is not less
\* than zero.
LEMMA OffsetNext ==
  ASSUME NEW p \in Int, NEW size \in 1..MaxInt, Offset(p, size) >= 0,
         Offset(p + 1, size) >= 0
  PROVE  Offset(p + 1, size) = Offset(p, size) + size
<1>1. size \in Int /\ size \in 0..MaxInt BY PagingAssumption
<1>2. PICK n \in Int : n = (p - 1) * size
  <2>1. (p - 1) * size \in Int BY <1>1
  <2> QED BY <2>1
<1>3. ((p + 1) - 1) * size = n + size
  <2>1. (p + 1) - 1 = (p - 1) + 1 OBVIOUS
  <2>2. ((p - 1) + 1) * size = ((p - 1) * size) + size BY <1>1
  <2> QED BY <1>2, <2>1, <2>2
<1>4. Offset(p, size) = Wrap(n) /\ Offset(p + 1, size) = Wrap(n + size)
  BY <1>2, <1>3 DEF Offset
<1> QED BY <1>1, <1>4, WrapNext

-----------------------------------------------------------------------------
(* The orders of the rows, and the pages they are cut into.                *)

\* Rows of a table have one id each, a number.
LEMMA RowsOf ==
  ASSUME TypeOK, RowsInv, NEW t \in Tables
  PROVE  /\ IsFiniteSet(rows[t]) /\ rows[t] \subseteq Row
         /\ \A r \in Row : r.id \in Int /\ r.at \in Int
         /\ \A r, s \in rows[t] : r.id = s.id => r = s
BY DEF TypeOK, RowsInv, IdsUnique, Inserted, Row

\* Both orders are total.
LEMMA BeforeTotal ==
  ASSUME TypeOK, RowsInv, NEW t \in Tables, NEW r \in rows[t], NEW s \in rows[t]
  PROVE  /\ ~Before(t, r, r)
         /\ r # s => Before(t, r, s) \/ Before(t, s, r)
         /\ \A x \in rows[t] : Before(t, r, s) /\ Before(t, x, r) => Before(t, x, s)
BY RowsOf DEF Before

\* A rank is a number less than that of the rows.
LEMMA RankType ==
  ASSUME TypeOK, RowsInv, NEW t \in Tables
  PROVE  /\ Cardinality(rows[t]) \in Nat
         /\ \A r : Rank(t, r) \in Nat
         /\ \A r \in rows[t] : Rank(t, r) < Cardinality(rows[t])
<1>1. IsFiniteSet(rows[t]) BY RowsOf
<1>2. Cardinality(rows[t]) \in Nat BY <1>1, FS_CardinalityType
<1>3. ASSUME NEW r
      PROVE  Rank(t, r) \in Nat /\ (r \in rows[t] => Rank(t, r) < Cardinality(rows[t]))
  <2> DEFINE front == {s \in rows[t] : Before(t, s, r)}
  <2>1. /\ IsFiniteSet(front) /\ Cardinality(front) <= Cardinality(rows[t])
        /\ Cardinality(rows[t]) = Cardinality(front) => rows[t] = front
    BY <1>1, FS_Subset
  <2>2. Cardinality(front) \in Nat BY <2>1, FS_CardinalityType
  <2>3. r \in rows[t] => r \notin front BY BeforeTotal
  <2>4. Rank(t, r) = Cardinality(front) BY DEF Rank
  <2> HIDE DEF front
  <2> QED BY <1>2, <2>1, <2>2, <2>3, <2>4
<1> QED BY <1>2, <1>3

\* Rows are ranked in their order.
LEMMA RankOrder ==
  ASSUME TypeOK, RowsInv, NEW t \in Tables, NEW r \in rows[t], NEW s \in rows[t],
         Before(t, r, s)
  PROVE  Rank(t, r) < Rank(t, s)
<1> DEFINE A == {x \in rows[t] : Before(t, x, r)}
           B == {x \in rows[t] : Before(t, x, s)}
<1>1. A \in SUBSET B BY BeforeTotal
<1>2. r \in B /\ r \notin A BY BeforeTotal
<1>3. IsFiniteSet(B) BY RowsOf, FS_Subset
<1>4. Rank(t, r) = Cardinality(A) /\ Rank(t, s) = Cardinality(B) BY DEF Rank
<1> HIDE DEF A, B
<1>5. Cardinality(A) <= Cardinality(B) /\ Cardinality(B) # Cardinality(A)
  BY <1>1, <1>2, <1>3, FS_Subset
<1>6. Rank(t, r) \in Nat /\ Rank(t, s) \in Nat BY RankType
<1> QED BY <1>4, <1>5, <1>6

LEMMA RankUnique ==
  ASSUME TypeOK, RowsInv, NEW t \in Tables, NEW r \in rows[t], NEW s \in rows[t],
         Rank(t, r) = Rank(t, s)
  PROVE  r = s
<1>1. Rank(t, r) \in Nat /\ Rank(t, s) \in Nat BY RankType
<1>2. ~Before(t, r, s) BY <1>1, RankOrder
<1>3. ~Before(t, s, r) BY <1>1, RankOrder
<1> QED BY <1>2, <1>3, BeforeTotal

\* Every rank up to the number of rows is one of a row.
LEMMA RankOnto ==
  ASSUME TypeOK, RowsInv, NEW t \in Tables, NEW k \in Nat, k < Cardinality(rows[t])
  PROVE  \E r \in rows[t] : Rank(t, r) = k
<1> DEFINE S == rows[t]
           n == Cardinality(S)
           T == 0..(n - 1)
           f == [r \in S |-> Rank(t, r)]
<1>1. n \in Nat /\ \A r \in S : Rank(t, r) \in Nat /\ Rank(t, r) < n
  BY RankType
<1>2. f \in Injection(S, T)
  <2>1. f \in [S -> T] BY <1>1
  <2>2. \A r, s \in S : f[r] = f[s] => r = s BY RankUnique
  <2> QED BY <2>1, <2>2 DEF Injection, IsInjective
<1>3. IsFiniteSet(T) /\ Cardinality(T) = n
  <2>1. n - 1 \in Int /\ 0 \in Int BY <1>1
  <2>2. IsFiniteSet(T) /\ Cardinality(T) = IF 0 > n - 1 THEN 0 ELSE (n - 1) - 0 + 1
    BY <2>1, FS_Interval
  <2> QED BY <1>1, <2>2
<1> HIDE DEF f
<1>4. f \in Surjection(S, T)
  <2> HIDE DEF T
  <2> QED BY <1>2, <1>3, FS_Injection
<1>5. PICK r \in S : f[r] = k
  BY <1>1, <1>4 DEF Surjection
<1> QED BY <1>5 DEF f

\* A page with rows behind it is full.
LEMMA PageFull ==
  ASSUME TypeOK, RowsInv, NEW t \in Tables, NEW limit \in Nat, NEW offset \in Nat,
         NEW s \in rows[t], Rank(t, s) >= offset + limit
  PROVE  Cardinality(Page(t, limit, offset)) = limit
<1> DEFINE P == Page(t, limit, offset)
           T == offset..(offset + limit - 1)
           f == [r \in P |-> Rank(t, r)]
<1>1. /\ P \subseteq rows[t]
      /\ \A r \in rows[t] : r \in P <=> offset <= Rank(t, r) /\ Rank(t, r) < offset + limit
  BY DEF Page
<1>2. \A r \in rows[t] : Rank(t, r) \in Nat /\ (r \in P <=> Rank(t, r) \in T)
  BY <1>1, RankType
<1>3. IsFiniteSet(P) BY <1>1, RowsOf, FS_Subset
<1>4. f \in Injection(P, T)
  <2>1. f \in [P -> T] BY <1>1, <1>2
  <2>2. \A r, q \in P : f[r] = f[q] => r = q BY <1>1, RankUnique
  <2> QED BY <2>1, <2>2 DEF Injection, IsInjective
<1>5. \A k \in T : \E r \in P : f[r] = k
  <2> TAKE k \in T
  <2>1. k \in Nat /\ k < Cardinality(rows[t])
    <3>1. Rank(t, s) \in Nat /\ Rank(t, s) < Cardinality(rows[t]) BY RankType
    <3>2. Cardinality(rows[t]) \in Nat BY RankType
    <3> QED BY <3>1, <3>2
  <2>2. PICK r \in rows[t] : Rank(t, r) = k BY <2>1, RankOnto
  <2> QED BY <1>2, <2>2
<1>6. f \in Surjection(P, T)
  BY <1>4, <1>5 DEF Surjection, Injection
<1>7. Cardinality(T) = limit
  <2>1. offset \in Int /\ offset + limit - 1 \in Int OBVIOUS
  <2>2. Cardinality(T) = IF offset > offset + limit - 1 THEN 0
                         ELSE (offset + limit - 1) - offset + 1
    BY <2>1, FS_Interval
  <2> QED BY <2>2
<1> HIDE DEF P, T, f
<1>8. Cardinality(T) = Cardinality(P)
  BY <1>3, <1>4, <1>6, FS_Surjection
<1> QED BY <1>7, <1>8 DEF P

\* Rows that go leave the others with no larger a rank; rows that come, with no
\* smaller one.
LEMMA RankMonotone ==
  ASSUME NEW t, NEW r, IsFiniteSet(rows[t]), IsFiniteSet(rows'[t])
  PROVE  /\ rows'[t] \subseteq rows[t] => Rank(t, r)' <= Rank(t, r)
         /\ rows[t] \subseteq rows'[t] => Rank(t, r) <= Rank(t, r)'
         /\ Rank(t, r) \in Nat /\ Rank(t, r)' \in Nat
<1> DEFINE A == {s \in rows[t] : Before(t, s, r)}
           B == {s \in rows'[t] : Before(t, s, r)}
<1>1. IsFiniteSet(A) /\ IsFiniteSet(B) BY FS_Subset
<1>2. Rank(t, r) = Cardinality(A) /\ Rank(t, r)' = Cardinality(B)
  BY DEF Rank, Before
<1>3. /\ rows'[t] \subseteq rows[t] => B \in SUBSET A
      /\ rows[t] \subseteq rows'[t] => A \in SUBSET B
  OBVIOUS
<1> HIDE DEF A, B
<1> QED BY <1>1, <1>2, <1>3, FS_Subset, FS_CardinalityType

-----------------------------------------------------------------------------
(* The initial states.                                                     *)

\* The rows there are when the clients start.
LEMMA InitRowsCount ==
  ASSUME NEW n \in Nat
  PROVE  IsFiniteSet(InitRows(n)) /\ Cardinality(InitRows(n)) = n
<1> DEFINE S == 1..n
           T == InitRows(n)
           f == [i \in S |-> [id |-> i, at |-> 0]]
<1>1. IsFiniteSet(S) /\ Cardinality(S) = n
  <2>1. 1 \in Int /\ n \in Int OBVIOUS
  <2>2. IsFiniteSet(S) /\ Cardinality(S) = IF 1 > n THEN 0 ELSE n - 1 + 1
    BY <2>1, FS_Interval
  <2> QED BY <2>2
<1>2. f \in [S -> T] /\ \A i, j \in S : f[i] = f[j] => i = j
  <2>1. f \in [S -> T] BY DEF InitRows
  <2>2. ASSUME NEW i \in S, NEW j \in S, f[i] = f[j] PROVE i = j
    <3>1. f[i].id = i /\ f[j].id = j OBVIOUS
    <3> QED BY <2>2, <3>1
  <2> QED BY <2>1, <2>2
<1>3. \A r \in T : \E i \in S : f[i] = r
  BY DEF InitRows
<1> HIDE DEF f, T
<1>4. f \in Surjection(S, T) /\ f \in Injection(S, T)
  BY <1>2, <1>3 DEF Surjection, Injection, IsInjective
<1>5. IsFiniteSet(T) /\ Cardinality(T) = Cardinality(S)
  <2> HIDE DEF S
  <2> QED BY <1>1, <1>4, FS_Surjection
<1> QED BY <1>1, <1>5 DEF T

LEMMA InitInv == Init => IInv
<1> SUFFICES ASSUME Init PROVE IInv OBVIOUS
<1> DEFINE size(t) == IF t = "accounts" THEN InitAccounts ELSE InitEntries
<1>1. \A t \in Tables : /\ size(t) \in Nat /\ rows[t] = InitRows(size(t))
                        /\ IsFiniteSet(rows[t]) /\ nextId[t] = size(t) + 1
  BY InitRowsCount, PagingAssumption DEF Init
<1> HIDE DEF size
<1>2. \A t \in Tables : \A r \in rows[t] :
         r \in Row /\ r.id < nextId[t] /\ r = [id |-> r.id, at |-> 0]
  <2> TAKE t \in Tables
  <2> TAKE r \in rows[t]
  <2>1. PICK i \in 1..size(t) : r = [id |-> i, at |-> 0] BY <1>1 DEF InitRows
  <2> QED BY <1>1, <2>1 DEF Row
<1>3. MinInt \in Int /\ MaxInt \in Nat \ {0} /\ 0 \in MinInt..MaxInt
  BY PagingAssumption DEF MinInt
<1>4. TypeOK
  <2>1. rows \in [Tables -> SUBSET Row] /\ nextId \in [Tables -> Nat]
    BY <1>1, <1>2 DEF Init
  <2>2. now \in 1..MaxTime /\ Idle \in [step : {"idle", "begun", "ended"},
               table : Tables, at : 0..MaxTime, rows : SUBSET Row]
    BY PagingAssumption DEF Init, Idle, Tables
  <2> QED BY <1>2, <1>3, <2>1, <2>2 DEF Init, TypeOK
<1>5. RowsInv
  <2>1. \A w \in Writers : tx[w].rows = {} /\ tx[w].step = "idle"
    BY DEF Init, Idle
  <2>2. \A t \in Tables : Inserted(t) = rows[t]
    BY <2>1 DEF Inserted
  <2>3. Written BY <2>1, FS_EmptySet DEF Written
  <2>4. IdsUnique
    <3> SUFFICES ASSUME NEW t \in Tables, NEW r \in rows[t], NEW s \in rows[t], r.id = s.id
                 PROVE  r = s
      BY <1>2, <2>2 DEF IdsUnique
    <3> QED BY <1>2
  <2> QED BY <1>1, <2>3, <2>4 DEF RowsInv
<1>6. ASSUME NEW c \in Clients PROVE ClientInv(c)
  BY DEF Init, ClientInv, Fresh, Kept, Behind, Ahead, Complete, Once, PastTheEnd
<1> QED BY <1>4, <1>5, <1>6 DEF IInv

-----------------------------------------------------------------------------
(* The steps of the writers.                                               *)

\* Nothing is drawn from the sequences, and no row appears.
LEMMA IdsKept ==
  ASSUME TypeOK, RowsInv, nextId' = nextId,
         \A t \in Tables : Inserted(t)' \subseteq Inserted(t)
  PROVE  IdsUnique'
BY DEF RowsInv, IdsUnique

\* A client notices nothing as long as the tables remain the same.
LEMMA ClientsKept ==
  ASSUME IInv, UNCHANGED <<rows, clientVars, shrunk, grown>>, NEW c \in Clients
  PROVE  ClientInv(c)'
<1>1. ClientInv(c) BY DEF IInv
<1>2. PICK t, o : t = Table(c) /\ o = NextOffset(c) OBVIOUS
<1>3. Table(c)' = t /\ NextOffset(c)' = o
  BY <1>2 DEF Table, NextOffset, clientVars, Offset, Wrap
<1>4. \A r : Rank(t, r)' = Rank(t, r)
  BY DEF Rank, Before
<1>5. /\ walk' = walk /\ page' = page /\ status' = status /\ seen' = seen
      /\ repeated' = repeated /\ start' = start /\ rows' = rows
      /\ shrunk' = shrunk /\ grown' = grown
  BY DEF clientVars
<1> QED BY <1>1, <1>2, <1>3, <1>4, <1>5
    DEF ClientInv, Fresh, Kept, Behind, Ahead, Complete, Once, PastTheEnd

\* The other transactions are left alone.
TxAlone(w) == \A v \in Writers \ {w} : tx'[v] = tx[v]

LEMMA BeginTxStep ==
  ASSUME IInv, NEW w \in Writers, NEW t \in Tables, BeginTx(w, t)
  PROVE  IInv'
<1>1. /\ UNCHANGED <<rows, nextId, now, clientVars, shrunk, grown>>
      /\ tx' = [tx EXCEPT ![w] = [step |-> "begun", table |-> t, at |-> now, rows |-> {}]]
      /\ tx'[w] = [step |-> "begun", table |-> t, at |-> now, rows |-> {}] /\ TxAlone(w)
  BY DEF BeginTx, TxAlone, IInv, TypeOK
<1>2. TypeOK'
  BY <1>1, PagingAssumption DEF IInv, TypeOK, clientVars
<1>3. RowsInv'
  <2>1. Written' BY <1>1, FS_EmptySet DEF IInv, RowsInv, Written, TxAlone
  <2>2. \A u \in Tables : Inserted(u)' \subseteq Inserted(u)
    BY <1>1 DEF Inserted, TxAlone
  <2> QED BY <1>1, <2>1, <2>2, IdsKept DEF IInv, RowsInv
<1> QED BY <1>1, <1>2, <1>3, ClientsKept DEF IInv

LEMMA InsertStep ==
  ASSUME IInv, NEW w \in Writers, Insert(w)
  PROVE  IInv'
<1>1. PICK t \in Tables, n \in Nat, row \in Row :
        t = tx[w].table /\ n = nextId[t] /\ row = [id |-> n, at |-> tx[w].at]
  <2>1. tx[w].table \in Tables /\ tx[w].at \in Nat
    BY PagingAssumption DEF IInv, TypeOK
  <2>2. nextId[tx[w].table] \in Nat
    BY <2>1 DEF IInv, TypeOK
  <2>3. [id |-> nextId[tx[w].table], at |-> tx[w].at] \in Row
    BY <2>1, <2>2 DEF Row
  <2> QED BY <2>1, <2>2, <2>3
<1>2. /\ UNCHANGED <<rows, now, clientVars, shrunk, grown>>
      /\ tx' = [tx EXCEPT ![w].rows = @ \cup {row}]
      /\ nextId' = [nextId EXCEPT ![t] = @ + 1]
      /\ tx[w].step = "begun"
  BY <1>1 DEF Insert
<1>3. /\ tx'[w].step = "begun" /\ tx'[w].table = t
      /\ tx'[w].rows = tx[w].rows \cup {row} /\ tx'[w].at = tx[w].at /\ TxAlone(w)
  BY <1>1, <1>2 DEF TxAlone, IInv, TypeOK
<1>4. /\ nextId' \in [Tables -> Nat] /\ nextId'[t] = n + 1
      /\ \A u \in Tables \ {t} : nextId'[u] = nextId[u]
  BY <1>1, <1>2 DEF IInv, TypeOK
<1>5. TypeOK'
  <2>1. tx' \in [Writers -> [step : {"idle", "begun", "ended"}, table : Tables,
                             at : 0..MaxTime, rows : SUBSET Row]]
    BY <1>1, <1>2 DEF IInv, TypeOK
  <2>2. \A u \in Tables : \A r \in rows'[u] : r.id < nextId'[u]
    BY <1>1, <1>2, <1>4 DEF IInv, TypeOK, Row
  <2> QED BY <1>2, <1>4, <2>1, <2>2 DEF IInv, TypeOK, clientVars
<1>6. RowsInv'
  <2>1. Written' BY <1>2, <1>3, FS_AddElement DEF IInv, RowsInv, Written, TxAlone
  <2>2. /\ \A u \in Tables \ {t} : Inserted(u)' = Inserted(u)
        /\ Inserted(t)' = Inserted(t) \cup {row}
    BY <1>1, <1>2, <1>3 DEF Inserted, TxAlone
  <2>3. \A r \in Inserted(t) : r.id < n
    BY <1>1 DEF IInv, RowsInv, IdsUnique
  <2>4. \A r \in Inserted(t) : r.id \in Nat
    BY <1>1 DEF Inserted, IInv, TypeOK, Row
  <2>5. IdsUnique'
    <3> SUFFICES ASSUME NEW u \in Tables, NEW r \in Inserted(u)', NEW s \in Inserted(u)'
                 PROVE  r.id < nextId'[u] /\ (r.id = s.id => r = s)
      BY DEF IdsUnique
    <3>1. CASE u # t BY <1>4, <2>2, <3>1 DEF IInv, RowsInv, IdsUnique
    <3>2. CASE u = t
      <4>1. row.id = n BY <1>1
      <4>2. \A x \in Inserted(t) : \A y \in Inserted(t) : x.id = y.id => x = y
        BY <1>1 DEF IInv, RowsInv, IdsUnique
      <4> QED BY <1>4, <2>2, <2>3, <2>4, <3>2, <4>1, <4>2
    <3> QED BY <3>1, <3>2
  <2> QED BY <1>2, <2>1, <2>5 DEF IInv, RowsInv
<1> QED BY <1>2, <1>5, <1>6, ClientsKept DEF IInv

LEMMA RollbackStep ==
  ASSUME IInv, NEW w \in Writers, Rollback(w)
  PROVE  IInv'
<1>1. /\ UNCHANGED <<rows, nextId, now, clientVars, shrunk, grown>>
      /\ tx' = [tx EXCEPT ![w].step = "ended", ![w].rows = {}]
  BY DEF Rollback
<1>2. /\ tx' \in [Writers -> [step : {"idle", "begun", "ended"}, table : Tables,
                              at : 0..MaxTime, rows : SUBSET Row]]
      /\ tx'[w].rows = {} /\ tx'[w].table = tx[w].table /\ TxAlone(w)
  BY <1>1 DEF TxAlone, IInv, TypeOK
<1>3. TypeOK'
  BY <1>1, <1>2 DEF IInv, TypeOK, clientVars
<1>4. RowsInv'
  <2>1. Written' BY <1>1, <1>2, FS_EmptySet DEF IInv, RowsInv, Written, TxAlone
  <2>2. \A u \in Tables : Inserted(u)' \subseteq Inserted(u)
    BY <1>1, <1>2 DEF Inserted, TxAlone
  <2> QED BY <1>1, <2>1, <2>2, IdsKept DEF IInv, RowsInv
<1> QED BY <1>1, <1>3, <1>4, ClientsKept DEF IInv

\* What a client knows survives the rows that come, and those that go, as long
\* as it is told of them.
LEMMA RowsChange ==
  ASSUME IInv, NEW t \in Tables, UNCHANGED clientVars,
         \A u \in Tables : IsFiniteSet(rows'[u]) /\ (u # t => rows'[u] = rows[u]),
         \/ /\ rows[t] \subseteq rows'[t] /\ shrunk' = shrunk
            /\ grown' = [c \in Clients |-> grown[c] \/ Table(c) = t]
         \/ /\ rows'[t] \subseteq rows[t] /\ grown' = grown
            /\ shrunk' = [c \in Clients |-> shrunk[c] \/ Table(c) = t],
         NEW c \in Clients
  PROVE  ClientInv(c)'
<1>1. ClientInv(c) /\ (grown[c] => grown'[c]) /\ (shrunk[c] => shrunk'[c])
  BY DEF IInv
<1>2. /\ walk' = walk /\ page' = page /\ status' = status /\ seen' = seen
      /\ repeated' = repeated /\ start' = start
  BY DEF clientVars
<1>3. PICK o : o = NextOffset(c) OBVIOUS
<1>4. PICK u \in Tables : u = Table(c)
  BY PagingAssumption DEF IInv, TypeOK, Table, Walk
<1>5. NextOffset(c)' = o /\ Table(c)' = u
  BY <1>2, <1>3, <1>4 DEF NextOffset, Table, Offset, Wrap
<1>6. IsFiniteSet(rows[u]) /\ IsFiniteSet(rows'[u])
  BY DEF IInv, RowsInv
<1>7. Fresh(c)' /\ Complete(c)' /\ Once(c)' /\ PastTheEnd(c)'
  BY <1>1, <1>2 DEF ClientInv, Fresh, Complete, Once, PastTheEnd
<1>8. /\ ~grown'[c] => ~grown[c] /\ rows'[u] \subseteq rows[u]
      /\ ~shrunk'[c] => ~shrunk[c] /\ rows[u] \subseteq rows'[u]
  BY <1>4
<1>9. Kept(c)'
  BY <1>1, <1>2, <1>4, <1>5, <1>8 DEF ClientInv, Kept
<1>10. o \in Int
  <2>1. page[c] \in Int /\ walk[c].size \in Int
    BY PagingAssumption DEF IInv, TypeOK, Walk, MinInt
  <2>2. (page[c] - 1) * walk[c].size \in Int BY <2>1
  <2>3. Wrap((page[c] - 1) * walk[c].size) \in MinInt..MaxInt BY <2>2, WrapFits
  <2> QED BY <1>3, <2>3, PagingAssumption DEF NextOffset, Offset, MinInt
<1>11. Behind(c)'
  <2> SUFFICES ASSUME status[c] = "walking", ~grown'[c], o >= 0,
                      NEW r \in seen[c] \cap rows'[u]
               PROVE  Rank(u, r)' < o
    BY <1>2, <1>5 DEF Behind
  <2>1. r \in rows[u] /\ Rank(u, r) < o
    BY <1>1, <1>3, <1>4, <1>8 DEF ClientInv, Behind
  <2>2. Rank(u, r)' <= Rank(u, r) /\ Rank(u, r) \in Nat /\ Rank(u, r)' \in Nat
    BY <1>6, <1>8, RankMonotone
  <2> QED BY <1>10, <2>1, <2>2
<1>12. Ahead(c)'
  <2> SUFFICES ASSUME status[c] = "walking", ~shrunk'[c], walk[c].first = 1, o >= 0,
                      NEW r \in start[c] \ seen[c]
               PROVE  Rank(u, r)' >= o
    BY <1>2, <1>5 DEF Ahead
  <2>1. Rank(u, r) >= o
    BY <1>1, <1>3, <1>4, <1>8 DEF ClientInv, Ahead
  <2>2. Rank(u, r) <= Rank(u, r)' /\ Rank(u, r) \in Nat /\ Rank(u, r)' \in Nat
    BY <1>6, <1>8, RankMonotone
  <2> QED BY <1>10, <2>1, <2>2
<1> QED BY <1>7, <1>9, <1>11, <1>12 DEF ClientInv

LEMMA CommitTxStep ==
  ASSUME IInv, NEW w \in Writers, Commit(w)
  PROVE  IInv'
<1>1. PICK t \in Tables : t = tx[w].table
  BY DEF IInv, TypeOK
<1>2. /\ rows' = [rows EXCEPT ![t] = @ \cup tx[w].rows]
      /\ tx' = [tx EXCEPT ![w].step = "ended", ![w].rows = {}]
      /\ grown' = [c \in Clients |-> grown[c] \/ Table(c) = t]
      /\ UNCHANGED <<nextId, now, clientVars, shrunk>>
  BY <1>1 DEF Commit, Mark, Table
<1>3. /\ tx' \in [Writers -> [step : {"idle", "begun", "ended"}, table : Tables,
                              at : 0..MaxTime, rows : SUBSET Row]]
      /\ tx'[w].rows = {} /\ tx'[w].table = t /\ TxAlone(w)
  BY <1>1, <1>2 DEF TxAlone, IInv, TypeOK
<1>4. /\ rows' \in [Tables -> SUBSET Row]
      /\ rows'[t] = rows[t] \cup tx[w].rows
      /\ \A u \in Tables \ {t} : rows'[u] = rows[u]
  BY <1>1, <1>2 DEF IInv, TypeOK
<1>5. tx[w].rows \subseteq Inserted(t)
  BY <1>1 DEF Inserted
<1>6. TypeOK'
  <2>1. \A u \in Tables : \A r \in rows'[u] : r.id < nextId'[u]
    BY <1>2, <1>4, <1>5 DEF IInv, TypeOK, RowsInv, IdsUnique
  <2>2. grown' \in [Clients -> BOOLEAN]
    BY <1>2 DEF IInv, TypeOK
  <2> QED BY <1>2, <1>3, <1>4, <2>1, <2>2 DEF IInv, TypeOK, clientVars
<1>7. \A u \in Tables : IsFiniteSet(rows'[u])
  <2>1. IsFiniteSet(rows[t]) /\ IsFiniteSet(tx[w].rows)
    BY DEF IInv, RowsInv, Written
  <2>2. IsFiniteSet(rows[t] \cup tx[w].rows)
    BY <2>1, FS_Union
  <2> QED BY <1>4, <2>2 DEF IInv, RowsInv
<1>8. RowsInv'
  <2>1. Written' BY <1>3, FS_EmptySet DEF IInv, RowsInv, Written, TxAlone
  <2>2. ASSUME NEW u \in Tables PROVE Inserted(u)' \subseteq Inserted(u)
    <3>1. rows'[u] \subseteq Inserted(u)
      BY <1>4, <1>5 DEF Inserted
    <3>2. ASSUME NEW v \in Writers, tx'[v].table = u
          PROVE  tx'[v].rows \subseteq Inserted(u)
      BY <1>3, <3>2 DEF Inserted, TxAlone
    <3> QED BY <3>1, <3>2 DEF Inserted
  <2> QED BY <1>2, <1>7, <2>1, <2>2, IdsKept DEF IInv, RowsInv
<1>9. ASSUME NEW c \in Clients PROVE ClientInv(c)'
  <2>1. rows[t] \subseteq rows'[t] BY <1>4
  <2> QED BY <1>2, <1>4, <1>7, <2>1, RowsChange
<1> QED BY <1>6, <1>8, <1>9 DEF IInv

LEMMA DeleteStep ==
  ASSUME IInv, NEW r \in rows["accounts"], DeleteAccount(r)
  PROVE  IInv'
<1>1. PICK t \in Tables : t = "accounts"
  BY DEF Tables
<1>2. /\ rows' = [rows EXCEPT ![t] = @ \ {r}]
      /\ shrunk' = [c \in Clients |-> shrunk[c] \/ Table(c) = t]
      /\ UNCHANGED <<nextId, now, tx, clientVars, grown>>
  BY <1>1 DEF DeleteAccount, Mark, Table
<1>3. /\ rows' \in [Tables -> SUBSET Row]
      /\ rows'[t] = rows[t] \ {r}
      /\ \A u \in Tables \ {t} : rows'[u] = rows[u]
  BY <1>2 DEF IInv, TypeOK
<1>4. TypeOK'
  <2>1. \A u \in Tables : \A s \in rows'[u] : s.id < nextId'[u]
    BY <1>2, <1>3 DEF IInv, TypeOK
  <2>2. shrunk' \in [Clients -> BOOLEAN]
    BY <1>2 DEF IInv, TypeOK
  <2> QED BY <1>2, <1>3, <2>1, <2>2 DEF IInv, TypeOK, clientVars
<1>5. \A u \in Tables : IsFiniteSet(rows'[u])
  <2>1. \A u \in Tables : IsFiniteSet(rows[u]) /\ rows'[u] \in SUBSET rows[u]
    BY <1>3 DEF IInv, RowsInv
  <2> QED BY <2>1, FS_Subset
<1>6. RowsInv'
  <2>1. Written' BY <1>2 DEF IInv, RowsInv, Written
  <2>2. \A u \in Tables : Inserted(u)' \subseteq Inserted(u)
    BY <1>2, <1>3 DEF Inserted
  <2> QED BY <1>2, <1>5, <2>1, <2>2, IdsKept DEF IInv, RowsInv
<1>7. ASSUME NEW c \in Clients PROVE ClientInv(c)'
  <2>1. rows'[t] \subseteq rows[t] BY <1>3
  <2> QED BY <1>2, <1>3, <1>5, <2>1, RowsChange
<1> QED BY <1>4, <1>6, <1>7 DEF IInv

LEMMA TickStep == ASSUME IInv, Tick PROVE IInv'
<1>1. UNCHANGED <<rows, nextId, tx, clientVars, shrunk, grown>> /\ now' \in 1..MaxTime
  BY PagingAssumption DEF Tick, IInv, TypeOK
<1>2. TypeOK' BY <1>1 DEF IInv, TypeOK, clientVars
<1>3. RowsInv' BY <1>1 DEF IInv, RowsInv, IdsUnique, Inserted, Written
<1> QED BY <1>1, <1>2, <1>3, ClientsKept DEF IInv

-----------------------------------------------------------------------------
(* The steps of the clients.                                               *)

\* A step of client c leaves the tables and the other clients alone.
ClientStep(c) ==
  /\ UNCHANGED <<rows, nextId, now, tx, walk>>
  /\ \A d \in Clients \ {c} :
       /\ page'[d] = page[d] /\ status'[d] = status[d] /\ seen'[d] = seen[d]
       /\ (repeated'[d] <=> repeated[d]) /\ start'[d] = start[d]
       /\ (shrunk'[d] <=> shrunk[d]) /\ (grown'[d] <=> grown[d])

LEMMA OneClient ==
  ASSUME IInv, NEW c \in Clients, ClientStep(c), TypeOK', ClientInv(c)'
  PROVE  IInv'
<1>1. RowsInv'
  BY DEF ClientStep, IInv, RowsInv, IdsUnique, Inserted, Written
<1>2. ASSUME NEW d \in Clients \ {c} PROVE ClientInv(d)'
  <2>1. ClientInv(d) BY DEF IInv
  <2>2. PICK t, o : t = Table(d) /\ o = NextOffset(d) OBVIOUS
  <2>3. Table(d)' = t /\ NextOffset(d)' = o
    BY <2>2 DEF ClientStep, Table, NextOffset, Offset, Wrap
  <2>4. \A r : Rank(t, r)' = Rank(t, r)
    BY DEF ClientStep, Rank, Before
  <2>5. /\ walk' = walk /\ page'[d] = page[d] /\ status'[d] = status[d]
        /\ seen'[d] = seen[d] /\ (repeated'[d] <=> repeated[d]) /\ start'[d] = start[d]
        /\ rows' = rows /\ (shrunk'[d] <=> shrunk[d]) /\ (grown'[d] <=> grown[d])
    BY DEF ClientStep
  <2>6. Fresh(d)' /\ Kept(d)' /\ Complete(d)' /\ Once(d)' /\ PastTheEnd(d)'
    BY <2>1, <2>2, <2>3, <2>5
    DEF ClientInv, Fresh, Kept, Complete, Once, PastTheEnd
  <2>7. Behind(d)' BY <2>1, <2>2, <2>3, <2>4, <2>5 DEF ClientInv, Behind
  <2>8. Ahead(d)' BY <2>1, <2>2, <2>3, <2>4, <2>5 DEF ClientInv, Ahead
  <2> QED BY <2>6, <2>7, <2>8 DEF ClientInv
<1> QED BY <1>1, <1>2 DEF IInv

\* The numbers of a walk.
LEMMA WalkType ==
  ASSUME TypeOK, NEW c \in Clients
  PROVE  /\ walk[c].table \in Tables /\ walk[c].first \in MinInt..MaxInt
         /\ walk[c].size \in Int /\ walk[c].first \in Int /\ page[c] \in Int
         /\ MaxInt \in Nat \ {0} /\ MinInt \in Int /\ MinInt = -MaxInt - 1
         /\ NextOffset(c) \in MinInt..MaxInt /\ NextOffset(c) \in Int
<1>1. MaxInt \in Nat \ {0} /\ MinInt \in Int /\ MinInt = -MaxInt - 1
  BY PagingAssumption DEF MinInt
<1>2. /\ walk[c].table \in Tables /\ walk[c].first \in MinInt..MaxInt
      /\ walk[c].size \in MinInt..MaxInt /\ page[c] \in MinInt..MaxInt
  BY PagingAssumption DEF TypeOK, Walk
<1>3. walk[c].size \in Int /\ walk[c].first \in Int /\ page[c] \in Int
  BY <1>1, <1>2
<1>4. (page[c] - 1) * walk[c].size \in Int BY <1>3
<1>5. NextOffset(c) \in MinInt..MaxInt
  BY <1>4, WrapFits DEF NextOffset, Offset
<1> QED BY <1>1, <1>2, <1>3, <1>5

LEMMA BeginStep == ASSUME IInv, NEW c \in Clients, Begin(c) PROVE IInv'
<1>1. /\ page' = [page EXCEPT ![c] = walk[c].first]
      /\ start' = [start EXCEPT ![c] = rows[walk[c].table]]
      /\ shrunk' = [shrunk EXCEPT ![c] = FALSE]
      /\ grown' = [grown EXCEPT ![c] = FALSE]
      /\ status' = [status EXCEPT ![c] = "walking"]
      /\ UNCHANGED <<rows, nextId, now, tx, walk, seen, repeated>>
      /\ status[c] = "idle"
  BY DEF Begin
<1>2. /\ page'[c] = walk[c].first /\ start'[c] = rows[walk[c].table]
      /\ ~shrunk'[c] /\ ~grown'[c] /\ status'[c] = "walking"
      /\ seen'[c] = {} /\ ~repeated'[c]
  <2>1. seen[c] = {} /\ ~repeated[c] BY <1>1 DEF IInv, ClientInv, Fresh
  <2> QED BY <1>1, <2>1 DEF IInv, TypeOK
<1>3. ClientStep(c)
  BY <1>1 DEF ClientStep, IInv, TypeOK
<1>4. TypeOK'
  BY <1>1, WalkType DEF IInv, TypeOK
<1>5. PICK t \in Tables : t = walk[c].table BY WalkType DEF IInv
<1>6. Kept(c)'
  BY <1>1, <1>2, <1>5 DEF Kept, Table, IInv, RowsInv
<1>7. Ahead(c)'
  <2> SUFFICES ASSUME walk[c].first = 1, NEW r \in rows[t]
               PROVE  Rank(t, r)' >= NextOffset(c)'
    BY <1>1, <1>2, <1>5 DEF Ahead, Table
  <2>1. NextOffset(c)' = Wrap((1 - 1) * walk[c].size)
    BY <1>1, <1>2 DEF NextOffset, Offset, Wrap
  <2>2. (1 - 1) * walk[c].size = 0 BY WalkType DEF IInv
  <2>3. Wrap(0) = 0
    <3>1. 0 \in Int /\ 0 \in MinInt..MaxInt BY WalkType DEF IInv
    <3> QED BY <3>1, WrapFits
  <2>4. Rank(t, r)' = Rank(t, r) /\ Rank(t, r) \in Nat
    BY <1>1, RankType DEF Rank, Before, IInv
  <2> QED BY <2>1, <2>2, <2>3, <2>4
<1>8. Fresh(c)' /\ Behind(c)' /\ Complete(c)' /\ Once(c)' /\ PastTheEnd(c)'
  BY <1>1, <1>2 DEF Fresh, Behind, Complete, Once, PastTheEnd
<1> QED BY <1>3, <1>4, <1>6, <1>7, <1>8, OneClient DEF ClientInv

\* A walk that ends without an answer.
LEMMA StopStep ==
  ASSUME IInv, NEW c \in Clients, status[c] = "walking",
         NEW code \in {"InvalidArgument", "Internal"}, Stop(c, code),
         UNCHANGED <<rows, nextId, now, tx, walk, start, shrunk, grown>>
  PROVE  IInv'
<1>1. /\ status' = [status EXCEPT ![c] = code] /\ UNCHANGED <<page, seen, repeated>>
      /\ status'[c] = code
  BY DEF Stop, IInv, TypeOK
<1>2. TypeOK'
  BY <1>1 DEF IInv, TypeOK
<1>3. ClientStep(c)
  BY <1>1 DEF ClientStep, IInv, TypeOK
<1>4. ClientInv(c)'
  <2>1. ClientInv(c) BY DEF IInv
  <2> QED BY <1>1, <2>1
      DEF ClientInv, Fresh, Kept, Behind, Ahead, Complete, Once, PastTheEnd, Table
<1> QED BY <1>2, <1>3, <1>4, OneClient

\* An answer: its rows are those of the ranks asked for, and if it is not full
\* there is nothing behind it.
LEMMA TakeStep ==
  ASSUME IInv, NEW c \in Clients, NEW t \in Tables, NEW size \in 1..MaxInt,
         NEW offset \in Nat, NEW answer,
         t = walk[c].table, size = walk[c].size, offset = NextOffset(c),
         answer = Page(t, size, offset), page[c] >= 1,
         status[c] = "walking", Take(c, answer),
         UNCHANGED <<rows, nextId, now, tx, walk, start, shrunk, grown>>
  PROVE  IInv'
<1>1. /\ seen' = [seen EXCEPT ![c] = @ \cup answer]
      /\ repeated' = [repeated EXCEPT ![c] = @ \/ answer \cap seen[c] # {}]
      /\ \/ /\ Cardinality(answer) = size /\ page[c] < MaxInt
            /\ page' = [page EXCEPT ![c] = @ + 1] /\ UNCHANGED status
         \/ /\ status' = [status EXCEPT ![c] =
                          IF Cardinality(answer) = size THEN "exhausted" ELSE "OK"]
            /\ UNCHANGED page
  BY DEF Take
<1>2. /\ walk[c].first \in Int /\ page[c] \in Int /\ size \in Nat \ {0} /\ size \in Int
      /\ MaxInt \in Nat \ {0} /\ MinInt \in Int /\ MinInt = -MaxInt - 1
      /\ page[c] \in MinInt..MaxInt /\ offset <= MaxInt
  BY WalkType, PagingAssumption DEF IInv, TypeOK
<1>3. /\ answer \subseteq rows[t] /\ answer \subseteq Row
      /\ \A r \in rows[t] : r \in answer <=> offset <= Rank(t, r) /\ Rank(t, r) < offset + size
  BY RowsOf DEF Page, IInv
<1>4. /\ seen'[c] = seen[c] \cup answer
      /\ repeated'[c] <=> repeated[c] \/ answer \cap seen[c] # {}
      /\ \/ /\ Cardinality(answer) = size /\ page'[c] = page[c] + 1
            /\ page[c] < MaxInt /\ status'[c] = "walking"
         \/ Cardinality(answer) = size /\ page'[c] = page[c] /\ status'[c] = "exhausted"
         \/ Cardinality(answer) # size /\ page'[c] = page[c] /\ status'[c] = "OK"
  BY <1>1 DEF IInv, TypeOK
<1>5. ClientStep(c)
  BY <1>1 DEF ClientStep, IInv, TypeOK
<1>6. TypeOK'
  <2>1. page' \in [Clients -> MinInt..MaxInt]
    BY <1>1, <1>2 DEF IInv, TypeOK
  <2>2. seen' \in [Clients -> SUBSET Row] /\ repeated' \in [Clients -> BOOLEAN]
    BY <1>1, <1>3 DEF IInv, TypeOK
  <2>3. status' \in [Clients -> {"idle", "walking", "exhausted",
                                 "OK", "InvalidArgument", "Internal"}]
    BY <1>1 DEF IInv, TypeOK
  <2> QED BY <2>1, <2>2, <2>3 DEF IInv, TypeOK
<1>7. ClientInv(c) /\ TypeOK /\ RowsInv BY DEF IInv
<1>8. /\ rows' = rows /\ start' = start /\ shrunk' = shrunk /\ grown' = grown
      /\ walk' = walk /\ Table(c) = t /\ Table(c)' = t
      /\ \A r : Rank(t, r)' = Rank(t, r)
  BY DEF Table, Rank, Before
<1>9. \A r : Rank(t, r) \in Nat
  BY <1>7, RankType
<1>10. status'[c] = "walking" /\ NextOffset(c)' >= 0 =>
         Cardinality(answer) = size /\ NextOffset(c)' = offset + size
  <2> SUFFICES ASSUME status'[c] = "walking", NextOffset(c)' >= 0
               PROVE  Cardinality(answer) = size /\ NextOffset(c)' = offset + size
    OBVIOUS
  <2>1. Cardinality(answer) = size /\ page'[c] = page[c] + 1 BY <1>4
  <2>2. NextOffset(c)' = Offset(page[c] + 1, size)
    BY <1>8, <2>1 DEF NextOffset, Offset, Wrap
  <2>3. offset = Offset(page[c], size) BY DEF NextOffset
  <2> QED BY <1>2, <2>1, <2>2, <2>3, OffsetNext
\* Some row is answered, or nothing is behind: a full page is not empty.
<1>11. Cardinality(answer) = size => answer # {}
  BY <1>2, FS_EmptySet
<1>12. Fresh(c)'
  BY <1>4, <1>11 DEF Fresh
<1>13. Kept(c)'
  BY <1>4, <1>7, <1>8 DEF ClientInv, Kept
<1>14. Behind(c)'
  <2> SUFFICES ASSUME status'[c] = "walking", ~grown[c], NextOffset(c)' >= 0,
                      NEW r \in seen'[c] \cap rows[t]
               PROVE  Rank(t, r) < NextOffset(c)'
    BY <1>8 DEF Behind
  <2>1. NextOffset(c)' = offset + size BY <1>10
  <2>2. CASE r \in answer BY <1>3, <2>1, <2>2
  <2>3. CASE r \in seen[c]
    <3>1. Rank(t, r) < offset
      BY <1>7, <1>8, <2>3 DEF ClientInv, Behind
    <3> QED BY <1>2, <1>9, <2>1, <3>1
  <2> QED BY <1>4, <2>2, <2>3
\* Of the rows that were there at the start, those not seen yet are behind.
<1>15. ASSUME ~shrunk[c], walk[c].first = 1, NEW r \in start[c] \ seen'[c]
       PROVE  r \in rows[t] /\ Rank(t, r) >= offset + size
  <2>1. r \in rows[t] /\ r \notin answer /\ r \notin seen[c]
    BY <1>4, <1>7, <1>8, <1>15 DEF ClientInv, Kept
  <2>2. Rank(t, r) >= offset
    BY <1>7, <1>8, <1>15, <2>1 DEF ClientInv, Ahead
  <2> QED BY <1>2, <1>3, <1>9, <2>1, <2>2
<1>16. Ahead(c)'
  <2> SUFFICES ASSUME status'[c] = "walking", ~shrunk[c], walk[c].first = 1,
                      NextOffset(c)' >= 0, NEW r \in start[c] \ seen'[c]
               PROVE  Rank(t, r) >= NextOffset(c)'
    BY <1>8 DEF Ahead
  <2> QED BY <1>10, <1>15
<1>17. Complete(c)'
  <2> SUFFICES ASSUME status'[c] = "OK", walk[c].first = 1, ~shrunk[c],
                      NEW r \in start[c] \ seen'[c]
               PROVE  FALSE
    BY <1>8 DEF Complete
  <2>1. Cardinality(answer) # size BY <1>4
  <2>2. r \in rows[t] /\ Rank(t, r) >= offset + size BY <1>15
  <2>3. size \in Nat BY <1>2
  <2> QED BY <1>7, <2>1, <2>2, <2>3, PageFull
<1>18. Once(c)'
  <2> SUFFICES ASSUME repeated'[c], ~grown[c] PROVE FALSE
    BY <1>8 DEF Once
  <2>1. ~repeated[c] BY <1>7 DEF ClientInv, Once
  <2>2. PICK r \in answer : r \in seen[c] BY <1>4, <2>1
  <2>3. Rank(t, r) < offset /\ offset <= Rank(t, r)
    BY <1>3, <1>7, <1>8, <2>2 DEF ClientInv, Behind
  <2> QED BY <1>9, <2>3
<1>19. PastTheEnd(c)'
  <2> DEFINE first == (walk[c].first - 1) * size
             n == Cardinality(start[c])
  <2> SUFFICES ASSUME seen'[c] # {}, first >= n, first <= MaxInt, ~grown[c]
               PROVE  FALSE
    <3>1. first \in Int BY <1>2
    <3> QED BY <1>2, <1>8, <3>1 DEF PastTheEnd
  <2>1. n \in Nat /\ Cardinality(rows[t]) <= n
    BY <1>7, <1>8, FS_Subset, FS_CardinalityType DEF ClientInv, Kept
  <2>2. first \in Int BY <1>2
  <2>3. seen[c] = {}
    BY <1>7, <1>2, <2>1, <2>2 DEF ClientInv, PastTheEnd
  <2>4. offset = Wrap(first)
    BY <1>7, <2>3 DEF ClientInv, Fresh, NextOffset, Offset
  <2> HIDE DEF first, n
  <2>5. offset = first
    <3>1. first \in MinInt..MaxInt BY <1>2, <2>1, <2>2
    <3> QED BY <2>2, <2>4, <3>1, WrapFits
  <2>6. PICK r \in answer : TRUE BY <1>4, <2>3
  <2>7. Rank(t, r) < Cardinality(rows[t]) /\ offset <= Rank(t, r)
    BY <1>3, <1>7, <2>6, RankType
  <2>8. Cardinality(rows[t]) \in Nat BY <1>7, RankType
  <2> QED BY <1>9, <2>1, <2>2, <2>5, <2>7, <2>8
<1>20. ClientInv(c)'
  BY <1>12, <1>13, <1>14, <1>16, <1>17, <1>18, <1>19 DEF ClientInv
<1> QED BY <1>5, <1>6, <1>20, OneClient

LEMMA ListStep == ASSUME IInv, NEW c \in Clients, List(c) PROVE IInv'
<1>1. PICK t \in Tables, size \in Int, p \in Int :
        t = walk[c].table /\ size = walk[c].size /\ p = page[c]
  BY WalkType DEF IInv
<1>2. /\ status[c] = "walking"
      /\ UNCHANGED <<rows, nextId, now, tx, walk, start, shrunk, grown>>
      /\ \/ Stop(c, "InvalidArgument") \/ Stop(c, "Internal")
         \/ /\ Valid(t, p, size) /\ ~(Offset(p, size) < 0)
            /\ Take(c, Page(t, size, Offset(p, size)))
  BY <1>1 DEF List
<1>3. CASE \/ Stop(c, "InvalidArgument") \/ Stop(c, "Internal")
  BY <1>2, <1>3, StopStep
<1>4. CASE /\ Valid(t, p, size) /\ ~(Offset(p, size) < 0)
           /\ Take(c, Page(t, size, Offset(p, size)))
  <2>1. size \in 1..MaxInt /\ p >= 1
    BY <1>4, PagingAssumption DEF Valid, ValidatePageID, ValidatePageSize
  <2>2. Offset(p, size) = NextOffset(c) BY <1>1 DEF NextOffset
  <2>3. NextOffset(c) \in Int BY WalkType DEF IInv
  <2>4. Offset(p, size) \in Nat BY <1>4, <2>2, <2>3
  <2> QED BY <1>1, <1>2, <1>4, <2>1, <2>2, <2>4, TakeStep
<1> QED BY <1>2, <1>3, <1>4

-----------------------------------------------------------------------------
(* The theorems.                                                           *)

LEMMA NextInv == IInv /\ [Next]_vars => IInv'
<1> SUFFICES ASSUME IInv, [Next]_vars PROVE IInv' OBVIOUS
<1>1. CASE UNCHANGED vars
  <2>1. /\ UNCHANGED <<rows, nextId, now, tx, shrunk, grown>> /\ UNCHANGED clientVars
    BY <1>1 DEF vars
  <2>2. TypeOK' BY <2>1 DEF IInv, TypeOK, clientVars
  <2>3. RowsInv' BY <2>1 DEF IInv, RowsInv, IdsUnique, Inserted, Written
  <2> QED BY <2>1, <2>2, <2>3, ClientsKept DEF IInv
<1>2. CASE \E c \in Clients : Begin(c) \/ List(c)
  BY <1>2, BeginStep, ListStep
<1>3. CASE \E w \in Writers : \/ \E t \in Tables : BeginTx(w, t)
                              \/ Insert(w) \/ Commit(w) \/ Rollback(w)
  BY <1>3, BeginTxStep, InsertStep, CommitTxStep, RollbackStep
<1>4. CASE \E r \in rows["accounts"] : DeleteAccount(r)
  BY <1>4, DeleteStep
<1>5. CASE Tick
  BY <1>5, TickStep
<1> QED BY <1>1, <1>2, <1>3, <1>4, <1>5 DEF Next, Quiescent

\* Rows have one id each, and what a client has seen is in front of what it
\* asks for next.
THEOREM Invariance == Spec => []IInv
BY InitInv, NextInv, PTL DEF Spec

\* The variables keep their types.
THEOREM TypeCorrect == Spec => []TypeOK
BY Invariance, PTL DEF IInv

\* ListAccounts and ListEntries, page after page, answer every row that was
\* there at the start, unless rows are deleted.
THEOREM NothingSkippedHolds == Spec => []NothingSkipped
<1>1. IInv => NothingSkipped
  BY DEF IInv, ClientInv, Complete, NothingSkipped
<1> QED BY <1>1, Invariance, PTL

\* They answer no row twice, unless rows are inserted.
THEOREM NothingRepeatedHolds == Spec => []NothingRepeated
<1>1. IInv => NothingRepeated
  BY DEF IInv, ClientInv, Once, NothingRepeated
<1> QED BY <1>1, Invariance, PTL

\* A page behind the last row is empty, unless the offset of the code, an int32,
\* wraps around.
THEOREM PastTheEndHolds == Spec => []PastTheEndOnlyByWrap
<1>1. IInv => PastTheEndOnlyByWrap
  BY DEF IInv, ClientInv, PastTheEnd, PastTheEndOnlyByWrap
<1> QED BY <1>1, Invariance, PTL
=============================================================================
