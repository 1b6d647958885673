-------------------------------- MODULE Sums --------------------------------
(***************************************************************************)
(* Lemmas about the sum of a function over a finite set, as MapThenSumSet  *)
(* of the community modules computes it: element after element, in an      *)
(* order that nothing is known of.  The sums of balances and entries that  *)
(* the other modules speak of are such sums.                               *)
(*                                                                         *)
(* Induction over the subsets of a finite set is done by looking at a      *)
(* smallest counterexample, which WFMin provides.                          *)
(***************************************************************************)
EXTENDS FiniteSetsExt, FiniteSetTheorems, TLAPS

\* g is the sum of f over every subset of S, by the equation of MapThenFoldSet.
IsSum(g, f, S) ==
  g = [s \in SUBSET S |->
         IF s = {} THEN 0
         ELSE f[CHOOSE x \in s : TRUE] + g[s \ {CHOOSE x \in s : TRUE}]]

\* A set of subsets of a finite set has a smallest one.
LEMMA SmallestSubset ==
  ASSUME NEW S, IsFiniteSet(S), NEW B \in SUBSET (SUBSET S), B # {}
  PROVE  \E v \in B : \A w \in B : w \subseteq v => w = v
<1>1. IsWellFoundedOn(StrictSubsetOrdering(S), SUBSET S)
  BY FS_StrictSubsetOrderingWellFounded, FS_FiniteSubsetsOfFinite
<1>2. PICK v \in B : \A w \in B : <<w, v>> \notin StrictSubsetOrdering(S)
  BY <1>1, WFMin
<1>3. ASSUME NEW w \in B, w \subseteq v, w # v PROVE FALSE
  <2>1. <<w, v>> \in (SUBSET S) \X (SUBSET S)
    OBVIOUS
  <2> QED BY <1>2, <1>3, <2>1 DEF StrictSubsetOrdering
<1> QED BY <1>3

\* The equation, at a subset.
LEMMA SumEquation ==
  ASSUME NEW S, NEW f, NEW g, IsSum(g, f, S), NEW v \in SUBSET S
  PROVE  /\ v = {} => g[v] = 0
         /\ v # {} => \E x \in v : /\ x = CHOOSE y \in v : TRUE
                                   /\ g[v] = f[x] + g[v \ {x}]
<1>1. g[v] = IF v = {} THEN 0
             ELSE f[CHOOSE x \in v : TRUE] + g[v \ {CHOOSE x \in v : TRUE}]
  BY DEF IsSum
<1> QED BY <1>1

\* The sums of two functions are equal over a set on which these are.
LEMMA SumsAgree ==
  ASSUME NEW S, IsFiniteSet(S), NEW T, NEW f, NEW h, NEW g, NEW k,
         IsSum(g, f, S), IsSum(k, h, T),
         NEW u \in SUBSET S, u \subseteq T, \A x \in u : f[x] = h[x]
  PROVE  g[u] = k[u]
<1> DEFINE B == {v \in SUBSET u : g[v] # k[v]}
<1>1. SUFFICES ASSUME B # {} PROVE FALSE OBVIOUS
<1>2. IsFiniteSet(u) /\ B \in SUBSET (SUBSET u) BY FS_Subset
<1>3. PICK v \in B : \A w \in B : w \subseteq v => w = v
  <2> HIDE DEF B
  <2> QED BY <1>1, <1>2, SmallestSubset
<1>4. v \in SUBSET S /\ v \in SUBSET T OBVIOUS
<1>5. CASE v = {} BY <1>3, <1>4, <1>5, SumEquation
<1>6. CASE v # {}
  <2>1. PICK x \in v : x = (CHOOSE y \in v : TRUE) /\ g[v] = f[x] + g[v \ {x}]
    BY <1>4, <1>6, SumEquation
  <2>2. k[v] = h[x] + k[v \ {x}]
    <3>1. PICK z \in v : z = (CHOOSE y \in v : TRUE) /\ k[v] = h[z] + k[v \ {z}]
      BY <1>4, <1>6, SumEquation
    <3> QED BY <2>1, <3>1
  <2>3. g[v \ {x}] = k[v \ {x}] BY <1>3
  <2> QED BY <1>3, <2>1, <2>2, <2>3
<1> QED BY <1>5, <1>6

LEMMA SumExists ==
  ASSUME NEW S, IsFiniteSet(S), NEW f
  PROVE  \E g : IsSum(g, f, S)
<1> DEFINE B == {v \in SUBSET S : ~\E g : IsSum(g, f, v)}
<1>1. SUFFICES ASSUME B # {} PROVE FALSE OBVIOUS
<1>2. PICK v \in B : \A w \in B : w \subseteq v => w = v
  <2>1. B \in SUBSET (SUBSET S) OBVIOUS
  <2> HIDE DEF B
  <2> QED BY <1>1, <2>1, SmallestSubset
<1>3. \A w \in SUBSET v : w # v => \E g : IsSum(g, f, w)
  BY <1>2
<1>4. IsFiniteSet(v) BY FS_Subset
<1>5. CASE v = {}
  <2>1. IsSum([s \in SUBSET v |-> 0], f, v)
    BY <1>5 DEF IsSum
  <2> QED BY <1>2, <2>1
<1>6. CASE v # {}
  <2> DEFINE x == CHOOSE y \in v : TRUE
             G(w) == CHOOSE g : IsSum(g, f, w)
  <2>1. \A w \in SUBSET v : w # v => IsSum(G(w), f, w)
    BY <1>3
  <2>2. x \in v BY <1>6
  <2> DEFINE g == [w \in SUBSET v |-> IF w = v THEN f[x] + G(v \ {x})[v \ {x}] ELSE G(w)[w]]
  <2> HIDE DEF G
  <2>3. ASSUME NEW w \in SUBSET v, w # {}
        PROVE  g[w] = f[CHOOSE y \in w : TRUE] + g[w \ {CHOOSE y \in w : TRUE}]
    <3> DEFINE z == CHOOSE y \in w : TRUE
    <3>1. z \in w BY <2>3
    <3>2. w \ {z} # v /\ w \ {z} \in SUBSET v BY <3>1
    <3>3. g[w \ {z}] = G(w \ {z})[w \ {z}] BY <3>2
    <3>4. CASE w = v BY <3>2, <3>3, <3>4
    <3>5. CASE w # v
      <4>1. g[w] = G(w)[w] BY <3>5
      <4>2. IsSum(G(w), f, w) /\ IsSum(G(w \ {z}), f, w \ {z})
        BY <2>1, <3>2, <3>5
      <4>3. G(w)[w] = f[z] + G(w)[w \ {z}]
        <5>1. PICK k : k = G(w) OBVIOUS
        <5>2. PICK t \in w : t = (CHOOSE y \in w : TRUE) /\ k[w] = f[t] + k[w \ {t}]
          BY <2>3, <4>2, <5>1, SumEquation
        <5> QED BY <5>1, <5>2
      <4>4. IsFiniteSet(w) BY <1>4, FS_Subset
      <4>5. G(w)[w \ {z}] = G(w \ {z})[w \ {z}]
        BY <4>2, <4>4, SumsAgree
      <4> QED BY <3>3, <4>1, <4>3, <4>5
    <3> QED BY <3>4, <3>5
  <2>4. g[{}] = 0
    <3>1. IsSum(G({}), f, {}) BY <1>6, <2>1
    <3>2. PICK k : k = G({}) OBVIOUS
    <3>3. k[{}] = 0 BY <3>1, <3>2, SumEquation
    <3> QED BY <1>6, <3>2, <3>3
  <2>5. IsSum(g, f, v)
    <3>1. g = [w \in SUBSET v |-> g[w]] OBVIOUS
    <3> HIDE DEF g
    <3>2. \A w \in SUBSET v :
            g[w] = IF w = {} THEN 0
                   ELSE f[CHOOSE y \in w : TRUE] + g[w \ {CHOOSE y \in w : TRUE}]
      BY <2>3, <2>4
    <3> QED BY <3>1, <3>2 DEF IsSum
  <2> QED BY <1>2, <2>5
<1> QED BY <1>5, <1>6

\* A sum of integers is one.
LEMMA SumType ==
  ASSUME NEW S, IsFiniteSet(S), NEW f, NEW g, IsSum(g, f, S),
         NEW u \in SUBSET S, \A x \in u : f[x] \in Int
  PROVE  g[u] \in Int
<1> DEFINE B == {v \in SUBSET u : g[v] \notin Int}
<1>1. SUFFICES ASSUME B # {} PROVE FALSE OBVIOUS
<1>2. IsFiniteSet(u) /\ B \in SUBSET (SUBSET u) BY FS_Subset
<1>3. PICK v \in B : \A w \in B : w \subseteq v => w = v
  <2> HIDE DEF B
  <2> QED BY <1>1, <1>2, SmallestSubset
<1>4. v \in SUBSET S OBVIOUS
<1>5. CASE v = {} BY <1>3, <1>4, <1>5, SumEquation
<1>6. CASE v # {}
  <2>1. PICK x \in v : g[v] = f[x] + g[v \ {x}]
    BY <1>4, <1>6, SumEquation
  <2>2. g[v \ {x}] \in Int BY <1>3
  <2>3. f[x] \in Int OBVIOUS
  <2> QED BY <1>3, <2>1, <2>2, <2>3
<1> QED BY <1>5, <1>6

\* Any element may be taken first.
LEMMA SumStep ==
  ASSUME NEW S, IsFiniteSet(S), NEW f, NEW g, IsSum(g, f, S),
         NEW u \in SUBSET S, \A x \in u : f[x] \in Int, NEW a \in u
  PROVE  g[u] = f[a] + g[u \ {a}]
<1> DEFINE B == {v \in SUBSET u : \E x \in v : g[v] # f[x] + g[v \ {x}]}
<1>1. SUFFICES ASSUME B # {} PROVE FALSE OBVIOUS
<1>2. IsFiniteSet(u) /\ B \in SUBSET (SUBSET u) BY FS_Subset
<1>3. PICK v \in B : \A w \in B : w \subseteq v => w = v
  <2> HIDE DEF B
  <2> QED BY <1>1, <1>2, SmallestSubset
<1>4. PICK x \in v : g[v] # f[x] + g[v \ {x}] OBVIOUS
<1>5. v \in SUBSET S /\ v # {} BY <1>4
<1>6. PICK y \in v : g[v] = f[y] + g[v \ {y}]
  BY <1>5, SumEquation
<1>7. y # x BY <1>4, <1>6
<1>8. g[v \ {y}] = f[x] + g[(v \ {y}) \ {x}]
  <2>1. v \ {y} \notin B BY <1>3
  <2> QED BY <1>7, <2>1
<1>9. g[v \ {x}] = f[y] + g[(v \ {x}) \ {y}]
  <2>1. v \ {x} \notin B BY <1>3
  <2> QED BY <1>7, <2>1
<1>10. (v \ {y}) \ {x} = (v \ {x}) \ {y} OBVIOUS
<1>11. f[x] \in Int /\ f[y] \in Int OBVIOUS
<1>12. g[(v \ {x}) \ {y}] \in Int
  <2>1. (v \ {x}) \ {y} \in SUBSET S /\ \A z \in (v \ {x}) \ {y} : f[z] \in Int
    OBVIOUS
  <2> QED BY <2>1, SumType
<1> HIDE DEF B
<1>13. PICK m \in Int, p \in Int, q \in Int :
         m = g[(v \ {x}) \ {y}] /\ p = f[x] /\ q = f[y]
  BY <1>11, <1>12
<1>14. g[v] = q + (p + m) /\ g[v \ {x}] = q + m
  BY <1>6, <1>8, <1>9, <1>10, <1>13
<1>15. q + (p + m) = p + (q + m) BY <1>13
<1> QED BY <1>4, <1>13, <1>14, <1>15
=============================================================================
