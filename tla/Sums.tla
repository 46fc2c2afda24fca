-------------------------------- MODULE Sums --------------------------------
(***************************************************************************)
(* Facts about finite data that the proofs of several components need: two *)
(* induction principles, that a fold over a finite set is defined, and     *)
(* what a sum over a function does when one value changes or one index     *)
(* goes.                                                                   *)
(*                                                                         *)
(* Induction is by a minimal counterexample: a statement about all subsets *)
(* of a finite set, or about all naturals, is the set of those it holds of.*)
(***************************************************************************)
EXTENDS Integers, Functions, FiniteSetTheorems, WellFoundedInduction, TLAPS

-----------------------------------------------------------------------------
(* Induction. *)

\* A nonempty family of subsets of a finite set has a minimal member.
LEMMA MinimalSubset ==
  ASSUME NEW S, IsFiniteSet(S), NEW F \in SUBSET SUBSET S, F # {}
  PROVE  \E m \in F : \A t \in F : ~(t \subseteq m /\ t # m)
<1>1. IsWellFoundedOn(StrictSubsetOrdering(S), SUBSET S)
  BY FS_StrictSubsetOrderingWellFounded, FS_FiniteSubsetsOfFinite
<1>2. PICK m \in F : \A t \in F : ~(<<t, m>> \in StrictSubsetOrdering(S))
  BY <1>1, WFMin
<1> QED
  BY <1>2 DEF StrictSubsetOrdering

\* What holds of a set whenever it holds of its strict subsets holds of all.
LEMMA SubsetInduction ==
  ASSUME NEW S, IsFiniteSet(S), NEW F,
         \A s \in SUBSET S : (\A t \in SUBSET s : t # s => t \in F) => s \in F
  PROVE  \A s \in SUBSET S : s \in F
<1> DEFINE G == (SUBSET S) \ F
<1> SUFFICES ASSUME G # {} PROVE FALSE
  OBVIOUS
<1>1. PICK m \in G : \A t \in G : ~(t \subseteq m /\ t # m)
  <2>1. G \in SUBSET SUBSET S
    OBVIOUS
  <2> HIDE DEF G
  <2> QED
    BY <2>1, MinimalSubset
<1> QED
  BY <1>1

\* Induction over the naturals.
LEMMA NaturalInduction ==
  ASSUME NEW F, 0 \in F, \A n \in Nat : n \in F => n + 1 \in F
  PROVE  \A n \in Nat : n \in F
<1> SUFFICES ASSUME NEW n \in Nat, n \notin F PROVE FALSE
  OBVIOUS
<1> DEFINE I == 0 .. n
           G == {t \in SUBSET I : \E k \in I : t = 0 .. k /\ k \notin F}
<1>1. IsFiniteSet(I)
  BY FS_Interval
<1>2. 0 .. n \in G
  OBVIOUS
<1>3. PICK m \in G : \A t \in G : ~(t \subseteq m /\ t # m)
  <2>1. G \in SUBSET SUBSET I /\ G # {}
    BY <1>2
  <2> HIDE DEF G, I
  <2> QED
    BY <1>1, <2>1, MinimalSubset
<1>4. PICK k \in I : m = 0 .. k /\ k \notin F
  BY <1>3
<1>5. k # 0 /\ k - 1 \in I /\ k - 1 \in Nat /\ (k - 1) + 1 = k
  BY <1>4
<1>6. k - 1 \notin F
  BY <1>4, <1>5
<1>7. 0 .. (k - 1) \in G
  BY <1>5, <1>6
<1>8. 0 .. (k - 1) \subseteq m /\ 0 .. (k - 1) # m
  BY <1>4, <1>5
<1> QED
  BY <1>3, <1>7, <1>8

-----------------------------------------------------------------------------
(* Folds. *)

Chooses(c, S) == \A s \in SUBSET S : s # {} => c[s] \in s

\* g folds every subset of S: h[x][v] takes in x after the value v of the rest.
IsFold(g, S, V, base, c, h) ==
  /\ g \in [SUBSET S -> V]
  /\ \A s \in SUBSET S : g[s] = IF s = {} THEN base ELSE h[c[s]][g[s \ {c[s]}]]

\* Such a fold exists, so that the recursive definition of one defines it.
LEMMA FoldExists ==
  ASSUME NEW S, IsFiniteSet(S), NEW V, NEW base, base \in V,
         NEW c, Chooses(c, S), NEW h, h \in [S -> [V -> V]]
  PROVE  \E g : IsFold(g, S, V, base, c, h)
<1> USE DEF Chooses
<1> DEFINE Sub(n) == {s \in SUBSET S : Cardinality(s) <= n}
           Step(g, s) == IF s = {} THEN base ELSE h[c[s]][g[s \ {c[s]}]]
           Good(n) == \E g \in [Sub(n) -> V] : \A s \in Sub(n) : g[s] = Step(g, s)
           F == {n \in Nat : Good(n)}
<1>0. \A s \in SUBSET S : IsFiniteSet(s) /\ Cardinality(s) \in Nat
  BY FS_Subset, FS_CardinalityType
<1>1. Good(0)
  <2>1. \A s \in Sub(0) : s = {}
    <3> SUFFICES ASSUME NEW s \in Sub(0) PROVE s = {}
      OBVIOUS
    <3>1. IsFiniteSet(s) /\ Cardinality(s) = 0
      BY <1>0
    <3> QED
      BY <3>1, FS_EmptySet
  <2> DEFINE g == [s \in Sub(0) |-> base]
  <2>2. g \in [Sub(0) -> V] /\ \A s \in Sub(0) : g[s] = Step(g, s)
    BY <2>1
  <2> QED
    BY <2>2
<1>2. ASSUME NEW n \in Nat, Good(n) PROVE Good(n + 1)
  <2>1. PICK g \in [Sub(n) -> V] : \A s \in Sub(n) : g[s] = Step(g, s)
    BY <1>2
  <2> DEFINE f == [s \in Sub(n + 1) |-> Step(g, s)]
  <2>2. ASSUME NEW s \in Sub(n + 1), s # {}
        PROVE  c[s] \in S /\ s \ {c[s]} \in Sub(n) /\ s \ {c[s]} \in Sub(n + 1)
    <3>1. c[s] \in s /\ s \in SUBSET S
      BY <2>2
    <3>2. Cardinality(s \ {c[s]}) = Cardinality(s) - 1
      BY <1>0, <3>1, FS_RemoveElement
    <3>3. Cardinality(s) \in Nat /\ Cardinality(s) <= n + 1
      BY <1>0
    <3>4. s \ {c[s]} \in SUBSET S /\ Cardinality(s) - 1 <= n /\ Cardinality(s) - 1 <= n + 1
      BY <1>2, <3>3
    <3> QED
      BY <3>1, <3>2, <3>4
  <2>3. f \in [Sub(n + 1) -> V]
    <3> SUFFICES ASSUME NEW s \in Sub(n + 1) PROVE Step(g, s) \in V
      OBVIOUS
    <3>1. CASE s = {}
      BY <3>1
    <3>2. CASE s # {}
      <4>1. g[s \ {c[s]}] \in V /\ c[s] \in S
        BY <2>2, <3>2
      <4>2. h[c[s]] \in [V -> V]
        BY <4>1
      <4>3. h[c[s]][g[s \ {c[s]}]] \in V
        BY <4>1, <4>2
      <4> QED
        BY <3>2, <4>3
    <3> QED
      BY <3>1, <3>2
  <2>4. ASSUME NEW s \in Sub(n) PROVE s \in Sub(n + 1) /\ f[s] = g[s]
    <3>1. s \in Sub(n + 1)
      <4>1. s \in SUBSET S /\ Cardinality(s) <= n /\ Cardinality(s) \in Nat
        BY <1>0
      <4>2. Cardinality(s) <= n + 1
        BY <1>2, <4>1
      <4> QED
        BY <4>1, <4>2
    <3> QED
      BY <2>1, <3>1
  <2>5. ASSUME NEW s \in Sub(n + 1) PROVE f[s] = Step(f, s)
    <3>1. CASE s = {}
      BY <3>1
    <3>2. CASE s # {}
      <4>1. f[s \ {c[s]}] = g[s \ {c[s]}]
        BY <2>2, <2>4, <3>2
      <4>2. f[s] = Step(g, s)
        OBVIOUS
      <4> HIDE DEF f
      <4> QED
        BY <3>2, <4>1, <4>2
    <3> QED
      BY <3>1, <3>2
  <2> HIDE DEF f
  <2> QED
    BY <2>3, <2>5
<1>3. \A n \in Nat : Good(n)
  <2>1. \A n \in Nat : n \in F
    <3>1. 0 \in F /\ \A n \in Nat : n \in F => n + 1 \in F
      <4> HIDE DEF Good
      <4> QED
        BY <1>1, <1>2
    <3> HIDE DEF F
    <3> QED
      BY <3>1, NaturalInduction
  <2> HIDE DEF Good
  <2> QED
    BY <2>1
<1>4. Good(Cardinality(S)) /\ Sub(Cardinality(S)) = SUBSET S
  <2>1. Good(Cardinality(S))
    <3> HIDE DEF Good
    <3> QED
      BY <1>0, <1>3
  <2>2. Sub(Cardinality(S)) = SUBSET S
    BY FS_Subset
  <2> QED
    BY <2>1, <2>2
<1> QED
  BY <1>4 DEF IsFold

-----------------------------------------------------------------------------
(* Quotients and products of naturals. *)

LEMMA QuotientTimes ==
  ASSUME NEW m \in Nat, NEW d \in Nat \ {0}
  PROVE  m \div d \in Nat /\ d * (m \div d) \in Nat /\ d * (m \div d) <= m
OBVIOUS

LEMMA ProductCancels ==
  ASSUME NEW d \in Nat \ {0}, NEW m \in Nat, NEW n \in Nat, d * m <= d * n
  PROVE  m <= n
<1> SUFFICES ASSUME m > n PROVE FALSE
  OBVIOUS
<1>1. PICK k \in Nat : m = n + 1 + k
  <2>1. m - n - 1 \in Nat /\ m = n + 1 + (m - n - 1)
    OBVIOUS
  <2> QED
    BY <2>1
<1>2. d * (n + 1 + k) = d * n + d + d * k /\ d * k \in Nat /\ d * n \in Nat
  OBVIOUS
<1> QED
  BY <1>1, <1>2

-----------------------------------------------------------------------------
(* Sums. *)

Pick(s) == CHOOSE x \in s : TRUE

\* i[s] is the sum of f over s, for every subset of S.
IsSum(i, f, S) ==
  /\ i \in [SUBSET S -> Int] /\ i[{}] = 0
  /\ \A s \in SUBSET S : s # {} => i[s] = f[Pick(s)] + i[s \ {Pick(s)}]

Ints(f, S) == \A x \in S : f[x] \in Int
Nats(f, S) == \A x \in S : f[x] \in Nat

LEMMA PickIn == ASSUME NEW s, s # {} PROVE Pick(s) \in s
BY DEF Pick

\* The sum of the library is one.
LEMMA SumExists ==
  ASSUME NEW S, IsFiniteSet(S), NEW f, Ints(f, S)
  PROVE  \E i : IsSum(i, f, S) /\ SumFunctionOnSet(f, S) = i[S]
<1> DEFINE c == [s \in SUBSET S |-> Pick(s)]
           h == [x \in S |-> [v \in Int |-> f[x] + v]]
           Step(i, s) == IF s = {} THEN 0 ELSE f[Pick(s)] + i[s \ {Pick(s)}]
           Iter(i) == i = [s \in SUBSET S |-> Step(i, s)]
           it == CHOOSE i : Iter(i)
<1>1. \A s \in SUBSET S : s # {} => Pick(s) \in s
  BY PickIn
<1>2. PICK g \in [SUBSET S -> Int] : \A s \in SUBSET S :
           g[s] = IF s = {} THEN 0 ELSE h[c[s]][g[s \ {c[s]}]]
  <2>1. h \in [S -> [Int -> Int]]
    BY DEF Ints
  <2>2. \A s \in SUBSET S : s # {} => c[s] \in s
    BY <1>1
  <2> DEFINE V == Int
             base == 0
  <2>3. base \in V /\ h \in [S -> [V -> V]]
    BY <2>1
  <2>4. Chooses(c, S)
    <3> HIDE DEF c
    <3> QED
      BY <2>2 DEF Chooses
  <2>5. \E g : IsFold(g, S, V, base, c, h)
    <3> HIDE DEF c, h, V, base
    <3> QED
      BY <2>3, <2>4, FoldExists
  <2> QED
    BY <2>5 DEF IsFold
<1>3. ASSUME NEW s \in SUBSET S
      PROVE  g[s] = Step(g, s)
  <2>1. CASE s # {}
    <3>1. Pick(s) \in S /\ s \ {Pick(s)} \in SUBSET S
      BY <1>1, <2>1
    <3>2. c[s] = Pick(s) /\ g[s \ {Pick(s)}] \in Int
      BY <3>1
    <3> QED
      BY <1>2, <2>1, <3>1, <3>2
  <2> QED
    BY <1>2, <2>1
<1>4. Iter(g)
  <2> HIDE DEF Step
  <2> QED
    BY <1>3
<1>5. Iter(it)
  <2> HIDE DEF Iter
  <2> QED
    BY <1>4
<1>6. SumFunctionOnSet(f, S) = it[S]
  BY DEF SumFunctionOnSet, FoldFunctionOnSet, MapThenFoldSet, Pick
<1>7. ASSUME NEW s \in SUBSET S PROVE it[s] = Step(it, s)
  <2> HIDE DEF Step, it
  <2> QED
    BY <1>5
<1>8. \A s \in SUBSET S : it[s] = g[s]
  <2> DEFINE F == {s \in SUBSET S : it[s] = g[s]}
  <2>1. ASSUME NEW s \in SUBSET S, \A t \in SUBSET s : t # s => t \in F
        PROVE  s \in F
    <3>1. it[s] = Step(it, s) /\ g[s] = Step(g, s)
      BY <1>3, <1>7
    <3>2. CASE s # {}
      <4>1. s \ {Pick(s)} \in F
        BY <1>1, <2>1, <3>2
      <4> HIDE DEF it
      <4> QED
        BY <3>1, <3>2, <4>1
    <3> HIDE DEF it
    <3> QED
      BY <3>1, <3>2
  <2>2. \A s \in SUBSET S : s \in F
    <3> HIDE DEF F
    <3> QED
      BY <2>1, SubsetInduction
  <2> HIDE DEF it
  <2> QED
    BY <2>2
<1>9. \A s \in SUBSET S : s # {} => g[s] = f[Pick(s)] + g[s \ {Pick(s)}]
  BY <1>3
<1>10. g[{}] = 0
  BY <1>3
<1>11. SumFunctionOnSet(f, S) = g[S]
  BY <1>6, <1>8
<1> HIDE DEF it, c, h
<1> QED
  BY <1>9, <1>10, <1>11 DEF IsSum

\* Over a subset the library's sum is the same.
LEMMA SumOfSubset ==
  ASSUME NEW S, IsFiniteSet(S), NEW f, Ints(f, S), NEW i, IsSum(i, f, S),
         NEW T \in SUBSET S
  PROVE  SumFunctionOnSet(f, T) = i[T]
<1>1. IsFiniteSet(T) /\ Ints(f, T)
  BY FS_Subset DEF Ints
<1>2. PICK j : IsSum(j, f, T) /\ SumFunctionOnSet(f, T) = j[T]
  BY <1>1, SumExists
<1> DEFINE F == {s \in SUBSET T : i[s] = j[s]}
<1>3. ASSUME NEW s \in SUBSET T, \A t \in SUBSET s : t # s => t \in F
      PROVE  s \in F
  <2>1. CASE s # {}
    <3>1. Pick(s) \in s
      BY <2>1, PickIn
    <3>2. i[s \ {Pick(s)}] = j[s \ {Pick(s)}]
      BY <1>3, <3>1
    <3> QED
      BY <1>2, <2>1, <3>2 DEF IsSum
  <2> QED
    BY <1>2, <2>1 DEF IsSum
<1>4. \A s \in SUBSET T : s \in F
  <2> HIDE DEF F
  <2> QED
    BY <1>1, <1>3, SubsetInduction
<1> QED
  BY <1>2, <1>4

\* Any element may be taken out of a sum.
LEMMA SumRemoves ==
  ASSUME NEW S, IsFiniteSet(S), NEW f, Ints(f, S), NEW i, IsSum(i, f, S)
  PROVE  \A s \in SUBSET S : \A a \in s : i[s] = f[a] + i[s \ {a}]
<1> DEFINE F == {s \in SUBSET S : \A a \in s : i[s] = f[a] + i[s \ {a}]}
<1>1. ASSUME NEW s \in SUBSET S, \A t \in SUBSET s : t # s => t \in F
      PROVE  s \in F
  <2> SUFFICES ASSUME NEW a \in s PROVE i[s] = f[a] + i[s \ {a}]
    OBVIOUS
  <2> DEFINE p == Pick(s)
  <2>1. p \in s /\ i[s] = f[p] + i[s \ {p}]
    BY PickIn DEF IsSum
  <2>2. CASE a # p
    <3> DEFINE r == (s \ {p}) \ {a}
    <3>1. i[s \ {p}] = f[a] + i[r]
      <4>1. s \ {p} \in F /\ a \in s \ {p}
        BY <1>1, <2>1, <2>2
      <4> QED
        BY <4>1
    <3>2. i[s \ {a}] = f[p] + i[r]
      <4>1. s \ {a} \in F /\ p \in s \ {a}
        BY <1>1, <2>1, <2>2
      <4>2. (s \ {a}) \ {p} = r
        OBVIOUS
      <4>3. i[s \ {a}] = f[p] + i[(s \ {a}) \ {p}]
        BY <4>1
      <4> QED
        BY <4>2, <4>3
    <3>3. f[a] \in Int /\ f[p] \in Int /\ i[r] \in Int
      BY <2>1 DEF Ints, IsSum
    <3>4. i[s] = f[p] + i[s \ {p}]
      BY <2>1
    <3> HIDE DEF p, r, F
    <3> QED
      BY <3>1, <3>2, <3>3, <3>4
  <2> QED
    BY <2>1, <2>2
<1>2. \A s \in SUBSET S : s \in F
  <2> HIDE DEF F
  <2> QED
    BY <1>1, SubsetInduction
<1> QED
  BY <1>2

LEMMA SumRemove ==
  ASSUME NEW S, IsFiniteSet(S), NEW f, Ints(f, S), NEW a \in S
  PROVE  SumFunctionOnSet(f, S) = f[a] + SumFunctionOnSet(f, S \ {a})
<1>1. PICK i : IsSum(i, f, S)
  BY SumExists
<1>2. SumFunctionOnSet(f, S) = i[S] /\ SumFunctionOnSet(f, S \ {a}) = i[S \ {a}]
  BY <1>1, SumOfSubset
<1> QED
  BY <1>1, <1>2, SumRemoves

LEMMA SumEmpty == ASSUME NEW f PROVE SumFunctionOnSet(f, {}) = 0
<1>1. IsFiniteSet({}) /\ Ints(f, {})
  BY FS_EmptySet DEF Ints
<1> QED
  BY <1>1, SumExists DEF IsSum

\* A sum of integers is one; a sum of naturals is one.
LEMMA SumType ==
  ASSUME NEW S, IsFiniteSet(S), NEW f, Ints(f, S)
  PROVE  /\ SumFunctionOnSet(f, S) \in Int
         /\ Nats(f, S) => SumFunctionOnSet(f, S) \in Nat
<1>1. PICK i : IsSum(i, f, S) /\ SumFunctionOnSet(f, S) = i[S]
  BY SumExists
<1>2. i[S] \in Int
  BY <1>1 DEF IsSum
<1>3. ASSUME Nats(f, S) PROVE i[S] \in Nat
  <2> DEFINE F == {s \in SUBSET S : i[s] \in Nat}
  <2>1. ASSUME NEW s \in SUBSET S, \A t \in SUBSET s : t # s => t \in F
        PROVE  s \in F
    <3>1. CASE s = {}
      BY <1>1, <3>1 DEF IsSum
    <3>2. CASE s # {}
      <4>1. Pick(s) \in s
        BY <3>2, PickIn
      <4>2. f[Pick(s)] \in Nat /\ i[s \ {Pick(s)}] \in Nat
        BY <1>3, <2>1, <4>1 DEF Nats
      <4>3. i[s] = f[Pick(s)] + i[s \ {Pick(s)}]
        BY <1>1, <3>2 DEF IsSum
      <4> QED
        BY <4>2, <4>3
    <3> QED
      BY <3>1, <3>2
  <2>2. \A s \in SUBSET S : s \in F
    <3> HIDE DEF F
    <3> QED
      BY <2>1, SubsetInduction
  <2> QED
    BY <2>2
<1> QED
  BY <1>1, <1>2, <1>3

\* Larger values have a larger sum, and equal ones the same.
LEMMA SumMonotone ==
  ASSUME NEW S, IsFiniteSet(S), NEW f, Ints(f, S), NEW g, Ints(g, S),
         \A x \in S : f[x] <= g[x]
  PROVE  SumFunctionOnSet(f, S) <= SumFunctionOnSet(g, S)
<1>1. PICK i : IsSum(i, f, S) /\ SumFunctionOnSet(f, S) = i[S]
  BY SumExists
<1>2. PICK j : IsSum(j, g, S) /\ SumFunctionOnSet(g, S) = j[S]
  BY SumExists
<1> DEFINE F == {s \in SUBSET S : i[s] <= j[s]}
<1>3. ASSUME NEW s \in SUBSET S, \A t \in SUBSET s : t # s => t \in F
      PROVE  s \in F
  <2>1. CASE s = {}
    BY <1>1, <1>2, <2>1 DEF IsSum
  <2>2. CASE s # {}
    <3> DEFINE p == Pick(s)
    <3>1. p \in s
      BY <2>2, PickIn
    <3>2. i[s \ {p}] <= j[s \ {p}]
      BY <1>3, <3>1
    <3>3. /\ f[p] \in Int /\ g[p] \in Int /\ f[p] <= g[p]
          /\ i[s \ {p}] \in Int /\ j[s \ {p}] \in Int
      BY <1>1, <1>2, <3>1 DEF Ints, IsSum
    <3>4. i[s] = f[p] + i[s \ {p}] /\ j[s] = g[p] + j[s \ {p}]
      BY <1>1, <1>2, <2>2 DEF IsSum
    <3> HIDE DEF p
    <3> QED
      BY <3>2, <3>3, <3>4
  <2> QED
    BY <2>1, <2>2
<1>4. \A s \in SUBSET S : s \in F
  <2> HIDE DEF F
  <2> QED
    BY <1>3, SubsetInduction
<1> QED
  BY <1>1, <1>2, <1>4

LEMMA SumSame ==
  ASSUME NEW S, IsFiniteSet(S), NEW f, Ints(f, S), NEW g,
         \A x \in S : f[x] = g[x]
  PROVE  SumFunctionOnSet(f, S) = SumFunctionOnSet(g, S)
<1>1. Ints(g, S) /\ (\A x \in S : f[x] <= g[x]) /\ (\A x \in S : g[x] <= f[x])
  BY DEF Ints
<1>2. /\ SumFunctionOnSet(f, S) <= SumFunctionOnSet(g, S)
      /\ SumFunctionOnSet(g, S) <= SumFunctionOnSet(f, S)
  BY <1>1, SumMonotone
<1>3. SumFunctionOnSet(f, S) \in Int /\ SumFunctionOnSet(g, S) \in Int
  BY <1>1, SumType
<1> QED
  BY <1>2, <1>3

\* One value changes: so does the sum, by as much.
LEMMA SumChange ==
  ASSUME NEW S, IsFiniteSet(S), NEW f, Ints(f, S), NEW g, Ints(g, S),
         NEW a \in S, \A x \in S \ {a} : f[x] = g[x]
  PROVE  SumFunctionOnSet(g, S) = SumFunctionOnSet(f, S) + g[a] - f[a]
<1>1. IsFiniteSet(S \ {a}) /\ Ints(f, S \ {a})
  BY FS_RemoveElement DEF Ints
<1>2. SumFunctionOnSet(f, S \ {a}) = SumFunctionOnSet(g, S \ {a})
  BY <1>1, SumSame
<1>3. /\ SumFunctionOnSet(f, S) = f[a] + SumFunctionOnSet(f, S \ {a})
      /\ SumFunctionOnSet(g, S) = g[a] + SumFunctionOnSet(g, S \ {a})
  BY SumRemove
<1>4. f[a] \in Int /\ g[a] \in Int /\ SumFunctionOnSet(f, S \ {a}) \in Int
  BY <1>1, SumType DEF Ints
<1> QED
  BY <1>2, <1>3, <1>4

\* No value of a sum of naturals exceeds it.
LEMMA SumBounds ==
  ASSUME NEW S, IsFiniteSet(S), NEW f, Nats(f, S), NEW a \in S
  PROVE  f[a] <= SumFunctionOnSet(f, S)
<1>1. Ints(f, S) /\ IsFiniteSet(S \ {a}) /\ Ints(f, S \ {a}) /\ Nats(f, S \ {a})
  BY FS_RemoveElement DEF Ints, Nats
<1>2. SumFunctionOnSet(f, S) = f[a] + SumFunctionOnSet(f, S \ {a})
  BY <1>1, SumRemove
<1>3. SumFunctionOnSet(f, S \ {a}) \in Nat /\ f[a] \in Nat
  BY <1>1, SumType DEF Nats
<1> QED
  BY <1>2, <1>3

\* Two sums over the same set are the sum of both.
LEMMA SumBoth ==
  ASSUME NEW S, IsFiniteSet(S), NEW f, Ints(f, S), NEW g, Ints(g, S), NEW h,
         \A x \in S : h[x] = f[x] + g[x]
  PROVE  SumFunctionOnSet(h, S) = SumFunctionOnSet(f, S) + SumFunctionOnSet(g, S)
<1>1. Ints(h, S)
  BY DEF Ints
<1>2. PICK i : IsSum(i, f, S) /\ SumFunctionOnSet(f, S) = i[S]
  BY SumExists
<1>3. PICK j : IsSum(j, g, S) /\ SumFunctionOnSet(g, S) = j[S]
  BY SumExists
<1>4. PICK k : IsSum(k, h, S) /\ SumFunctionOnSet(h, S) = k[S]
  BY <1>1, SumExists
<1> DEFINE F == {s \in SUBSET S : k[s] = i[s] + j[s]}
<1>5. ASSUME NEW s \in SUBSET S, \A t \in SUBSET s : t # s => t \in F
      PROVE  s \in F
  <2>1. CASE s = {}
    BY <1>2, <1>3, <1>4, <2>1 DEF IsSum
  <2>2. CASE s # {}
    <3> DEFINE p == Pick(s)
    <3>1. p \in s /\ s \ {p} \in SUBSET s /\ s \ {p} # s
      BY <2>2, PickIn
    <3>2. k[s \ {p}] = i[s \ {p}] + j[s \ {p}] /\ p \in S
      BY <1>5, <3>1
    <3>3. /\ f[p] \in Int /\ g[p] \in Int /\ h[p] = f[p] + g[p]
          /\ i[s \ {p}] \in Int /\ j[s \ {p}] \in Int
      BY <1>2, <1>3, <3>1, <3>2 DEF Ints, IsSum
    <3>4. /\ i[s] = f[p] + i[s \ {p}] /\ j[s] = g[p] + j[s \ {p}]
          /\ k[s] = h[p] + k[s \ {p}]
      BY <1>2, <1>3, <1>4, <2>2 DEF IsSum
    <3> HIDE DEF p
    <3> QED
      BY <3>2, <3>3, <3>4
  <2> QED
    BY <2>1, <2>2
<1>6. \A s \in SUBSET S : s \in F
  <2> HIDE DEF F
  <2> QED
    BY <1>5, SubsetInduction
<1> QED
  BY <1>2, <1>3, <1>4, <1>6

\* A factor comes out of a sum.
LEMMA SumScaled ==
  ASSUME NEW S, IsFiniteSet(S), NEW f, Ints(f, S), NEW c \in Int, NEW h,
         \A x \in S : h[x] = c * f[x]
  PROVE  SumFunctionOnSet(h, S) = c * SumFunctionOnSet(f, S)
<1>0. \A m, n \in Int : c * (m + n) = c * m + c * n /\ c * m \in Int
  OBVIOUS
<1>1. Ints(h, S)
  BY <1>0 DEF Ints
<1>2. PICK i : IsSum(i, f, S) /\ SumFunctionOnSet(f, S) = i[S]
  BY SumExists
<1>3. PICK k : IsSum(k, h, S) /\ SumFunctionOnSet(h, S) = k[S]
  BY <1>1, SumExists
<1> DEFINE F == {s \in SUBSET S : k[s] = c * i[s]}
<1>4. ASSUME NEW s \in SUBSET S, \A t \in SUBSET s : t # s => t \in F
      PROVE  s \in F
  <2>1. CASE s = {}
    BY <1>2, <1>3, <2>1 DEF IsSum
  <2>2. CASE s # {}
    <3> DEFINE p == Pick(s)
    <3>1. p \in s /\ s \ {p} \in SUBSET s /\ s \ {p} # s
      BY <2>2, PickIn
    <3>2. k[s \ {p}] = c * i[s \ {p}] /\ p \in S
      BY <1>4, <3>1
    <3>3. f[p] \in Int /\ h[p] = c * f[p] /\ i[s \ {p}] \in Int
      BY <1>2, <3>1, <3>2 DEF Ints, IsSum
    <3>4. i[s] = f[p] + i[s \ {p}] /\ k[s] = h[p] + k[s \ {p}]
      BY <1>2, <1>3, <2>2 DEF IsSum
    <3>5. c * (f[p] + i[s \ {p}]) = c * f[p] + c * i[s \ {p}]
      BY <1>0, <3>3
    <3> HIDE DEF p
    <3> QED
      BY <3>2, <3>3, <3>4, <3>5
  <2> QED
    BY <2>1, <2>2
<1>5. \A s \in SUBSET S : s \in F
  <2> HIDE DEF F
  <2> QED
    BY <1>4, SubsetInduction
<1> QED
  BY <1>2, <1>3, <1>5

\* A sum is at most the number of its terms times a bound of them.
LEMMA SumAtMost ==
  ASSUME NEW S, IsFiniteSet(S), NEW f, Ints(f, S), NEW c \in Int,
         \A x \in S : f[x] <= c
  PROVE  SumFunctionOnSet(f, S) <= c * Cardinality(S)
<1>1. PICK i : IsSum(i, f, S) /\ SumFunctionOnSet(f, S) = i[S]
  BY SumExists
<1> DEFINE F == {s \in SUBSET S : i[s] <= c * Cardinality(s)}
<1>2. ASSUME NEW s \in SUBSET S, \A t \in SUBSET s : t # s => t \in F
      PROVE  s \in F
  <2>1. CASE s = {}
    <3>1. Cardinality(s) = 0
      BY <2>1, FS_EmptySet
    <3>2. i[s] = 0
      BY <1>1, <2>1 DEF IsSum
    <3> QED
      BY <3>1, <3>2
  <2>2. CASE s # {}
    <3> DEFINE p == Pick(s)
               k == Cardinality(s \ {p})
    <3>1. p \in s /\ s \ {p} \in SUBSET s /\ s \ {p} # s
      BY <2>2, PickIn
    <3>2. i[s \ {p}] <= c * k /\ p \in S
      BY <1>2, <3>1
    <3>3. f[p] \in Int /\ f[p] <= c /\ i[s \ {p}] \in Int
      BY <1>1, <3>1, <3>2 DEF Ints, IsSum
    <3>4. i[s] = f[p] + i[s \ {p}]
      BY <1>1, <2>2 DEF IsSum
    <3>5. k \in Nat /\ Cardinality(s) = k + 1
      <4>1. IsFiniteSet(s)
        BY FS_Subset
      <4>2. /\ IsFiniteSet(s \ {p}) /\ k = Cardinality(s) - 1
            /\ Cardinality(s) \in Nat /\ k \in Nat
        BY <3>1, <4>1, FS_RemoveElement, FS_CardinalityType
      <4> HIDE DEF k
      <4> QED
        BY <4>2
    <3>6. c * (k + 1) = c * k + c /\ c * k \in Int
      <4> HIDE DEF k
      <4> QED
        BY <3>5
    <3>7. i[s] <= c * Cardinality(s)
      <4> HIDE DEF p, k
      <4> QED
        BY <3>2, <3>3, <3>4, <3>5, <3>6
    <3> QED
      BY <3>7
  <2> QED
    BY <2>1, <2>2
<1>3. \A s \in SUBSET S : s \in F
  <2> HIDE DEF F
  <2> QED
    BY <1>2, SubsetInduction
<1> QED
  BY <1>1, <1>3

\* Among finitely many integers one is the largest.
LEMMA LargestExists ==
  ASSUME NEW S, IsFiniteSet(S), S # {}, NEW f, Ints(f, S)
  PROVE  \E t \in S : \A u \in S : f[u] <= f[t]
<1> DEFINE F == {s \in SUBSET S : s # {} => \E t \in s : \A u \in s : f[u] <= f[t]}
<1>1. ASSUME NEW s \in SUBSET S, \A t \in SUBSET s : t # s => t \in F
      PROVE  s \in F
  <2> SUFFICES ASSUME s # {} PROVE \E t \in s : \A u \in s : f[u] <= f[t]
    OBVIOUS
  <2>1. PICK a \in s : TRUE
    OBVIOUS
  <2>2. \A u \in s : f[u] \in Int
    BY DEF Ints
  <2>3. CASE s \ {a} = {}
    BY <2>1, <2>2, <2>3
  <2>4. CASE s \ {a} # {}
    <3>1. s \ {a} \in F
      BY <1>1, <2>1
    <3>2. PICK t \in s \ {a} : \A u \in s \ {a} : f[u] <= f[t]
      BY <2>4, <3>1
    <3>3. CASE f[a] <= f[t]
      BY <3>2, <3>3
    <3>4. CASE ~(f[a] <= f[t])
      BY <2>1, <2>2, <3>2, <3>4
    <3> QED
      BY <3>3, <3>4
  <2> QED
    BY <2>3, <2>4
<1>2. \A s \in SUBSET S : s \in F
  <2> HIDE DEF F
  <2> QED
    BY <1>1, SubsetInduction
<1> QED
  BY <1>2

-----------------------------------------------------------------------------
(* Sums over 1 .. n. *)

\* The last index goes.
LEMMA SumLast ==
  ASSUME NEW n \in Nat, NEW f, Ints(f, 1 .. n + 1)
  PROVE  SumFunctionOnSet(f, 1 .. n + 1) = f[n + 1] + SumFunctionOnSet(f, 1 .. n)
<1>1. /\ IsFiniteSet(1 .. n + 1) /\ n + 1 \in 1 .. n + 1
      /\ (1 .. n + 1) \ {n + 1} = 1 .. n
  <2>1. IsFiniteSet(1 .. n + 1)
    BY FS_Interval
  <2> QED
    BY <2>1
<1>2. SumFunctionOnSet(f, 1 .. n + 1)
        = f[n + 1] + SumFunctionOnSet(f, (1 .. n + 1) \ {n + 1})
  BY <1>1, SumRemove
<1> QED
  BY <1>1, <1>2

\* The first index goes, and the others move down.
LEMMA SumFirst ==
  ASSUME NEW n \in Nat, NEW f, Ints(f, 1 .. n + 1), NEW g,
         \A k \in 1 .. n : g[k] = f[k + 1]
  PROVE  SumFunctionOnSet(f, 1 .. n + 1) = f[1] + SumFunctionOnSet(g, 1 .. n)
<1> DEFINE Shifts(k) ==
      SumFunctionOnSet(f, 1 .. k + 1) = f[1] + SumFunctionOnSet(g, 1 .. k)
           F == {k \in Nat : k <= n => Shifts(k)}
<1>1. 0 \in F
  <2>1. Ints(f, 1 .. 0 + 1)
    BY DEF Ints
  <2>2. SumFunctionOnSet(f, 1 .. 0 + 1) = f[0 + 1] + SumFunctionOnSet(f, 1 .. 0)
    BY <2>1, SumLast
  <2>3. 1 .. 0 = {} /\ 0 + 1 = 1
    OBVIOUS
  <2> QED
    BY <2>2, <2>3, SumEmpty
<1>2. ASSUME NEW k \in Nat, k \in F PROVE k + 1 \in F
  <2> SUFFICES ASSUME k + 1 <= n PROVE Shifts(k + 1)
    OBVIOUS
  <2>1. Ints(f, 1 .. (k + 1) + 1) /\ Ints(g, 1 .. k + 1) /\ Ints(g, 1 .. k)
    BY DEF Ints
  <2>2. SumFunctionOnSet(f, 1 .. (k + 1) + 1)
          = f[(k + 1) + 1] + SumFunctionOnSet(f, 1 .. k + 1)
    BY <2>1, SumLast
  <2>3. SumFunctionOnSet(g, 1 .. k + 1) = g[k + 1] + SumFunctionOnSet(g, 1 .. k)
    BY <2>1, SumLast
  <2>4. Shifts(k)
    BY <1>2
  <2>5. g[k + 1] = f[(k + 1) + 1] /\ g[k + 1] \in Int /\ f[1] \in Int
    BY DEF Ints
  <2>6. SumFunctionOnSet(g, 1 .. k) \in Int
    BY <2>1, SumType, FS_Interval
  <2> QED
    BY <2>2, <2>3, <2>4, <2>5, <2>6
<1>3. \A k \in Nat : k \in F
  <2> HIDE DEF F
  <2> QED
    BY <1>1, <1>2, NaturalInduction
<1>4. n \in F
  BY <1>3
<1> QED
  BY <1>4
=============================================================================
