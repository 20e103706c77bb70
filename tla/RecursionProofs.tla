-------------------------- MODULE RecursionProofs ---------------------------
(***************************************************************************)
(* Induction and recursion over a measure, for the operators of the        *)
(* models that are defined by recursion: the sums of voting powers and the *)
(* functions of the Merkle tree.                                           *)
(*                                                                         *)
(* A recursive function is a CHOOSE of a function that satisfies its       *)
(* defining equation.  RecursionExists says that there is one as soon as   *)
(* the body, a function of the argument and of the function being defined, *)
(* only looks at arguments of smaller measure.                             *)
(***************************************************************************)
EXTENDS Functions, FiniteSets, NaturalsInduction, FiniteSetTheorems, TLAPS

\* A set of naturals that holds every number all of whose predecessors it holds
\* is the set of all naturals.
LEMMA NatClosed ==
    ASSUME NEW X,
           \A n \in Nat : (\A k \in Nat : k < n => k \in X) => n \in X
    PROVE  Nat \subseteq X
<1> DEFINE B == Nat \ X
<1>1. SUFFICES ASSUME B # {} PROVE FALSE
  OBVIOUS
<1>2. PICK n \in B : \A k \in B : ~(<<k, n>> \in OpToRel(<, Nat))
  BY <1>1, NatLessThanWellFounded, WFMin
<1>3. \A k \in B : ~(k < n)
  BY Zenon, <1>2 DEF OpToRel
<1> QED
  BY <1>2, <1>3

\* X holds every element of S all of whose predecessors in the measure it holds.
Progressive(S, m, X) ==
    \A x \in S : (\A y \in S : m[y] < m[x] => y \in X) => x \in X

\* Such a set holds all of S.
LEMMA MeasureInduction ==
    ASSUME NEW S, NEW m \in [S -> Nat], NEW X, Progressive(S, m, X)
    PROVE  S \subseteq X
<1> DEFINE N == {n \in Nat : \A x \in S : m[x] = n => x \in X}
<1>1. ASSUME NEW n \in Nat, \A k \in Nat : k < n => k \in N
      PROVE  n \in N
  BY <1>1 DEF Progressive
<1>2. Nat \subseteq N
  <2> HIDE DEF N
  <2> QED BY <1>1, NatClosed
<1> QED
  BY <1>2

-----------------------------------------------------------------------------
(* Recursion *)

\* Def is the body of a recursive definition of a function from S to T: it only
\* looks at arguments of smaller measure.
RecursiveBody(S, T, m, Def) ==
    /\ m \in [S -> Nat]
    /\ Def \in [S -> [[S -> T] -> T]]
    /\ \E start : start \in [S -> T]
    /\ \A x \in S : \A g, h \in [S -> T] :
          (\A y \in S : m[y] < m[x] => g[y] = h[y]) => Def[x][g] = Def[x][h]

Solves(f, S, T, Def) ==
    f \in [S -> T] /\ \A x \in S : f[x] = Def[x][f]

\* A recursive definition has a solution.
LEMMA RecursionExists ==
    ASSUME NEW S, NEW T, NEW m, NEW Def, RecursiveBody(S, T, m, Def)
    PROVE  \E f : Solves(f, S, T, Def)
<1> m \in [S -> Nat] /\ Def \in [S -> [[S -> T] -> T]]
  BY Zenon DEF RecursiveBody
<1> PICK start : start \in [S -> T]
  BY DEF RecursiveBody
<1> DEFINE F == [S -> T]
           ok(g, n) == \A x \in S : m[x] < n => g[x] = Def[x][g]
<1>1. ASSUME NEW g \in F, NEW n \in Nat, ok(g, n)
      PROVE  \E h \in F : ok(h, n + 1)
  <2> DEFINE h == [x \in S |-> Def[x][g]]
  <2>1. h \in F
    OBVIOUS
  <2>2. \A x \in S : m[x] < n => h[x] = g[x]
    BY <1>1
  <2>3. ASSUME NEW x \in S, m[x] < n + 1
        PROVE  h[x] = Def[x][h]
    <3>1. \A y \in S : m[y] < m[x] => g[y] = h[y]
      BY <2>2, <2>3
    <3>2. Def[x][g] = Def[x][h]
      <4> HIDE DEF h
      <4> QED BY Zenon, <3>1, <2>1 DEF RecursiveBody
    <3> QED
      BY <3>2
  <2> QED
    <3> HIDE DEF h
    <3> QED BY <2>1, <2>3
<1>2. \A n \in Nat : \E g \in F : ok(g, n)
  <2> DEFINE N == {n \in Nat : \E g \in F : ok(g, n)}
  <2>1. ASSUME NEW n \in Nat, \A k \in Nat : k < n => k \in N
        PROVE  n \in N
    <3>1. CASE n = 0
      <4>1. ok(start, n)
        BY <3>1
      <4> QED
        BY <4>1
    <3>2. CASE n # 0
      <4>1. PICK k \in Nat : n = k + 1
        BY <3>2, n - 1 \in Nat
      <4>2. k \in N
        <5>1. k < n
          BY <4>1
        <5> HIDE DEF N
        <5> QED BY <5>1, <2>1
      <4>3. PICK g \in F : ok(g, k)
        BY <4>2
      <4>4. \E h \in F : ok(h, k + 1)
        <5> HIDE DEF ok, F
        <5> QED BY <4>1, <4>3, <1>1
      <4> QED
        BY <4>1, <4>4
    <3> QED
      BY <3>1, <3>2
  <2>2. Nat \subseteq N
    <3> HIDE DEF N
    <3> QED BY <2>1, NatClosed
  <2> QED
    BY <2>2
<1>3. ASSUME NEW g \in F, NEW h \in F, NEW n \in Nat, ok(g, n), ok(h, n),
             NEW z \in S, m[z] < n
      PROVE  g[z] = h[z]
  <2> DEFINE X == {x \in S : m[x] < n => g[x] = h[x]}
  <2>1. ASSUME NEW x \in S, \A y \in S : m[y] < m[x] => y \in X
        PROVE  x \in X
    <3>1. SUFFICES ASSUME m[x] < n PROVE g[x] = h[x]
      OBVIOUS
    <3>2. \A y \in S : m[y] < m[x] => g[y] = h[y]
      BY <3>1, <2>1
    <3>3. Def[x][g] = Def[x][h]
      BY Zenon, <3>2 DEF RecursiveBody
    <3> QED
      BY <3>1, <3>3, <1>3
  <2>2. S \subseteq X
    <3> HIDE DEF X
    <3>1. Progressive(S, m, X)
      BY <2>1 DEF Progressive
    <3> QED BY <3>1, MeasureInduction
  <2> QED
    BY <2>2, <1>3
<1> DEFINE G == [n \in Nat |-> CHOOSE g \in F : ok(g, n)]
           f == [x \in S |-> G[m[x] + 1][x]]
<1>4. \A n \in Nat : G[n] \in F /\ ok(G[n], n)
  <2> SUFFICES ASSUME NEW n \in Nat PROVE G[n] \in F /\ ok(G[n], n)
    OBVIOUS
  <2>1. \E g \in F : ok(g, n)
    BY <1>2
  <2> HIDE DEF F, ok
  <2> QED
    BY <2>1
<1> HIDE DEF G
<1>5. f \in F
  BY <1>4
<1>6. ASSUME NEW x \in S
      PROVE  f[x] = Def[x][f]
  <2>1. G[m[x] + 1] \in F /\ ok(G[m[x] + 1], m[x] + 1)
    BY <1>4
  <2>2. f[x] = Def[x][G[m[x] + 1]]
    BY <2>1
  <2>3. ASSUME NEW y \in S, m[y] < m[x]
        PROVE  f[y] = G[m[x] + 1][y]
    <3>1. G[m[y] + 1] \in F /\ ok(G[m[y] + 1], m[y] + 1)
      BY <1>4
    <3>2. ok(G[m[x] + 1], m[y] + 1)
      BY <2>1, <2>3
    <3>3. m[y] + 1 \in Nat /\ m[y] < m[y] + 1
      OBVIOUS
    <3>4. G[m[y] + 1][y] = G[m[x] + 1][y]
      <4> HIDE DEF ok, F, f
      <4> QED BY <3>1, <3>2, <3>3, <2>1, <1>3
    <3> QED
      BY <3>4
  <2>4. Def[x][f] = Def[x][G[m[x] + 1]]
    <3> HIDE DEF f
    <3> QED BY Zenon, <2>3, <2>1, <1>5 DEF RecursiveBody
  <2> QED
    <3> HIDE DEF f
    <3> QED BY <2>2, <2>4
<1> QED
  <2> HIDE DEF f
  <2> QED BY <1>5, <1>6 DEF Solves

-----------------------------------------------------------------------------
(* Sums of a function over a finite set *)

\* The element that the fold of the library takes first.
anyOf(s) == CHOOSE x \in s : TRUE

\* The equation of the fold behind SumFunctionOnSet.
IsSum(g, f, S) ==
    g = [s \in SUBSET S |-> IF s = {} THEN 0 ELSE f[anyOf(s)] + g[s \ {anyOf(s)}]]

LEMMA AnyOf ==
    ASSUME NEW s, s # {}
    PROVE  anyOf(s) \in s
BY DEF anyOf

LEMMA SumUnfold ==
    ASSUME NEW f, NEW S
    PROVE  SumFunctionOnSet(f, S) = (CHOOSE g : IsSum(g, f, S))[S]
BY DEF SumFunctionOnSet, FoldFunctionOnSet, MapThenFoldSet, IsSum, anyOf

\* The subsets of a finite set, measured by their size.
LEMMA SubsetSizes ==
    ASSUME NEW S, IsFiniteSet(S)
    PROVE  /\ [s \in SUBSET S |-> Cardinality(s)] \in [SUBSET S -> Nat]
           /\ \A s \in SUBSET S : /\ IsFiniteSet(s)
                                  /\ Cardinality(s) \in Nat
                                  /\ \A x \in s : /\ s \ {x} \in SUBSET S
                                                  /\ Cardinality(s \ {x}) < Cardinality(s)
                                                  /\ Cardinality(s) = Cardinality(s \ {x}) + 1
<1>1. \A s \in SUBSET S : IsFiniteSet(s) /\ Cardinality(s) \in Nat
  BY FS_Subset, FS_CardinalityType
<1>2. ASSUME NEW s \in SUBSET S, NEW x \in s
      PROVE  /\ s \ {x} \in SUBSET S
             /\ Cardinality(s \ {x}) < Cardinality(s)
             /\ Cardinality(s) = Cardinality(s \ {x}) + 1
  <2>1. Cardinality(s \ {x}) = Cardinality(s) - 1
    BY <1>1, FS_RemoveElement
  <2> QED
    BY <1>1, <2>1
<1> QED
  BY <1>1, <1>2

\* Induction over the subsets of a finite set, one element at a time.
LEMMA SubsetInduction ==
    ASSUME NEW S, IsFiniteSet(S), NEW X,
           \A s \in SUBSET S : (\A x \in s : s \ {x} \in X) => s \in X
    PROVE  SUBSET S \subseteq X
<1> DEFINE size == [s \in SUBSET S |-> Cardinality(s)]
<1>1. size \in [SUBSET S -> Nat]
  BY SubsetSizes
<1>2. ASSUME NEW s \in SUBSET S, \A t \in SUBSET S : size[t] < size[s] => t \in X
      PROVE  s \in X
  <2>1. \A x \in s : s \ {x} \in SUBSET S /\ size[s \ {x}] < size[s]
    BY SubsetSizes
  <2> QED
    BY Zenon, <1>2, <2>1
<1>3. Progressive(SUBSET S, size, X)
  <2> HIDE DEF size
  <2> QED BY <1>2 DEF Progressive
<1> QED
  <2> HIDE DEF size
  <2> QED BY <1>1, <1>3, MeasureInduction

LEMMA SumExists ==
    ASSUME NEW I, NEW f \in [I -> Nat], NEW S \in SUBSET I, IsFiniteSet(S)
    PROVE  \E g : IsSum(g, f, S)
<1> DEFINE D == SUBSET S
           size == [s \in D |-> Cardinality(s)]
           body(s, g) == IF s = {} THEN 0 ELSE f[anyOf(s)] + g[s \ {anyOf(s)}]
           Def == [s \in D |-> [g \in [D -> Nat] |-> body(s, g)]]
           start == [s \in D |-> 0]
<1>1. size \in [D -> Nat]
  BY SubsetSizes
<1>2. ASSUME NEW s \in D, s # {}
      PROVE  anyOf(s) \in S /\ s \ {anyOf(s)} \in D /\ size[s \ {anyOf(s)}] < size[s]
  BY <1>2, AnyOf, SubsetSizes
<1>3. \A s \in D, g \in [D -> Nat] : body(s, g) \in Nat
  <2> SUFFICES ASSUME NEW s \in D, NEW g \in [D -> Nat] PROVE body(s, g) \in Nat
    BY Zenon
  <2>1. s # {} => anyOf(s) \in I /\ s \ {anyOf(s)} \in D
    BY Zenon, <1>2
  <2> HIDE DEF D
  <2> QED BY <2>1
<1>4. Def \in [D -> [[D -> Nat] -> Nat]]
  <2> HIDE DEF body, D
  <2> QED BY <1>3
<1>5. ASSUME NEW s \in D, NEW g \in [D -> Nat], NEW h \in [D -> Nat],
             \A t \in D : size[t] < size[s] => g[t] = h[t]
      PROVE  Def[s][g] = Def[s][h]
  <2>1. body(s, g) = body(s, h)
    <3> HIDE DEF size
    <3> QED BY Zenon, <1>2, <1>5
  <2> HIDE DEF body, D
  <2> QED
    BY <2>1
<1>6. start \in [D -> Nat]
  OBVIOUS
<1>7. PICK g \in [D -> Nat] : \A s \in D : g[s] = Def[s][g]
  <2> HIDE DEF D, size, Def, start
  <2>1. RecursiveBody(D, Nat, size, Def)
    BY Zenon, <1>1, <1>4, <1>5, <1>6 DEF RecursiveBody
  <2>2. \E g : Solves(g, D, Nat, Def)
    BY <2>1, RecursionExists
  <2> QED
    BY <2>2 DEF Solves
<1>8. \A s \in D : g[s] = body(s, g)
  <2> HIDE DEF body, D
  <2> QED BY <1>7
<1>9. g = [s \in D |-> body(s, g)]
  <2> HIDE DEF body, D
  <2> QED BY <1>8
<1> QED
  BY Zenon, <1>9 DEF IsSum

\* Two solutions, for a set and for a larger one, agree on the smaller set.
LEMMA SumAgree ==
    ASSUME NEW f, NEW R, NEW S \in SUBSET R, IsFiniteSet(S), NEW g, NEW h,
           IsSum(g, f, S), IsSum(h, f, R)
    PROVE  \A s \in SUBSET S : g[s] = h[s]
<1> DEFINE X == {s \in SUBSET S : g[s] = h[s]}
<1>1. ASSUME NEW s \in SUBSET S, \A x \in s : s \ {x} \in X
      PROVE  s \in X
  <2>1. s \in SUBSET R
    OBVIOUS
  <2>2. /\ g[s] = IF s = {} THEN 0 ELSE f[anyOf(s)] + g[s \ {anyOf(s)}]
        /\ h[s] = IF s = {} THEN 0 ELSE f[anyOf(s)] + h[s \ {anyOf(s)}]
    BY <2>1, Zenon DEF IsSum
  <2>3. s # {} => g[s \ {anyOf(s)}] = h[s \ {anyOf(s)}]
    BY <1>1, AnyOf
  <2>4. g[s] = h[s]
    BY <2>2, <2>3, Zenon
  <2> QED
    BY <2>4
<1>2. SUBSET S \subseteq X
  <2> HIDE DEF X
  <2> QED BY Zenon, <1>1, SubsetInduction
<1> QED
  BY <1>2

\* The sum of a finite set follows the recursion.
LEMMA SumRecursion ==
    ASSUME NEW I, NEW f \in [I -> Nat], NEW S \in SUBSET I, IsFiniteSet(S)
    PROVE  /\ SumFunctionOnSet(f, {}) = 0
           /\ S # {} => SumFunctionOnSet(f, S) =
                            f[anyOf(S)] + SumFunctionOnSet(f, S \ {anyOf(S)})
<1>1. ASSUME NEW R \in SUBSET I, IsFiniteSet(R)
      PROVE  IsSum(CHOOSE g : IsSum(g, f, R), f, R)
  BY <1>1, SumExists, Zenon
<1>2. SumFunctionOnSet(f, {}) = 0
  <2>1. {} \in SUBSET I /\ IsFiniteSet({})
    BY FS_EmptySet
  <2> DEFINE g == CHOOSE g : IsSum(g, f, {})
  <2>2. IsSum(g, f, {})
    BY <1>1, <2>1
  <2> HIDE DEF g
  <2>3. g[{}] = 0
    BY <2>2 DEF IsSum
  <2> QED
    BY <2>3, SumUnfold DEF g
<1>3. ASSUME S # {}
      PROVE  SumFunctionOnSet(f, S) = f[anyOf(S)] + SumFunctionOnSet(f, S \ {anyOf(S)})
  <2> DEFINE T == S \ {anyOf(S)}
             g == CHOOSE g : IsSum(g, f, S)
             h == CHOOSE h : IsSum(h, f, T)
  <2>1. T \in SUBSET S /\ IsFiniteSet(T)
    BY FS_Subset
  <2>2. IsSum(g, f, S) /\ IsSum(h, f, T)
    BY <1>1, <2>1
  <2>3. SumFunctionOnSet(f, S) = g[S] /\ SumFunctionOnSet(f, T) = h[T]
    BY SumUnfold
  <2>4. g[S] = f[anyOf(S)] + g[T]
    <3> HIDE DEF g
    <3> QED BY Zenon, <1>3, <2>2 DEF IsSum
  <2>5. h[T] = g[T]
    <3> HIDE DEF g, h, T
    <3> QED BY <2>1, <2>2, SumAgree
  <2> QED
    <3> HIDE DEF g, h, T
    <3>1. SumFunctionOnSet(f, S) = f[anyOf(S)] + SumFunctionOnSet(f, T)
      BY <2>3, <2>4, <2>5
    <3> QED BY <3>1 DEF T
<1> QED
  BY <1>2, <1>3

\* A sum of naturals is a natural.
LEMMA SumNat ==
    ASSUME NEW I, NEW f \in [I -> Nat], NEW S \in SUBSET I, IsFiniteSet(S)
    PROVE  SumFunctionOnSet(f, S) \in Nat
<1> DEFINE X == {s \in SUBSET S : SumFunctionOnSet(f, s) \in Nat}
<1>1. ASSUME NEW s \in SUBSET S, \A x \in s : s \ {x} \in X
      PROVE  s \in X
  <2>1. s \in SUBSET I /\ IsFiniteSet(s)
    BY FS_Subset
  <2>2. CASE s = {}
    <3>1. SumFunctionOnSet(f, {}) = 0
      BY Zenon, SumRecursion
    <3> QED
      BY <2>2, <3>1
  <2>3. CASE s # {}
    <3>1. anyOf(s) \in s
      BY <2>3, AnyOf
    <3>2. SumFunctionOnSet(f, s \ {anyOf(s)}) \in Nat /\ f[anyOf(s)] \in Nat
      BY <3>1, <1>1
    <3>3. SumFunctionOnSet(f, s) = f[anyOf(s)] + SumFunctionOnSet(f, s \ {anyOf(s)})
      BY <2>1, <2>3, SumRecursion
    <3> QED
      BY <3>2, <3>3
  <2> QED
    BY <2>2, <2>3
<1>2. SUBSET S \subseteq X
  <2> HIDE DEF X
  <2> QED BY Zenon, <1>1, SubsetInduction
<1> QED
  BY <1>2

\* Any element of the set may be taken first.
LEMMA SumRemove ==
    ASSUME NEW I, NEW f \in [I -> Nat], NEW S \in SUBSET I, IsFiniteSet(S), NEW x \in S
    PROVE  SumFunctionOnSet(f, S) = f[x] + SumFunctionOnSet(f, S \ {x})
<1> DEFINE sum(s) == SumFunctionOnSet(f, s)
           X == {s \in SUBSET S : \A y \in s : sum(s) = f[y] + sum(s \ {y})}
<1>1. ASSUME NEW s \in SUBSET S, \A y \in s : s \ {y} \in X
      PROVE  s \in X
  <2>1. SUFFICES ASSUME NEW y \in s PROVE sum(s) = f[y] + sum(s \ {y})
    OBVIOUS
  <2> DEFINE a == anyOf(s)
  <2>2. /\ s \in SUBSET I /\ IsFiniteSet(s) /\ a \in s
        /\ \A t \in SUBSET s : sum(t) \in Nat
    BY FS_Subset, AnyOf, SumNat
  <2>3. sum(s) = f[a] + sum(s \ {a})
    BY <2>1, <2>2, SumRecursion
  <2>4. CASE y = a
    BY <2>3, <2>4
  <2>5. CASE y # a
    <3> HIDE DEF a
    <3>1. sum(s \ {a}) = f[y] + sum((s \ {a}) \ {y})
      BY <1>1, <2>2, <2>5
    <3>2. sum(s \ {y}) = f[a] + sum((s \ {y}) \ {a})
      BY <1>1, <2>2, <2>5
    <3>3. (s \ {a}) \ {y} = (s \ {y}) \ {a}
      OBVIOUS
    <3> DEFINE rest == sum((s \ {y}) \ {a})
               one == sum(s \ {y})
    <3>4. f[a] \in Nat /\ f[y] \in Nat /\ rest \in Nat
      BY <2>2
    <3>5. sum(s) = f[a] + (f[y] + rest) /\ one = f[a] + rest
      BY <2>3, <3>1, <3>2, <3>3, Zenon
    <3> QED
      <4> HIDE DEF sum, rest
      <4>1. sum(s) = f[y] + one
        <5> HIDE DEF one
        <5> QED BY <3>4, <3>5
      <4> QED BY <4>1
  <2> QED
    BY <2>4, <2>5
<1>2. SUBSET S \subseteq X
  <2> HIDE DEF X
  <2> QED BY Zenon, <1>1, SubsetInduction
<1> QED
  BY <1>2

\* The sum over a union of two disjoint sets.
LEMMA SumUnion ==
    ASSUME NEW I, NEW f \in [I -> Nat], NEW A \in SUBSET I, IsFiniteSet(A),
           NEW B \in SUBSET I, IsFiniteSet(B), A \cap B = {}
    PROVE  SumFunctionOnSet(f, A \cup B) = SumFunctionOnSet(f, A) + SumFunctionOnSet(f, B)
<1> DEFINE sum(s) == SumFunctionOnSet(f, s)
           X == {s \in SUBSET A : sum(s \cup B) = sum(s) + sum(B)}
<1>1. ASSUME NEW s \in SUBSET A, \A y \in s : s \ {y} \in X
      PROVE  s \in X
  <2>1. /\ s \in SUBSET I /\ IsFiniteSet(s)
        /\ s \cup B \in SUBSET I /\ IsFiniteSet(s \cup B)
    BY Zenon, FS_Subset, FS_Union
  <2>2. sum(B) \in Nat /\ \A t \in SUBSET s : sum(t) \in Nat
    BY <2>1, FS_Subset, SumNat
  <2>3. CASE s = {}
    <3>1. sum({}) = 0 /\ s \cup B = B
      BY Zenon, <2>1, <2>3, SumRecursion
    <3> QED
      <4> HIDE DEF sum
      <4> QED BY <2>2, <2>3, <3>1
  <2>4. CASE s # {}
    <3>1. PICK x \in s : TRUE
      BY <2>4
    <3>2. (s \cup B) \ {x} = (s \ {x}) \cup B
      BY <3>1
    <3>3. sum((s \ {x}) \cup B) = sum(s \ {x}) + sum(B)
      BY <1>1
    <3>4. sum(s) = f[x] + sum(s \ {x})
      BY <2>1, SumRemove
    <3>5. sum(s \cup B) = f[x] + sum((s \cup B) \ {x})
      BY <2>1, SumRemove
    <3> DEFINE rest == sum(s \ {x})
    <3>6. f[x] \in Nat /\ rest \in Nat
      BY <2>2
    <3>7. sum(s) = f[x] + rest /\ sum(s \cup B) = f[x] + (rest + sum(B))
      BY <3>2, <3>3, <3>4, <3>5, Zenon
    <3>8. sum(s \cup B) = sum(s) + sum(B)
      <4> HIDE DEF sum, rest
      <4> QED BY <2>2, <3>6, <3>7
    <3> QED
      BY <3>8
  <2> QED
    BY <2>3, <2>4
<1>2. SUBSET A \subseteq X
  <2> HIDE DEF X
  <2> QED BY Zenon, <1>1, SubsetInduction
<1> QED
  BY <1>2

\* The sum over a part is at most the sum over the whole.
LEMMA SumMonotone ==
    ASSUME NEW I, IsFiniteSet(I), NEW f \in [I -> Nat], NEW P \in SUBSET I
    PROVE  /\ SumFunctionOnSet(f, P) \in Nat
           /\ SumFunctionOnSet(f, I) \in Nat
           /\ SumFunctionOnSet(f, P) =< SumFunctionOnSet(f, I)
<1> DEFINE p == SumFunctionOnSet(f, P)
           r == SumFunctionOnSet(f, I \ P)
           t == SumFunctionOnSet(f, I)
<1>1. /\ I \ P \in SUBSET I /\ I \in SUBSET I
      /\ IsFiniteSet(I \ P) /\ IsFiniteSet(P)
      /\ P \cap (I \ P) = {} /\ I = P \cup (I \ P)
  BY FS_Subset
<1>2. p \in Nat /\ r \in Nat /\ t \in Nat
  BY <1>1, SumNat
<1>3. SumFunctionOnSet(f, P \cup (I \ P)) = p + r
  BY <1>1, SumUnion
<1>4. t = p + r
  BY <1>1, <1>3, Zenon
<1> HIDE DEF p, r, t
<1>5. p =< t
  BY <1>2, <1>4
<1> QED
  BY <1>2, <1>5 DEF p, t

\* A sum of equal terms, and a sum of bounded terms.
LEMMA SumConstant ==
    ASSUME NEW I, NEW f \in [I -> Nat], NEW S \in SUBSET I, IsFiniteSet(S), NEW w \in Nat
    PROVE  /\ (\A x \in S : f[x] = w) => SumFunctionOnSet(f, S) = w * Cardinality(S)
           /\ (\A x \in S : f[x] =< w) => SumFunctionOnSet(f, S) =< w * Cardinality(S)
<1> DEFINE sum(s) == SumFunctionOnSet(f, s)
           X == {s \in SUBSET S :
                     /\ (\A x \in S : f[x] = w) => sum(s) = w * Cardinality(s)
                     /\ (\A x \in S : f[x] =< w) => sum(s) =< w * Cardinality(s)}
<1>1. ASSUME NEW s \in SUBSET S, \A y \in s : s \ {y} \in X
      PROVE  s \in X
  <2>1. s \in SUBSET I /\ IsFiniteSet(s)
    BY FS_Subset
  <2>2. CASE s = {}
    <3>1. sum({}) = 0 /\ Cardinality({}) = 0
      BY Zenon, SumRecursion, FS_EmptySet
    <3> QED
      <4> HIDE DEF sum
      <4> QED BY <2>2, <3>1
  <2>3. CASE s # {}
    <3>1. PICK x \in s : TRUE
      BY <2>3
    <3> DEFINE rest == sum(s \ {x})
               n == Cardinality(s \ {x})
    <3>2. /\ (\A y \in S : f[y] = w) => rest = w * n
          /\ (\A y \in S : f[y] =< w) => rest =< w * n
      BY <1>1
    <3>3. sum(s) = f[x] + rest
      BY <2>1, SumRemove
    <3>4. Cardinality(s) = n + 1 /\ n \in Nat
      BY SubsetSizes
    <3>5. rest \in Nat /\ f[x] \in Nat
      BY <2>1, FS_Subset, SumNat
    <3>6. w * (n + 1) = w * n + w /\ w * n \in Nat
      <4> HIDE DEF n
      <4> QED BY <3>4
    <3> DEFINE p == w * n
    <3>7. /\ (\A y \in S : f[y] = w) => sum(s) = p + w
          /\ (\A y \in S : f[y] =< w) => sum(s) =< p + w
      <4>1. p \in Nat /\ /\ (\A y \in S : f[y] = w) => rest = p
                         /\ (\A y \in S : f[y] =< w) => rest =< p
        BY <3>2, <3>6
      <4> HIDE DEF sum, rest, p
      <4> QED BY <3>3, <3>5, <4>1
    <3>8. w * Cardinality(s) = p + w
      BY <3>4, <3>6
    <3> QED
      <4> HIDE DEF sum, p
      <4> QED BY <3>7, <3>8
  <2> QED
    BY <2>2, <2>3
<1>2. SUBSET S \subseteq X
  <2> HIDE DEF X
  <2> QED BY Zenon, <1>1, SubsetInduction
<1> QED
  BY <1>2

\* Inclusion and exclusion: P and Q together weigh what their union and their
\* intersection do, and the union no more than the whole.
LEMMA SumOverlap ==
    ASSUME NEW I, IsFiniteSet(I), NEW f \in [I -> Nat], NEW P \in SUBSET I, NEW Q \in SUBSET I
    PROVE  /\ SumFunctionOnSet(f, I) \in Nat
           /\ SumFunctionOnSet(f, P) \in Nat
           /\ SumFunctionOnSet(f, Q) \in Nat
           /\ SumFunctionOnSet(f, P \cap Q) \in Nat
           /\ SumFunctionOnSet(f, P) + SumFunctionOnSet(f, Q) =<
                  SumFunctionOnSet(f, I) + SumFunctionOnSet(f, P \cap Q)
<1> DEFINE sum(s) == SumFunctionOnSet(f, s)
<1>1. \A s \in SUBSET I : IsFiniteSet(s) /\ sum(s) \in Nat
  BY FS_Subset, SumNat
<1>2. ASSUME NEW A \in SUBSET I, NEW B \in SUBSET I, A \cap B = {}
      PROVE  sum(A \cup B) = sum(A) + sum(B)
  BY <1>1, <1>2, SumUnion
<1>3. /\ P \ Q \in SUBSET I /\ P \cap Q \in SUBSET I /\ P \cup Q \in SUBSET I
      /\ I \ (P \cup Q) \in SUBSET I /\ I \in SUBSET I
      /\ (P \ Q) \cap (P \cap Q) = {} /\ (P \ Q) \cap Q = {}
      /\ (P \cup Q) \cap (I \ (P \cup Q)) = {}
  OBVIOUS
<1>4. P = (P \ Q) \cup (P \cap Q) /\ P \cup Q = (P \ Q) \cup Q
      /\ I = (P \cup Q) \cup (I \ (P \cup Q))
  OBVIOUS
<1> HIDE DEF sum
<1>5. /\ sum(P) = sum(P \ Q) + sum(P \cap Q)
      /\ sum(P \cup Q) = sum(P \ Q) + sum(Q)
      /\ sum(I) = sum(P \cup Q) + sum(I \ (P \cup Q))
  BY <1>2, <1>3, <1>4, Zenon
<1>6. /\ sum(P \ Q) \in Nat /\ sum(P \cap Q) \in Nat /\ sum(P) \in Nat /\ sum(Q) \in Nat
      /\ sum(P \cup Q) \in Nat /\ sum(I) \in Nat /\ sum(I \ (P \cup Q)) \in Nat
  BY <1>1, <1>3, Zenon
<1>7. sum(P) + sum(Q) =< sum(I) + sum(P \cap Q)
  BY <1>5, <1>6
<1> QED
  BY <1>6, <1>7 DEF sum

-----------------------------------------------------------------------------
(* Two thirds of a sum, in the arithmetic of a word *)

LEMMA SmallRemainder ==
    ASSUME NEW n \in Nat, NEW w \in Nat, n < w
    PROVE  n % w = n
OBVIOUS

\* The comparison of superMajority is exact when three times the total fits the
\* word.
LEMMA WordMajority ==
    ASSUME NEW I, IsFiniteSet(I), NEW f \in [I -> Nat], NEW P \in SUBSET I, NEW w \in Nat,
           SumFunctionOnSet(f, I) * 3 < w
    PROVE  ((SumFunctionOnSet(f, P) % w) * 3) % w > ((SumFunctionOnSet(f, I) % w) * 2) % w
               <=> SumFunctionOnSet(f, P) * 3 > SumFunctionOnSet(f, I) * 2
<1> DEFINE p == SumFunctionOnSet(f, P)
           t == SumFunctionOnSet(f, I)
<1>1. p \in Nat /\ t \in Nat /\ p =< t
  BY SumMonotone
<1> HIDE DEF p, t
<1>2. t * 3 < w
  BY DEF t
<1>3. p % w = p /\ t % w = t /\ (p * 3) % w = p * 3 /\ (t * 2) % w = t * 2
  <2>1. p < w /\ t < w /\ p * 3 < w /\ t * 2 < w
    BY <1>1, <1>2
  <2>2. p * 3 \in Nat /\ t * 2 \in Nat
    BY <1>1
  <2> QED
    BY <1>1, <2>1, <2>2, SmallRemainder
<1>4. ((p % w) * 3) % w > ((t % w) * 2) % w <=> p * 3 > t * 2
  BY <1>3
<1> QED
  BY <1>4 DEF p, t

\* Two sets that hold more than two thirds of the total share some of it.
LEMMA ThirdsOverlap ==
    ASSUME NEW I, IsFiniteSet(I), NEW f \in [I -> Nat], NEW P \in SUBSET I, NEW Q \in SUBSET I,
           SumFunctionOnSet(f, P) * 3 > SumFunctionOnSet(f, I) * 2,
           SumFunctionOnSet(f, Q) * 3 > SumFunctionOnSet(f, I) * 2
    PROVE  SumFunctionOnSet(f, P \cap Q) > 0
<1> DEFINE p == SumFunctionOnSet(f, P)
           q == SumFunctionOnSet(f, Q)
           t == SumFunctionOnSet(f, I)
           both == SumFunctionOnSet(f, P \cap Q)
<1>1. p \in Nat /\ q \in Nat /\ t \in Nat /\ both \in Nat /\ p + q =< t + both
  BY SumOverlap
<1>2. p * 3 > t * 2 /\ q * 3 > t * 2
  OBVIOUS
<1> HIDE DEF p, q, t, both
<1>3. both > 0
  BY <1>1, <1>2
<1> QED
  BY <1>3 DEF both

=============================================================================
