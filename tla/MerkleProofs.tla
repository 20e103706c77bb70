---------------------------- MODULE MerkleProofs ----------------------------
(***************************************************************************)
(* Proofs about MerkleTree, for any leaves and lists of any length: the    *)
(* root binds the list, the proofs that are accepted are the true paths of *)
(* its leaves, and those that are generated are such in small trees only.  *)
(***************************************************************************)
EXTENDS MerkleTree, RecursionProofs

-----------------------------------------------------------------------------
(* Powers of two *)

pow2Body(k, f) == IF k = 0 THEN 1 ELSE 2 * f[k - 1]

LEMMA Pow2Def == pow2 = [k \in Nat |-> pow2Body(k, pow2)]
<1> DEFINE m == [k \in Nat |-> k]
           Def == [k \in Nat |-> [g \in [Nat -> Nat] |-> pow2Body(k, g)]]
           start == [k \in Nat |-> 0]
<1>1. m \in [Nat -> Nat] /\ start \in [Nat -> Nat]
  BY Zenon
<1>2. \A k \in Nat, g \in [Nat -> Nat] : pow2Body(k, g) \in Nat
  BY DEF pow2Body
<1>3. Def \in [Nat -> [[Nat -> Nat] -> Nat]]
  BY Zenon, <1>2
<1>4. ASSUME NEW k \in Nat, NEW g \in [Nat -> Nat], NEW h \in [Nat -> Nat],
             \A j \in Nat : m[j] < m[k] => g[j] = h[j]
      PROVE  Def[k][g] = Def[k][h]
  <2>1. k # 0 => g[k - 1] = h[k - 1]
    BY <1>4
  <2>2. pow2Body(k, g) = pow2Body(k, h)
    BY Zenon, <2>1 DEF pow2Body
  <2> QED
    BY Zenon, <2>2
<1>5. PICK g : Solves(g, Nat, Nat, Def)
  <2> HIDE DEF m, Def, start
  <2>1. RecursiveBody(Nat, Nat, m, Def)
    BY Zenon, <1>1, <1>3, <1>4 DEF RecursiveBody
  <2> QED
    BY Zenon, <2>1, RecursionExists
<1>6. g = [k \in Nat |-> pow2Body(k, g)]
  <2>1. g \in [Nat -> Nat] /\ \A k \in Nat : g[k] = Def[k][g]
    BY <1>5, Zenon DEF Solves
  <2>2. \A k \in Nat : g[k] = pow2Body(k, g)
    BY Zenon, <2>1
  <2> QED
    BY Zenon, <2>1, <2>2
<1>7. pow2 = CHOOSE f : f = [k \in Nat |-> pow2Body(k, f)]
  BY Zenon DEF pow2, pow2Body
<1> QED
  BY <1>6, <1>7, Zenon

LEMMA Pow2Step ==
    /\ pow2[0] = 1
    /\ \A k \in Nat : pow2[k + 1] = 2 * pow2[k]
<1>1. \A k \in Nat : pow2[k] = pow2Body(k, pow2)
  BY Pow2Def, Zenon
<1>2. pow2[0] = 1
  BY Zenon, <1>1 DEF pow2Body
<1>3. ASSUME NEW k \in Nat PROVE pow2[k + 1] = 2 * pow2[k]
  <2>1. k + 1 \in Nat /\ k + 1 # 0 /\ (k + 1) - 1 = k
    OBVIOUS
  <2>2. pow2[k + 1] = pow2Body(k + 1, pow2)
    BY Zenon, <1>1, <2>1
  <2> QED
    BY Zenon, <2>1, <2>2 DEF pow2Body
<1> QED
  BY Zenon, <1>2, <1>3

\* A power of two is a positive natural above its exponent.
LEMMA Pow2Nat == \A k \in Nat : pow2[k] \in Nat /\ pow2[k] > k
<1> DEFINE X == {k \in Nat : pow2[k] \in Nat /\ pow2[k] > k}
<1>1. ASSUME NEW k \in Nat, \A j \in Nat : j < k => j \in X
      PROVE  k \in X
  <2>1. CASE k = 0
    BY <2>1, Pow2Step
  <2>2. CASE k # 0
    <3>1. PICK j \in Nat : k = j + 1
      BY <2>2, k - 1 \in Nat
    <3>2. pow2[j] \in Nat /\ pow2[j] > j
      BY <1>1, <3>1
    <3>3. pow2[k] = 2 * pow2[j]
      BY Zenon, <3>1, Pow2Step
    <3> QED
      BY <3>1, <3>2, <3>3
  <2> QED
    BY Zenon, <2>1, <2>2
<1>2. Nat \subseteq X
  <2> HIDE DEF X
  <2> QED BY Zenon, <1>1, NatClosed
<1> QED
  BY Zenon, <1>2

\* A larger exponent, a larger power.
LEMMA Pow2Grows ==
    ASSUME NEW j \in Nat, NEW k \in Nat, j < k
    PROVE  2 * pow2[j] =< pow2[k]
<1> DEFINE X == {n \in Nat : j < n => 2 * pow2[j] =< pow2[n]}
<1>1. ASSUME NEW n \in Nat, \A i \in Nat : i < n => i \in X
      PROVE  n \in X
  <2> SUFFICES ASSUME j < n PROVE 2 * pow2[j] =< pow2[n]
    BY Zenon
  <2>1. PICK i \in Nat : n = i + 1
    BY n - 1 \in Nat
  <2>2. pow2[n] = 2 * pow2[i] /\ pow2[i] \in Nat /\ pow2[j] \in Nat
    BY Zenon, <2>1, Pow2Step, Pow2Nat
  <2>3. j < i => 2 * pow2[j] =< pow2[i]
    BY <1>1, <2>1
  <2>4. j < i \/ j = i
    BY <2>1
  <2> QED
    BY <2>2, <2>3, <2>4
<1>2. Nat \subseteq X
  <2> HIDE DEF X
  <2> QED BY Zenon, <1>1, NatClosed
<1> QED
  BY Zenon, <1>2

LEMMA Log2 ==
    ASSUME NEW k \in Nat
    PROVE  log2(pow2[k]) = k
<1>1. k \in 0 .. pow2[k]
  BY Pow2Nat
<1>2. ASSUME NEW j \in Nat, pow2[j] = pow2[k] PROVE j = k
  <2>1. pow2[j] \in Nat /\ pow2[k] \in Nat /\ pow2[j] > 0
    BY Pow2Nat
  <2>2. j < k => FALSE
    BY <1>2, <2>1, Pow2Grows
  <2>3. k < j => FALSE
    BY <1>2, <2>1, Pow2Grows
  <2> QED
    BY <2>2, <2>3
<1>3. \A j \in 0 .. pow2[k] : j \in Nat
  BY Pow2Nat
<1>4. \E j \in 0 .. pow2[k] : pow2[j] = pow2[k]
  BY Zenon, <1>1
<1> QED
  BY Zenon, <1>2, <1>3, <1>4 DEF log2

-----------------------------------------------------------------------------
(* next_power_of_two *)

doubledBody(n, p, f) == IF p < n THEN f[2 * p] ELSE p

IsDoubled(n, d) == d = [p \in 1 .. 2 * n |-> doubledBody(n, p, d)]

LEMMA DoubledExists ==
    ASSUME NEW n \in Nat
    PROVE  \E d : IsDoubled(n, d)
<1> DEFINE D == 1 .. 2 * n
           m == [p \in D |-> 2 * n - p]
           Def == [p \in D |-> [g \in [D -> Nat] |-> doubledBody(n, p, g)]]
           start == [p \in D |-> 0]
<1>1. m \in [D -> Nat] /\ start \in [D -> Nat]
  OBVIOUS
<1>2. \A p \in D : p \in Nat /\ (p < n => 2 * p \in D /\ m[2 * p] < m[p])
  OBVIOUS
<1>3. ASSUME NEW p \in D, NEW g \in [D -> Nat]
      PROVE  doubledBody(n, p, g) \in Nat
  <2> HIDE DEF D, m
  <2> QED BY Zenon, <1>2 DEF doubledBody
<1>4. Def \in [D -> [[D -> Nat] -> Nat]]
  <2> HIDE DEF D
  <2> QED BY Zenon, <1>3
<1>5. ASSUME NEW p \in D, NEW g \in [D -> Nat], NEW h \in [D -> Nat],
             \A q \in D : m[q] < m[p] => g[q] = h[q]
      PROVE  Def[p][g] = Def[p][h]
  <2> HIDE DEF D
  <2>1. doubledBody(n, p, g) = doubledBody(n, p, h)
    <3> HIDE DEF m
    <3> QED BY Zenon, <1>2, <1>5 DEF doubledBody
  <2> QED
    BY Zenon, <2>1
<1>6. PICK g : Solves(g, D, Nat, Def)
  <2> HIDE DEF D, m, Def, start
  <2>1. RecursiveBody(D, Nat, m, Def)
    BY Zenon, <1>1, <1>4, <1>5 DEF RecursiveBody
  <2> QED
    BY Zenon, <2>1, RecursionExists
<1>7. g = [p \in D |-> doubledBody(n, p, g)]
  <2>1. g \in [D -> Nat] /\ \A p \in D : g[p] = Def[p][g]
    BY <1>6, Zenon DEF Solves
  <2> HIDE DEF D
  <2>2. \A p \in D : g[p] = doubledBody(n, p, g)
    BY Zenon, <2>1
  <2> QED
    BY Zenon, <2>1, <2>2
<1> QED
  BY Zenon, <1>7 DEF IsDoubled

\* q is the least power of two that is at least n.
LeastPower(q, n) ==
    \E k \in Nat : q = pow2[k] /\ q >= n /\ (k = 0 \/ pow2[k - 1] < n)

\* The loop of next_power_of_two, from a power whose half is too small.
LEMMA DoubledReaches ==
    ASSUME NEW n \in Nat, NEW d, IsDoubled(n, d), n > 1
    PROVE  LeastPower(d[1], n)
<1> DEFINE D == 1 .. 2 * n
           m == [p \in D |-> 2 * n - p]
           X == {p \in D : \A j \in Nat :
                    p = pow2[j] /\ (j = 0 \/ pow2[j - 1] < n) => LeastPower(d[p], n)}
<1>1. m \in [D -> Nat]
  OBVIOUS
<1>2. ASSUME NEW p \in D, \A q \in D : m[q] < m[p] => q \in X
      PROVE  p \in X
  <2> SUFFICES ASSUME NEW j \in Nat, p = pow2[j], j = 0 \/ pow2[j - 1] < n
               PROVE  LeastPower(d[p], n)
    BY Zenon
  <2>1. d[p] = IF p < n THEN d[2 * p] ELSE p
    BY Zenon DEF IsDoubled, doubledBody
  <2>2. CASE p < n
    <3>1. 2 * p \in D /\ m[2 * p] < m[p]
      BY <2>2
    <3>2. 2 * p \in X
      <4> HIDE DEF X, m
      <4> QED BY Zenon, <1>2, <3>1
    <3>3. 2 * p = pow2[j + 1] /\ j + 1 \in Nat /\ pow2[(j + 1) - 1] < n
      BY <2>2, Pow2Step
    <3> QED
      BY Zenon, <2>1, <2>2, <3>2, <3>3
  <2>3. CASE ~(p < n)
    <3>1. d[p] = pow2[j] /\ d[p] >= n
      BY <2>1, <2>3
    <3> QED
      BY Zenon, <3>1 DEF LeastPower
  <2> QED
    BY Zenon, <2>2, <2>3
<1>3. D \subseteq X
  <2> HIDE DEF D, m, X
  <2>1. Progressive(D, m, X)
    BY Zenon, <1>2 DEF Progressive
  <2> QED
    BY Zenon, <1>1, <2>1, MeasureInduction
<1>4. 1 \in X
  BY <1>3
<1>5. 0 \in Nat /\ 1 = pow2[0]
  BY Zenon, Pow2Step
<1> QED
  BY Zenon, <1>4, <1>5

\* next_power_of_two is the least power of two that is not below its argument.
LEMMA NextPower ==
    ASSUME NEW n \in Nat
    PROVE  LeastPower(next_power_of_two(n), n)
<1>1. CASE n =< 1
  <2>1. next_power_of_two(n) = 1
    BY Zenon, <1>1 DEF next_power_of_two
  <2>2. 0 \in Nat /\ pow2[0] = 1 /\ 1 >= n
    BY Zenon, <1>1, Pow2Step
  <2> QED
    BY Zenon, <2>1, <2>2 DEF LeastPower
<1>2. CASE n > 1
  <2> DEFINE d == CHOOSE d : IsDoubled(n, d)
  <2>1. IsDoubled(n, d)
    BY Zenon, DoubledExists
  <2>2. ~(n =< 1)
    BY <1>2
  <2>3. next_power_of_two(n) = d[1]
    BY <2>2, Zenon DEF next_power_of_two, IsDoubled, doubledBody
  <2> HIDE DEF d
  <2>4. LeastPower(d[1], n)
    BY Zenon, <1>2, <2>1, DoubledReaches
  <2> QED
    BY Zenon, <2>3, <2>4
<1> QED
  BY <1>1, <1>2

\* A power of two is its own next one.
LEMMA NextPowerOfPower ==
    ASSUME NEW j \in Nat
    PROVE  next_power_of_two(pow2[j]) = pow2[j]
<1>1. pow2[j] \in Nat
  BY Zenon, Pow2Nat
<1>2. PICK k \in Nat : /\ next_power_of_two(pow2[j]) = pow2[k]
                       /\ pow2[k] >= pow2[j]
                       /\ k = 0 \/ pow2[k - 1] < pow2[j]
  BY Zenon, <1>1, NextPower DEF LeastPower
<1>3. ~(k < j)
  <2>1. k < j => 2 * pow2[k] =< pow2[j]
    BY Zenon, Pow2Grows
  <2>2. pow2[k] \in Nat /\ pow2[k] > 0
    BY Pow2Nat
  <2> QED
    BY <1>1, <1>2, <2>1, <2>2
<1>4. ~(j < k)
  <2> SUFFICES ASSUME j < k PROVE FALSE
    BY Zenon
  <2>1. k - 1 \in Nat /\ (j < k - 1 \/ j = k - 1)
    OBVIOUS
  <2>2. pow2[k - 1] \in Nat /\ pow2[k - 1] < pow2[j]
    BY <1>2, <2>1, Pow2Nat
  <2>3. j < k - 1 => 2 * pow2[j] =< pow2[k - 1]
    BY Zenon, <2>1, Pow2Grows
  <2> QED
    BY <1>1, <2>1, <2>2, <2>3
<1> QED
  BY <1>2, <1>3, <1>4

-----------------------------------------------------------------------------
(* build_tree *)

leftHalf(hs) == SubSeq(hs, 1, Len(hs) \div 2)
rightHalf(hs) == SubSeq(hs, Len(hs) \div 2 + 1, Len(hs))

treeBody(hs, f) ==
    IF Len(hs) = 1 THEN LeafNode(hs[1])
    ELSE InnerNode(combine_hashes(root_hash(f[leftHalf(hs)]), root_hash(f[rightHalf(hs)])),
                   f[leftHalf(hs)], f[rightHalf(hs)])

\* A stretch of a sequence.
LEMMA Stretch ==
    ASSUME NEW T, NEW s \in Seq(T), NEW m \in Nat, NEW n \in Nat, m =< n, n =< Len(s)
    PROVE  /\ SubSeq(s, m + 1, n) \in Seq(T)
           /\ Len(SubSeq(s, m + 1, n)) = n - m
           /\ \A i \in 1 .. (n - m) : SubSeq(s, m + 1, n)[i] = s[m + i]
<1>1. SubSeq(s, m + 1, n) = [i \in 1 .. (n - m) |-> s[m + i]]
  OBVIOUS
<1>2. \A i \in 1 .. (n - m) : m + i \in 1 .. Len(s)
  OBVIOUS
<1>3. \A i \in 1 .. (n - m) : s[m + i] \in T
  BY <1>2
<1> QED
  BY <1>1, <1>3

\* The halves of a list of two or more.
LEMMA Halves ==
    ASSUME NEW hs \in TreeInput, Len(hs) # 1
    PROVE  LET mid == Len(hs) \div 2
           IN  /\ mid \in Nat /\ mid > 0 /\ mid < Len(hs) /\ Len(hs) \in Nat
               /\ leftHalf(hs) \in TreeInput /\ Len(leftHalf(hs)) = mid
               /\ rightHalf(hs) \in TreeInput /\ Len(rightHalf(hs)) = Len(hs) - mid
               /\ \A i \in 1 .. mid : leftHalf(hs)[i] = hs[i]
               /\ \A i \in 1 .. (Len(hs) - mid) : rightHalf(hs)[i] = hs[mid + i]
<1> DEFINE mid == Len(hs) \div 2
           T == Leaf
<1>1. hs \in Seq(T) /\ Len(hs) > 0
  BY Zenon DEF TreeInput
<1> HIDE DEF T
<1>2. Len(hs) \in Nat /\ mid \in Nat /\ mid > 0 /\ mid < Len(hs)
  <2>1. Len(hs) \in Nat
    BY <1>1
  <2>2. \A n \in Nat : n > 0 /\ n # 1 => n \div 2 \in Nat /\ n \div 2 > 0 /\ n \div 2 < n
    OBVIOUS
  <2> QED
    BY Zenon, <1>1, <2>1, <2>2
<1> HIDE DEF mid
<1>3. /\ SubSeq(hs, 0 + 1, mid) \in Seq(T) /\ Len(SubSeq(hs, 0 + 1, mid)) = mid - 0
      /\ \A i \in 1 .. (mid - 0) : SubSeq(hs, 0 + 1, mid)[i] = hs[0 + i]
  BY <1>1, <1>2, Stretch
<1>4. /\ leftHalf(hs) \in Seq(T) /\ Len(leftHalf(hs)) = mid
      /\ \A i \in 1 .. mid : leftHalf(hs)[i] = hs[i]
  <2>1. leftHalf(hs) = SubSeq(hs, 0 + 1, mid)
    BY DEF leftHalf, mid
  <2> QED
    BY <1>2, <1>3, <2>1
<1>5. /\ rightHalf(hs) \in Seq(T) /\ Len(rightHalf(hs)) = Len(hs) - mid
      /\ \A i \in 1 .. (Len(hs) - mid) : rightHalf(hs)[i] = hs[mid + i]
  <2>1. rightHalf(hs) = SubSeq(hs, mid + 1, Len(hs))
    BY Zenon DEF rightHalf, mid
  <2>2. Len(hs) =< Len(hs) /\ mid =< Len(hs)
    BY <1>2
  <2> QED
    BY <1>1, <1>2, <2>1, <2>2, Stretch
<1>6. leftHalf(hs) \in TreeInput /\ rightHalf(hs) \in TreeInput
  BY <1>2, <1>4, <1>5 DEF TreeInput, T
<1> QED
  BY Zenon, <1>2, <1>4, <1>5, <1>6 DEF mid

\* The recursion of build_tree only looks at shorter lists.
LEMMA TreeBodyLocal ==
    ASSUME NEW hs \in TreeInput, NEW g, NEW h,
           \A s \in TreeInput : Len(s) < Len(hs) => g[s] = h[s]
    PROVE  treeBody(hs, g) = treeBody(hs, h)
<1>1. CASE Len(hs) = 1
  BY Zenon, <1>1 DEF treeBody
<1>2. CASE Len(hs) # 1
  <2>1. /\ leftHalf(hs) \in TreeInput /\ Len(leftHalf(hs)) < Len(hs)
        /\ rightHalf(hs) \in TreeInput /\ Len(rightHalf(hs)) < Len(hs)
    BY <1>2, Halves
  <2>2. g[leftHalf(hs)] = h[leftHalf(hs)] /\ g[rightHalf(hs)] = h[rightHalf(hs)]
    BY Zenon, <2>1
  <2> QED
    BY Zenon, <1>2, <2>2 DEF treeBody
<1> QED
  BY Zenon, <1>1, <1>2

\* build_tree satisfies its equation: there are trees of any size.
LEMMA TreeExists == \E f : f = [hs \in TreeInput |-> treeBody(hs, f)]
<1> DEFINE ok(g, n) == \A hs \in TreeInput : Len(hs) < n => g[hs] = treeBody(hs, g)
<1>0. \A hs \in TreeInput : Len(hs) \in Nat
  BY DEF TreeInput
<1>1. ASSUME NEW g, NEW n \in Nat, ok(g, n)
      PROVE  \E h : ok(h, n + 1)
  <2> DEFINE h == [hs \in TreeInput |-> treeBody(hs, g)]
  <2>1. ASSUME NEW hs \in TreeInput, Len(hs) < n + 1
        PROVE  h[hs] = treeBody(hs, h)
    <3>1. \A s \in TreeInput : Len(s) < Len(hs) => g[s] = h[s]
      BY <1>0, <1>1, <2>1
    <3> HIDE DEF h
    <3>2. treeBody(hs, g) = treeBody(hs, h)
      BY Zenon, <3>1, TreeBodyLocal
    <3> QED
      BY Zenon, <3>2 DEF h
  <2> QED
    <3> HIDE DEF h
    <3> QED BY Zenon, <2>1
<1>2. \A n \in Nat : \E g : ok(g, n)
  <2> DEFINE N == {n \in Nat : \E g : ok(g, n)}
  <2>1. ASSUME NEW n \in Nat, \A k \in Nat : k < n => k \in N
        PROVE  n \in N
    <3>1. CASE n = 0
      <4>1. ok(0, n)
        BY <1>0, <3>1
      <4> QED
        BY Zenon, <4>1
    <3>2. CASE n # 0
      <4>1. PICK k \in Nat : n = k + 1
        BY <3>2, n - 1 \in Nat
      <4>2. k < n
        BY <4>1
      <4>3. k \in N
        <5> HIDE DEF N
        <5> QED BY Zenon, <2>1, <4>2
      <4> HIDE DEF ok
      <4>4. PICK g : ok(g, k)
        BY Zenon, <4>3
      <4>5. \E h : ok(h, k + 1)
        BY Zenon, <4>4, <1>1
      <4> QED
        BY Zenon, <4>1, <4>5
    <3> QED
      BY Zenon, <3>1, <3>2
  <2>2. Nat \subseteq N
    <3> HIDE DEF N
    <3> QED BY Zenon, <2>1, NatClosed
  <2> QED
    BY Zenon, <2>2
<1>3. ASSUME NEW g, NEW h, NEW n \in Nat, ok(g, n), ok(h, n), NEW t \in TreeInput, Len(t) < n
      PROVE  g[t] = h[t]
  <2> DEFINE X == {k \in Nat : \A s \in TreeInput : Len(s) = k /\ k < n => g[s] = h[s]}
  <2>1. ASSUME NEW k \in Nat, \A j \in Nat : j < k => j \in X
        PROVE  k \in X
    <3> SUFFICES ASSUME NEW s \in TreeInput, Len(s) = k, k < n PROVE g[s] = h[s]
      BY Zenon
    <3>1. \A u \in TreeInput : Len(u) < Len(s) => g[u] = h[u]
      BY <1>0, <2>1
    <3>2. treeBody(s, g) = treeBody(s, h)
      BY Zenon, <3>1, TreeBodyLocal
    <3> QED
      BY Zenon, <1>3, <3>2
  <2>2. Nat \subseteq X
    <3> HIDE DEF X
    <3> QED BY Zenon, <2>1, NatClosed
  <2> QED
    BY Zenon, <1>0, <1>3, <2>2
<1> DEFINE G == [n \in Nat |-> CHOOSE g : ok(g, n)]
           f == [hs \in TreeInput |-> G[Len(hs) + 1][hs]]
<1>4. \A n \in Nat : ok(G[n], n)
  <2> HIDE DEF ok
  <2> QED BY Zenon, <1>2
<1> HIDE DEF G
<1>5. ASSUME NEW hs \in TreeInput
      PROVE  f[hs] = treeBody(hs, f)
  <2> DEFINE g == G[Len(hs) + 1]
  <2>1. Len(hs) \in Nat /\ ok(g, Len(hs) + 1)
    BY <1>0, <1>4
  <2>2. f[hs] = treeBody(hs, g)
    BY <1>0, <2>1
  <2>3. ASSUME NEW s \in TreeInput, Len(s) < Len(hs)
        PROVE  g[s] = f[s]
    <3>1. Len(s) \in Nat /\ Len(s) + 1 \in Nat /\ Len(s) < Len(s) + 1
      BY <1>0
    <3>2. ok(G[Len(s) + 1], Len(s) + 1)
      BY Zenon, <1>4, <3>1
    <3>3. ok(g, Len(s) + 1)
      BY <1>0, <2>1, <2>3
    <3>4. g[s] = G[Len(s) + 1][s]
      <4> HIDE DEF ok, g, f
      <4> QED BY <1>3, <3>1, <3>2, <3>3
    <3> QED
      BY Zenon, <3>4
  <2> HIDE DEF f, g
  <2>4. treeBody(hs, g) = treeBody(hs, f)
    BY Zenon, <2>3, TreeBodyLocal
  <2> QED
    BY Zenon, <2>2, <2>4
<1>6. f = [hs \in TreeInput |-> treeBody(hs, f)]
  <2> DEFINE e == [hs \in TreeInput |-> treeBody(hs, f)]
  <2>1. \A hs \in TreeInput : f[hs] = e[hs]
    <3> HIDE DEF f
    <3> QED BY Zenon, <1>5
  <2>2. f = [hs \in TreeInput |-> f[hs]]
    BY Zenon
  <2> QED
    <3> HIDE DEF f
    <3> QED BY Zenon, <2>1, <2>2
<1> QED
  <2> HIDE DEF f
  <2> QED BY Zenon, <1>6

LEMMA TreeOf ==
    ASSUME NEW hs \in TreeInput
    PROVE  build_tree[hs] = treeBody(hs, build_tree)
<1>1. build_tree = CHOOSE f : f = [s \in TreeInput |-> treeBody(s, f)]
  BY Zenon DEF build_tree, treeBody, leftHalf, rightHalf
<1>2. build_tree = [s \in TreeInput |-> treeBody(s, build_tree)]
  BY <1>1, TreeExists, Zenon
<1> QED
  BY <1>2, Zenon

\* The root of a list, and how it is made from those of the halves.
rootOf(hs) == root_hash(build_tree[hs])

LEMMA RootOf ==
    ASSUME NEW hs \in TreeInput
    PROVE  rootOf(hs) = IF Len(hs) = 1 THEN hs[1]
                        ELSE combine_hashes(rootOf(leftHalf(hs)), rootOf(rightHalf(hs)))
<1> DEFINE t == build_tree[hs]
           l == build_tree[leftHalf(hs)]
           r == build_tree[rightHalf(hs)]
<1>1. /\ Len(hs) = 1 => t = LeafNode(hs[1])
      /\ Len(hs) # 1 => t = InnerNode(combine_hashes(root_hash(l), root_hash(r)), l, r)
  BY TreeOf, Zenon DEF treeBody
<1>2. /\ \A h : root_hash(LeafNode(h)) = h
      /\ \A h, a, b : root_hash(InnerNode(h, a, b)) = h
  BY Zenon DEF root_hash, LeafNode, InnerNode
<1>3. rootOf(hs) = root_hash(t) /\ rootOf(leftHalf(hs)) = root_hash(l) /\ rootOf(rightHalf(hs)) = root_hash(r)
  BY Zenon DEF rootOf
<1> HIDE DEF t, l, r
<1>4. CASE Len(hs) = 1
  <2>1. root_hash(t) = hs[1]
    BY <1>1, <1>2, <1>4, Zenon
  <2> QED
    BY Zenon, <1>3, <1>4, <2>1
<1>5. CASE Len(hs) # 1
  <2>1. root_hash(t) = combine_hashes(root_hash(l), root_hash(r))
    <3> DEFINE c == combine_hashes(root_hash(l), root_hash(r))
    <3>1. t = InnerNode(c, l, r)
      BY Zenon, <1>1, <1>5
    <3> HIDE DEF c
    <3>2. root_hash(InnerNode(c, l, r)) = c
      BY <1>2, Zenon
    <3> QED
      BY Zenon, <3>1, <3>2 DEF c
  <2> QED
    BY Zenon, <1>3, <1>5, <2>1
<1> QED
  BY Zenon, <1>4, <1>5

-----------------------------------------------------------------------------
(* What a root says of the list it is made from *)

\* Hashing two hashes is injective.
LEMMA CombineInjective ==
    ASSUME NEW a, NEW b, NEW c, NEW d, combine_hashes(a, b) = combine_hashes(c, d)
    PROVE  a = c /\ b = d
<1>1. combine_hashes(a, b).left = a /\ combine_hashes(a, b).right = b
  BY Zenon DEF combine_hashes
<1>2. combine_hashes(c, d).left = c /\ combine_hashes(c, d).right = d
  BY Zenon DEF combine_hashes
<1> QED
  BY Zenon, <1>1, <1>2

\* Sequences with the same elements are the same.
LEMMA SameSeq ==
    ASSUME NEW T, NEW s \in Seq(T), NEW t \in Seq(T), Len(s) = Len(t),
           \A i \in 1 .. Len(s) : s[i] = t[i]
    PROVE  s = t
  OBVIOUS

\* The elements of a list of the tree.
LEMMA InputElements ==
    ASSUME NEW hs \in TreeInput
    PROVE  /\ hs \in Seq(Leaf) /\ Len(hs) \in Nat /\ Len(hs) > 0
           /\ \A i \in 1 .. Len(hs) : hs[i] \in Leaf
<1> DEFINE T == Leaf
<1>1. hs \in Seq(T) /\ Len(hs) > 0
  BY Zenon DEF TreeInput
<1> HIDE DEF T
<1>2. Len(hs) \in Nat /\ \A i \in 1 .. Len(hs) : hs[i] \in T
  BY <1>1
<1> QED
  BY Zenon, <1>1, <1>2 DEF T

\* The lists are sequences of leaves.
LEMMA ListsAreSeqs ==
    ASSUME NEW hs \in Lists
    PROVE  hs \in Seq(Leaf) /\ Len(hs) \in Nat /\ Len(hs) =< MaxLeaves
<1>1. PICK n \in 0 .. MaxLeaves : hs \in [1 .. n -> Leaf]
  BY Zenon DEF Lists
<1>2. n \in Nat /\ n =< MaxLeaves
  BY <1>1, MerkleAssumption
<1>3. hs \in Seq(Leaf) /\ Len(hs) = n
  BY <1>1, <1>2
<1> QED
  BY Zenon, <1>2, <1>3

\* A list that is not empty has a length.
LEMMA NotEmpty ==
    ASSUME NEW T, NEW s \in Seq(T)
    PROVE  s # <<>> <=> Len(s) > 0
  OBVIOUS

\* The number of levels above the leaves.
levels(hs) == log2(next_power_of_two(Len(hs)))

\* The padded list: the leaves, and zero hashes up to the next power of two.
LEMMA Padded ==
    ASSUME NEW hs \in Seq(Leaf), hs # <<>>
    PROVE  LET p == pad_to_power_of_two(hs)
           IN  /\ p \in TreeInput
               /\ Len(p) = next_power_of_two(Len(hs))
               /\ Len(p) \in Nat /\ Len(hs) =< Len(p)
               /\ levels(hs) \in Nat /\ Len(p) = pow2[levels(hs)]
               /\ \A i \in 1 .. Len(hs) : p[i] = hs[i]
               /\ \A i \in 1 .. Len(p) : i > Len(hs) => p[i] = Zero
<1> DEFINE p == pad_to_power_of_two(hs)
           q == next_power_of_two(Len(hs))
           T == Leaf
<1>1. Len(hs) \in Nat /\ Len(hs) > 0
  OBVIOUS
<1>2. PICK k \in Nat : q = pow2[k] /\ q >= Len(hs)
  <2>1. LeastPower(q, Len(hs))
    BY Zenon, <1>1, NextPower
  <2> QED
    BY Zenon, <2>1 DEF LeastPower
<1>3. q \in Nat /\ q > 0
  BY <1>2, Pow2Nat
<1>4. levels(hs) = k
  BY Zenon, <1>2, Log2 DEF levels
<1> HIDE DEF q
<1>5. p = [i \in 1 .. q |-> IF i =< Len(hs) THEN hs[i] ELSE Zero]
  BY Zenon DEF pad_to_power_of_two, q
<1>6. ASSUME NEW i \in 1 .. q
      PROVE  (IF i =< Len(hs) THEN hs[i] ELSE Zero) \in T
  <2>1. CASE i =< Len(hs)
    <3>1. i \in 1 .. Len(hs)
      BY <1>1, <1>3, <2>1
    <3>2. hs[i] \in Leaf
      BY <3>1
    <3> QED
      BY Zenon, <2>1, <3>2
  <2>2. CASE ~(i =< Len(hs))
    BY Zenon, <2>2, MerkleAssumption
  <2> QED
    BY Zenon, <2>1, <2>2
<1> HIDE DEF p, T
<1>7. p \in [1 .. q -> T]
  BY Zenon, <1>5, <1>6
<1>8. p \in Seq(T) /\ Len(p) = q
  BY <1>3, <1>7
<1>9. p \in TreeInput
  BY Zenon, <1>3, <1>8 DEF TreeInput, T
<1>10. \A i \in 1 .. Len(hs) : i \in 1 .. q /\ i =< Len(hs)
  BY <1>1, <1>2, <1>3
<1>11. \A i \in 1 .. Len(hs) : p[i] = hs[i]
  BY Zenon, <1>5, <1>10
<1>12. \A i \in 1 .. Len(p) : i > Len(hs) => p[i] = Zero
  BY <1>1, <1>3, <1>5, <1>8
<1> QED
  BY Zenon, <1>2, <1>3, <1>4, <1>8, <1>9, <1>11, <1>12 DEF p, q

-----------------------------------------------------------------------------
(* The depth of a tree *)

\* A tree of one leaf has no children, any other one the trees of the halves.
LEMMA Children ==
    ASSUME NEW hs \in TreeInput
    PROVE  /\ Len(hs) = 1 => build_tree[hs].children = <<>>
           /\ Len(hs) # 1 => /\ build_tree[hs].children # <<>>
                             /\ build_tree[hs].children[1] = build_tree[leftHalf(hs)]
<1> DEFINE t == build_tree[hs]
           l == build_tree[leftHalf(hs)]
           r == build_tree[rightHalf(hs)]
<1>1. /\ Len(hs) = 1 => t = LeafNode(hs[1])
      /\ Len(hs) # 1 => t = InnerNode(combine_hashes(root_hash(l), root_hash(r)), l, r)
  BY TreeOf, Zenon DEF treeBody
<1>2. \A h : LeafNode(h).children = <<>>
  BY Zenon DEF LeafNode
<1>3. ASSUME NEW h, NEW a, NEW b
      PROVE  InnerNode(h, a, b).children # <<>> /\ InnerNode(h, a, b).children[1] = a
  <2>1. InnerNode(h, a, b).children = <<a, b>>
    BY Zenon DEF InnerNode
  <2>2. Len(<<a, b>>) = 2 /\ Len(<<>>) = 0 /\ <<a, b>>[1] = a
    BY Zenon
  <2> QED
    BY <2>1, <2>2
<1>4. build_tree[hs] = t /\ build_tree[leftHalf(hs)] = l
  BY Zenon
<1> HIDE DEF t, l, r
<1>5. CASE Len(hs) = 1
  <2>1. t.children = <<>>
    BY <1>1, <1>2, <1>5, Zenon
  <2> QED
    BY Zenon, <1>4, <1>5, <2>1
<1>6. CASE Len(hs) # 1
  <2>1. t.children # <<>> /\ t.children[1] = l
    <3> DEFINE c == combine_hashes(root_hash(l), root_hash(r))
    <3>1. t = InnerNode(c, l, r)
      BY Zenon, <1>1, <1>6
    <3> HIDE DEF c
    <3>2. InnerNode(c, l, r).children # <<>> /\ InnerNode(c, l, r).children[1] = l
      BY <1>3, Zenon
    <3> QED
      BY Zenon, <3>1, <3>2
  <2> QED
    BY Zenon, <1>4, <1>6, <2>1
<1> QED
  BY Zenon, <1>5, <1>6

\* The first n elements of a list.
front(p, n) == SubSeq(p, 1, n)

LEMMA Front ==
    ASSUME NEW p \in TreeInput, NEW n \in Nat, n > 0, n =< Len(p)
    PROVE  /\ front(p, n) \in TreeInput /\ Len(front(p, n)) = n
           /\ n = Len(p) => front(p, n) = p
           /\ \A m \in Nat : m > 0 /\ n = 2 * m => leftHalf(front(p, n)) = front(p, m)
<1>1. p \in Seq(Leaf) /\ Len(p) \in Nat
  BY DEF TreeInput
<1>2. ASSUME NEW m \in Nat, m > 0, m =< Len(p)
      PROVE  /\ front(p, m) \in Seq(Leaf) /\ Len(front(p, m)) = m
             /\ \A i \in 1 .. m : front(p, m)[i] = p[i]
  <2>1. 0 \in Nat /\ 0 =< m /\ 0 + 1 = 1 /\ m - 0 = m /\ \A i \in 1 .. m : 0 + i = i
    BY <1>2
  <2>2. /\ SubSeq(p, 0 + 1, m) \in Seq(Leaf) /\ Len(SubSeq(p, 0 + 1, m)) = m - 0
        /\ \A i \in 1 .. (m - 0) : SubSeq(p, 0 + 1, m)[i] = p[0 + i]
    BY ONLY <1>1, <1>2, <2>1, Stretch
  <2> QED
    BY Zenon, <2>1, <2>2 DEF front
<1>3. front(p, n) \in TreeInput /\ Len(front(p, n)) = n
  BY Zenon, <1>2 DEF TreeInput
<1>4. ASSUME n = Len(p) PROVE front(p, n) = p
  BY Zenon, <1>1, <1>2, <1>4, SameSeq
<1>5. ASSUME NEW m \in Nat, m > 0, n = 2 * m PROVE leftHalf(front(p, n)) = front(p, m)
  <2>1. Len(front(p, n)) # 1 /\ Len(front(p, n)) \div 2 = m /\ m =< Len(p)
    BY <1>1, <1>3, <1>5
  <2>2. /\ leftHalf(front(p, n)) \in TreeInput /\ Len(leftHalf(front(p, n))) = m
        /\ \A i \in 1 .. m : leftHalf(front(p, n))[i] = front(p, n)[i]
    BY Zenon, <1>3, <2>1, Halves
  <2>3. \A i \in 1 .. m : leftHalf(front(p, n))[i] = front(p, m)[i]
    BY <1>1, <1>2, <1>5, <2>1, <2>2
  <2>4. leftHalf(front(p, n)) \in Seq(Leaf)
    BY Zenon, <2>2 DEF TreeInput
  <2>5. front(p, m) \in Seq(Leaf) /\ Len(front(p, m)) = m
    BY Zenon, <1>2, <1>5, <2>1
  <2> DEFINE l == leftHalf(front(p, n))
             r == front(p, m)
             T == Leaf
  <2>6. l \in Seq(T) /\ r \in Seq(T) /\ Len(l) = Len(r) /\ \A i \in 1 .. Len(l) : l[i] = r[i]
    BY <2>2, <2>3, <2>4, <2>5, Zenon
  <2> HIDE DEF l, r, T
  <2>7. l = r
    BY Zenon, <2>6, SameSeq
  <2> QED
    BY Zenon, <2>7 DEF l, r
<1> QED
  BY Zenon, <1>3, <1>4, <1>5

\* The equation of the left edge of the tree t.
edgeBody(t, k, f) ==
    IF k = 0 THEN t ELSE IF f[k - 1].children = <<>> THEN f[k - 1] ELSE f[k - 1].children[1]

\* The left edge of the tree of p, which has d levels above the leaves: the trees of
\* ever shorter fronts of p.
edge(p, d) == [k \in Nat |-> build_tree[front(p, IF k =< d THEN pow2[d - k] ELSE 1)]]

LEMMA EdgeChildren ==
    ASSUME NEW p \in TreeInput, NEW d \in Nat, Len(p) = pow2[d], NEW k \in Nat
    PROVE  /\ k < d => /\ edge(p, d)[k].children # <<>>
                       /\ edge(p, d)[k].children[1] = edge(p, d)[k + 1]
           /\ ~(k < d) => /\ edge(p, d)[k].children = <<>>
                          /\ edge(p, d)[k] = edge(p, d)[k + 1]
<1>1. pow2[0] = 1 /\ Len(p) \in Nat /\ Len(p) > 0
  BY Pow2Step, Pow2Nat
<1>2. ASSUME k < d
      PROVE  /\ edge(p, d)[k].children # <<>>
             /\ edge(p, d)[k].children[1] = edge(p, d)[k + 1]
  <2> DEFINE m == pow2[d - (k + 1)]
  <2>1. d - (k + 1) \in Nat /\ d - k = (d - (k + 1)) + 1 /\ d - k \in Nat
    BY <1>2
  <2>2. m \in Nat /\ m > 0 /\ pow2[d - k] = 2 * m
    <3> DEFINE c == d - (k + 1)
    <3>1. c \in Nat /\ pow2[d - k] = pow2[c + 1]
      BY Zenon, <2>1
    <3> HIDE DEF c
    <3>2. pow2[c] \in Nat /\ pow2[c] > c /\ pow2[c + 1] = 2 * pow2[c]
      BY Zenon, <3>1, Pow2Nat, Pow2Step
    <3> QED
      BY <3>1, <3>2 DEF c
  <2>3. 2 * m =< Len(p)
    <3>1. CASE k = 0
      BY <1>1, <2>2, <3>1, d - 0 = d
    <3>2. CASE k # 0
      <4>1. d - k < d
        BY <3>2
      <4>2. 2 * pow2[d - k] =< Len(p)
        BY Zenon, <2>1, <4>1, Pow2Grows
      <4> QED
        BY <1>1, <2>2, <4>2
    <3> QED
      BY Zenon, <3>1, <3>2
  <2>4. edge(p, d)[k] = build_tree[front(p, 2 * m)] /\ edge(p, d)[k + 1] = build_tree[front(p, m)]
    BY <1>2, <2>2, k =< d, k + 1 =< d DEF edge
  <2> HIDE DEF m
  <2>5. /\ front(p, 2 * m) \in TreeInput /\ Len(front(p, 2 * m)) = 2 * m
        /\ leftHalf(front(p, 2 * m)) = front(p, m)
    BY <2>2, <2>3, Front, 2 * m \in Nat, 2 * m > 0
  <2>6. Len(front(p, 2 * m)) # 1
    BY <2>2, <2>5, 2 * m # 1
  <2> QED
    BY Zenon, <2>4, <2>5, <2>6, Children
<1>3. ASSUME ~(k < d)
      PROVE  /\ edge(p, d)[k].children = <<>>
             /\ edge(p, d)[k] = edge(p, d)[k + 1]
  <2>1. (k =< d => d - k = 0) /\ ~(k + 1 =< d)
    BY <1>3
  <2>2. edge(p, d)[k] = build_tree[front(p, 1)] /\ edge(p, d)[k + 1] = build_tree[front(p, 1)]
    BY <1>1, <2>1 DEF edge
  <2>3. front(p, 1) \in TreeInput /\ Len(front(p, 1)) = 1
    BY <1>1, Front, 1 \in Nat, 1 > 0, 1 =< Len(p)
  <2> QED
    BY Zenon, <2>2, <2>3, Children
<1> QED
  BY Zenon, <1>2, <1>3

LEMMA LeftEdge ==
    ASSUME NEW p \in TreeInput, NEW d \in Nat, Len(p) = pow2[d], NEW n \in Nat
    PROVE  leftEdge(build_tree[p])[n] = edge(p, d)[n]
<1> DEFINE t == build_tree[p]
           e == edge(p, d)
           f == leftEdge(t)
<1>1. e[0] = t
  <2>1. Len(p) \in Nat /\ Len(p) > 0 /\ d - 0 = d /\ 0 =< d
    BY DEF TreeInput
  <2>2. e[0] = build_tree[front(p, Len(p))]
    BY Zenon, <2>1 DEF edge
  <2> QED
    BY <2>1, <2>2, Front
<1>2. \A k \in Nat : k # 0 => k - 1 \in Nat /\ (k - 1) + 1 = k
  OBVIOUS
<1>3. e = [k \in Nat |-> edgeBody(t, k, e)]
  <2>1. ASSUME NEW k \in Nat PROVE e[k] = edgeBody(t, k, e)
    <3>1. CASE k = 0
      BY Zenon, <1>1, <3>1 DEF edgeBody
    <3>2. CASE k # 0
      <4>1. k - 1 \in Nat /\ (k - 1) + 1 = k
        BY Zenon, <1>2, <3>2
      <4>2. /\ e[k - 1].children = <<>> => e[k] = e[k - 1]
            /\ e[k - 1].children # <<>> => e[k] = e[k - 1].children[1]
        BY <4>1, EdgeChildren
      <4> HIDE DEF e, t
      <4> QED
        BY Zenon, <3>2, <4>2 DEF edgeBody
    <3> QED
      BY Zenon, <3>1, <3>2
  <2>2. e = [k \in Nat |-> e[k]]
    BY Zenon DEF edge
  <2> HIDE DEF e, t
  <2> QED
    BY <2>1, <2>2, Zenon
<1>4. f = CHOOSE g : g = [k \in Nat |-> edgeBody(t, k, g)]
  BY Zenon DEF leftEdge, edgeBody
<1> HIDE DEF e, f, t
<1>5. f = [k \in Nat |-> edgeBody(t, k, f)]
  BY <1>3, <1>4, Zenon
<1> DEFINE X == {k \in Nat : f[k] = e[k]}
<1>6. ASSUME NEW k \in Nat, \A j \in Nat : j < k => j \in X
      PROVE  k \in X
  <2>1. k # 0 => f[k - 1] = e[k - 1]
    BY <1>2, <1>6, k # 0 => k - 1 < k
  <2>2. f[k] = edgeBody(t, k, f) /\ e[k] = edgeBody(t, k, e)
    BY <1>3, <1>5, Zenon
  <2> QED
    BY <2>1, <2>2 DEF edgeBody
<1>7. Nat \subseteq X
  <2> HIDE DEF X
  <2> QED BY Zenon, <1>6, NatClosed
<1> QED
  BY Zenon, <1>7 DEF e, f, t

\* The tree of a list has one level more than there are above the leaves.
LEMMA DepthOfTree ==
    ASSUME NEW hs \in Lists, hs # <<>>
    PROVE  depth(build_tree[pad_to_power_of_two(hs)]) = levels(hs) + 1
<1> DEFINE p == pad_to_power_of_two(hs)
           d == levels(hs)
           isLeaf(k) == leftEdge(build_tree[p])[k].children = <<>>
           height(k) == isLeaf(k) /\ \A j \in 0 .. k - 1 : ~isLeaf(j)
<1>1. hs \in Seq(Leaf) /\ Len(hs) \in Nat /\ Len(hs) > 0 /\ Len(hs) =< MaxLeaves
  BY Zenon, ListsAreSeqs, NotEmpty
<1>2. p \in TreeInput /\ d \in Nat /\ Len(p) = pow2[d] /\ Len(p) = next_power_of_two(Len(hs))
  BY Zenon, <1>1, Padded
<1>3. d \in 0 .. MaxLeaves
  <2>1. PICK k \in Nat : pow2[d] = pow2[k] /\ (k = 0 \/ pow2[k - 1] < Len(hs))
    BY Zenon, <1>1, <1>2, NextPower DEF LeastPower
  <2>2. d = k
    BY Zenon, <1>2, <2>1, Log2
  <2>3. k # 0 => pow2[k - 1] \in Nat /\ pow2[k - 1] > k - 1
    BY Pow2Nat, k # 0 => k - 1 \in Nat
  <2> HIDE DEF d
  <2> QED
    BY <1>1, <2>1, <2>2, <2>3, MerkleAssumption
<1> HIDE DEF p, d
<1>4. \A k \in Nat : isLeaf(k) <=> ~(k < d)
  <2> SUFFICES ASSUME NEW k \in Nat PROVE isLeaf(k) <=> ~(k < d)
    BY Zenon
  <2>1. leftEdge(build_tree[p])[k] = edge(p, d)[k]
    BY Zenon, <1>2, LeftEdge
  <2>2. /\ k < d => edge(p, d)[k].children # <<>>
        /\ ~(k < d) => edge(p, d)[k].children = <<>>
    BY Zenon, <1>2, EdgeChildren
  <2> QED
    BY <2>1, <2>2, Zenon
<1> HIDE DEF isLeaf
<1>5. height(d)
  BY <1>2, <1>4
<1>6. ASSUME NEW k \in 0 .. MaxLeaves, height(k) PROVE k = d
  BY <1>2, <1>4, <1>6, MerkleAssumption
<1>7. (CHOOSE k \in 0 .. MaxLeaves : height(k)) = d
  <2> HIDE DEF height
  <2> QED BY Zenon, <1>3, <1>5, <1>6
<1>8. depth(build_tree[p]) = 1 + CHOOSE k \in 0 .. MaxLeaves : height(k)
  BY Zenon DEF depth, isLeaf
<1>9. depth(build_tree[p]) = d + 1
  <2> DEFINE c == CHOOSE k \in 0 .. MaxLeaves : height(k)
  <2>1. c = d /\ depth(build_tree[p]) = 1 + c
    BY Zenon, <1>7, <1>8
  <2> HIDE DEF c
  <2> QED
    BY <1>2, <2>1
<1> QED
  BY Zenon, <1>9 DEF p, d

-----------------------------------------------------------------------------
(* Subtrees *)

LEMMA Pow2Product ==
    ASSUME NEW j \in Nat, NEW k \in Nat
    PROVE  pow2[j] * pow2[k] = pow2[j + k]
<1> DEFINE X == {n \in Nat : pow2[j] * pow2[n] = pow2[j + n]}
<1>1. ASSUME NEW n \in Nat, \A i \in Nat : i < n => i \in X
      PROVE  n \in X
  <2>0. pow2[j] \in Nat
    BY Zenon, Pow2Nat
  <2>1. CASE n = 0
    <3>1. pow2[n] = 1 /\ j + n = j
      BY <2>1, Pow2Step
    <3> QED
      BY <2>0, <3>1
  <2>2. CASE n # 0
    <3>1. PICK i \in Nat : n = i + 1
      BY <2>2, n - 1 \in Nat
    <3>2. i \in X
      <4> HIDE DEF X
      <4> QED BY <1>1, <3>1
    <3>3. /\ pow2[n] = 2 * pow2[i] /\ pow2[i] \in Nat
          /\ j + i \in Nat /\ pow2[j + i] \in Nat /\ j + n = (j + i) + 1
      BY <3>1, Pow2Step, Pow2Nat
    <3>4. pow2[j + n] = 2 * pow2[j + i]
      BY Zenon, <3>3, Pow2Step
    <3>5. pow2[j] * (2 * pow2[i]) = 2 * (pow2[j] * pow2[i])
      BY <2>0, <3>3
    <3> QED
      BY Zenon, <3>2, <3>3, <3>4, <3>5
  <2> QED
    BY Zenon, <2>1, <2>2
<1>2. Nat \subseteq X
  <2> HIDE DEF X
  <2> QED BY Zenon, <1>1, NatClosed
<1> QED
  BY Zenon, <1>2

LEMMA MulMonotone ==
    ASSUME NEW a \in Nat, NEW b \in Nat, NEW c \in Nat, a =< b
    PROVE  c * a =< c * b
<1>1. b - a \in Nat
  OBVIOUS
<1>2. c * (b - a) \in Nat
  BY <1>1
<1>3. c * b = c * a + c * (b - a)
  OBVIOUS
<1>4. c * a \in Nat /\ c * b \in Nat
  OBVIOUS
<1> QED
  BY <1>2, <1>3, <1>4

\* The b-th group of s elements, and the root over it.
group(p, s, b) == SubSeq(p, s * b + 1, s * (b + 1))
groupRoot(p, s, b) == rootOf(group(p, s, b))

LEMMA Group ==
    ASSUME NEW p \in TreeInput, NEW s \in Nat, s > 0, NEW b \in Nat, s * (b + 1) =< Len(p)
    PROVE  /\ group(p, s, b) \in TreeInput
           /\ Len(group(p, s, b)) = s
           /\ \A i \in 1 .. s : group(p, s, b)[i] = p[s * b + i]
<1> DEFINE T == Leaf
           m == s * b
           n == s * (b + 1)
<1>1. p \in Seq(T)
  BY Zenon, InputElements
<1>2. m \in Nat /\ n \in Nat /\ n = m + s
  OBVIOUS
<1>3. n =< Len(p) /\ m =< n
  <2>1. n =< Len(p)
    BY Zenon
  <2> HIDE DEF m, n
  <2> QED BY <1>2, <2>1
<1>4. group(p, s, b) = SubSeq(p, m + 1, n)
  BY Zenon DEF group
<1> HIDE DEF m, n, T
<1>5. /\ SubSeq(p, m + 1, n) \in Seq(T) /\ Len(SubSeq(p, m + 1, n)) = n - m
      /\ \A i \in 1 .. (n - m) : SubSeq(p, m + 1, n)[i] = p[m + i]
  BY <1>1, <1>2, <1>3, Stretch
<1>6. n - m = s
  BY <1>2
<1>7. group(p, s, b) \in TreeInput
  BY Zenon, <1>4, <1>5, <1>6 DEF TreeInput, T
<1> QED
  BY Zenon, <1>4, <1>5, <1>6, <1>7 DEF m

\* The halves of a group of size 2 * s are groups of size s.
LEMMA GroupHalves ==
    ASSUME NEW p \in TreeInput, NEW s \in Nat, s > 0, NEW b \in Nat, (2 * s) * (b + 1) =< Len(p)
    PROVE  /\ group(p, 2 * s, b) \in TreeInput
           /\ Len(group(p, 2 * s, b)) = 2 * s
           /\ \A i \in 1 .. 2 * s : group(p, 2 * s, b)[i] = p[(2 * s) * b + i]
           /\ leftHalf(group(p, 2 * s, b)) = group(p, s, 2 * b)
           /\ rightHalf(group(p, 2 * s, b)) = group(p, s, 2 * b + 1)
<1> DEFINE g == group(p, 2 * s, b)
           l == group(p, s, 2 * b)
           r == group(p, s, 2 * b + 1)
           m == s * b
<1>1. /\ m \in Nat
      /\ (2 * s) * b = 2 * m /\ (2 * s) * (b + 1) = 2 * m + 2 * s
      /\ s * (2 * b) = 2 * m /\ s * (2 * b + 1) = 2 * m + s
      /\ s * ((2 * b + 1) + 1) = 2 * m + 2 * s
  OBVIOUS
<1>2. Len(p) \in Nat
  BY Zenon, InputElements
<1>3. /\ g \in TreeInput /\ Len(g) = 2 * s
      /\ \A i \in 1 .. 2 * s : g[i] = p[(2 * s) * b + i]
  BY Group
<1>4. s * (2 * b + 1) =< Len(p) /\ s * ((2 * b + 1) + 1) =< Len(p)
  <2> HIDE DEF m
  <2> QED BY <1>1, <1>2
<1>5. /\ l \in TreeInput /\ Len(l) = s
      /\ \A i \in 1 .. s : l[i] = p[s * (2 * b) + i]
  BY <1>4, Group
<1>6. /\ r \in TreeInput /\ Len(r) = s
      /\ \A i \in 1 .. s : r[i] = p[s * (2 * b + 1) + i]
  BY <1>4, Group
<1> HIDE DEF g, l, r, m
<1>7. Len(g) # 1 /\ Len(g) \div 2 = s
  BY <1>3
<1>8. /\ leftHalf(g) \in TreeInput /\ Len(leftHalf(g)) = s
      /\ \A i \in 1 .. s : leftHalf(g)[i] = g[i]
  BY Zenon, <1>3, <1>7, Halves
<1>9. /\ rightHalf(g) \in TreeInput /\ Len(rightHalf(g)) = s
      /\ \A i \in 1 .. s : rightHalf(g)[i] = g[s + i]
  <2>1. Len(g) - s = s
    BY <1>3
  <2> QED
    BY ZenonT(30), <1>3, <1>7, <2>1, Halves
<1>10. \A i \in 1 .. s : leftHalf(g)[i] = l[i]
  <2> SUFFICES ASSUME NEW i \in 1 .. s PROVE leftHalf(g)[i] = l[i]
    BY Zenon
  <2>1. i \in 1 .. 2 * s
    OBVIOUS
  <2> QED
    BY Zenon, <1>1, <1>3, <1>5, <1>8, <2>1
<1>11. \A i \in 1 .. s : rightHalf(g)[i] = r[i]
  <2> SUFFICES ASSUME NEW i \in 1 .. s PROVE rightHalf(g)[i] = r[i]
    BY Zenon
  <2>1. s + i \in 1 .. 2 * s /\ 2 * m + (s + i) = (2 * m + s) + i
    BY <1>1
  <2> QED
    BY ZenonT(30), <1>1, <1>3, <1>6, <1>9, <2>1
<1>12. leftHalf(g) = l
  BY Zenon, <1>5, <1>8, <1>10, InputElements, SameSeq
<1>13. rightHalf(g) = r
  BY Zenon, <1>6, <1>9, <1>11, InputElements, SameSeq
<1> QED
  BY Zenon, <1>3, <1>12, <1>13 DEF g, l, r

\* The groups of size s are made two by two into those of size 2 * s.
LEMMA GroupRootStep ==
    ASSUME NEW p \in TreeInput, NEW s \in Nat, s > 0, NEW b \in Nat, (2 * s) * (b + 1) =< Len(p)
    PROVE  groupRoot(p, 2 * s, b)
               = combine_hashes(groupRoot(p, s, 2 * b), groupRoot(p, s, 2 * b + 1))
<1> DEFINE g == group(p, 2 * s, b)
<1>1. /\ g \in TreeInput /\ Len(g) = 2 * s
      /\ leftHalf(g) = group(p, s, 2 * b) /\ rightHalf(g) = group(p, s, 2 * b + 1)
  BY Zenon, GroupHalves
<1> HIDE DEF g
<1>2. Len(g) # 1
  BY <1>1
<1> QED
  BY Zenon, <1>1, <1>2, RootOf DEF groupRoot, g

\* The group of all is the list.
LEMMA GroupOfAll ==
    ASSUME NEW p \in TreeInput
    PROVE  group(p, Len(p), 0) = p
<1>1. Len(p) \in Nat /\ Len(p) > 0
  BY Zenon, InputElements
<1>2. Len(p) * (0 + 1) =< Len(p) /\ Len(p) * 0 = 0
  BY <1>1
<1>3. /\ group(p, Len(p), 0) \in TreeInput /\ Len(group(p, Len(p), 0)) = Len(p)
      /\ \A i \in 1 .. Len(p) : group(p, Len(p), 0)[i] = p[Len(p) * 0 + i]
  BY <1>1, <1>2, Group
<1>4. \A i \in 1 .. Len(p) : group(p, Len(p), 0)[i] = p[i]
  BY <1>1, <1>2, <1>3
<1> QED
  BY Zenon, <1>3, <1>4, InputElements, SameSeq

\* A group of one is a leaf, and that of all is the list.
LEMMA GroupRootEnds ==
    ASSUME NEW p \in TreeInput
    PROVE  /\ \A b \in Nat : b < Len(p) => groupRoot(p, 1, b) = p[b + 1]
           /\ groupRoot(p, Len(p), 0) = rootOf(p)
<1>1. Len(p) \in Nat /\ Len(p) > 0 /\ p \in Seq(Leaf)
  BY Zenon, InputElements
<1>2. ASSUME NEW b \in Nat, b < Len(p)
      PROVE  groupRoot(p, 1, b) = p[b + 1]
  <2>1. PICK s \in Nat : s = 1
    BY Zenon
  <2>2. s > 0 /\ s * (b + 1) =< Len(p) /\ s * b = b
    BY <1>1, <1>2, <2>1
  <2>3. /\ group(p, s, b) \in TreeInput /\ Len(group(p, s, b)) = s
        /\ \A i \in 1 .. s : group(p, s, b)[i] = p[s * b + i]
    BY Zenon, <2>2, Group
  <2>4. group(p, s, b)[1] = p[b + 1]
    BY <2>1, <2>2, <2>3
  <2>5. groupRoot(p, s, b) = p[b + 1]
    BY Zenon, <2>1, <2>3, <2>4, RootOf DEF groupRoot
  <2> QED
    BY Zenon, <2>1, <2>5
<1>3. groupRoot(p, Len(p), 0) = rootOf(p)
  BY Zenon, GroupOfAll DEF groupRoot
<1> QED
  BY Zenon, <1>2, <1>3

\* The groups of a list are those of its left half and then those of its right half.
LEMMA HalfGroups ==
    ASSUME NEW p \in TreeInput, NEW s \in Nat, s > 0, NEW m \in Nat, Len(p) = 2 * (s * m),
           NEW k \in Nat, k < m
    PROVE  /\ groupRoot(leftHalf(p), s, k) = groupRoot(p, s, k)
           /\ groupRoot(rightHalf(p), s, k) = groupRoot(p, s, m + k)
<1> DEFINE w == s * m
           o == s * k
           l == leftHalf(p)
           r == rightHalf(p)
<1>1. /\ w \in Nat /\ o \in Nat /\ s * (k + 1) = o + s /\ s * (m + k) = w + o
      /\ s * ((m + k) + 1) = w + (o + s)
  OBVIOUS
<1>2. o + s =< w
  <2>1. s * (k + 1) =< s * m
    BY MulMonotone, k + 1 \in Nat, k + 1 =< m
  <2> QED
    BY Zenon, <1>1, <2>1
<1> HIDE DEF w, o
<1>3. Len(p) = 2 * w /\ w > 0
  BY <1>1, <1>2 DEF w
<1>4. Len(p) # 1 /\ Len(p) \div 2 = w /\ Len(p) - w = w
  BY <1>1, <1>3
<1>5. /\ l \in TreeInput /\ Len(l) = w /\ r \in TreeInput /\ Len(r) = w
      /\ \A i \in 1 .. w : l[i] = p[i]
      /\ \A i \in 1 .. w : r[i] = p[w + i]
  BY Zenon, <1>4, Halves
<1> HIDE DEF l, r
<1>6. s * (k + 1) =< Len(l) /\ s * (k + 1) =< Len(r) /\ s * (k + 1) =< Len(p)
      /\ s * ((m + k) + 1) =< Len(p) /\ m + k \in Nat
  BY <1>1, <1>2, <1>3, <1>5
<1>7. /\ group(l, s, k) \in TreeInput /\ Len(group(l, s, k)) = s
      /\ \A i \in 1 .. s : group(l, s, k)[i] = l[o + i]
  BY Zenon, <1>5, <1>6, Group DEF o
<1>8. /\ group(r, s, k) \in TreeInput /\ Len(group(r, s, k)) = s
      /\ \A i \in 1 .. s : group(r, s, k)[i] = r[o + i]
  BY Zenon, <1>5, <1>6, Group DEF o
<1>9. /\ group(p, s, k) \in TreeInput /\ Len(group(p, s, k)) = s
      /\ \A i \in 1 .. s : group(p, s, k)[i] = p[o + i]
  BY Zenon, <1>6, Group DEF o
<1>10. /\ group(p, s, m + k) \in TreeInput /\ Len(group(p, s, m + k)) = s
       /\ \A i \in 1 .. s : group(p, s, m + k)[i] = p[(w + o) + i]
  <2>1. /\ group(p, s, m + k) \in TreeInput /\ Len(group(p, s, m + k)) = s
        /\ \A i \in 1 .. s : group(p, s, m + k)[i] = p[s * (m + k) + i]
    BY Zenon, <1>6, Group
  <2> QED
    BY Zenon, <1>1, <2>1
<1>11. \A i \in 1 .. s : o + i \in 1 .. w /\ w + (o + i) = (w + o) + i
  BY <1>1, <1>2
<1>12. group(l, s, k) = group(p, s, k)
  <2>1. \A i \in 1 .. s : group(l, s, k)[i] = group(p, s, k)[i]
    BY Zenon, <1>5, <1>7, <1>9, <1>11
  <2> QED
    BY Zenon, <1>7, <1>9, <2>1, InputElements, SameSeq
<1>13. group(r, s, k) = group(p, s, m + k)
  <2>1. \A i \in 1 .. s : group(r, s, k)[i] = group(p, s, m + k)[i]
    BY Zenon, <1>5, <1>8, <1>10, <1>11
  <2> QED
    BY Zenon, <1>8, <1>10, <2>1, InputElements, SameSeq
<1> QED
  BY Zenon, <1>12, <1>13 DEF groupRoot, l, r

\* The elements of a are the roots of the groups of size s of b.
Parts(a, b, s) == \A k \in Nat : k < Len(a) => a[k + 1] = groupRoot(b, s, k)

\* The halves of a are the roots of the groups of the halves of b exactly if a is
\* the roots of those of b.
LEMMA HalfParts ==
    ASSUME NEW a \in TreeInput, NEW b \in TreeInput, NEW s \in Nat, s > 0,
           NEW m \in Nat, m > 0, Len(a) = 2 * m, Len(b) = 2 * (s * m)
    PROVE  Parts(a, b, s) <=> /\ Parts(leftHalf(a), leftHalf(b), s)
                              /\ Parts(rightHalf(a), rightHalf(b), s)
<1> DEFINE l == leftHalf(a)
           r == rightHalf(a)
<1>1. Len(a) # 1 /\ Len(a) \div 2 = m /\ Len(a) - m = m
  OBVIOUS
<1>2. /\ Len(l) = m /\ Len(r) = m
      /\ \A i \in 1 .. m : l[i] = a[i]
      /\ \A i \in 1 .. m : r[i] = a[m + i]
  BY Zenon, <1>1, Halves
<1> HIDE DEF l, r
<1>3. ASSUME NEW k \in Nat, k < m
      PROVE  /\ l[k + 1] = a[k + 1] /\ r[k + 1] = a[(m + k) + 1]
             /\ groupRoot(leftHalf(b), s, k) = groupRoot(b, s, k)
             /\ groupRoot(rightHalf(b), s, k) = groupRoot(b, s, m + k)
  <2>1. k + 1 \in 1 .. m /\ m + (k + 1) = (m + k) + 1
    BY <1>3
  <2>2. l[k + 1] = a[k + 1] /\ r[k + 1] = a[(m + k) + 1]
    <3>1. l[k + 1] = a[k + 1] /\ r[k + 1] = a[m + (k + 1)]
      BY Zenon, <1>2, <2>1
    <3> QED
      BY Zenon, <2>1, <3>1
  <2>3. /\ groupRoot(leftHalf(b), s, k) = groupRoot(b, s, k)
        /\ groupRoot(rightHalf(b), s, k) = groupRoot(b, s, m + k)
    BY ONLY Zenon, <1>3, b \in TreeInput, s \in Nat, s > 0, m \in Nat, Len(b) = 2 * (s * m),
            k \in Nat, HalfGroups
  <2> QED
    BY Zenon, <2>2, <2>3
<1>4. \A k \in Nat : k < 2 * m => k < m \/ \E j \in Nat : j < m /\ k = m + j
  <2> SUFFICES ASSUME NEW k \in Nat, k < 2 * m, ~(k < m) PROVE \E j \in Nat : j < m /\ k = m + j
    BY Zenon
  <2> WITNESS k - m \in Nat
  <2> QED OBVIOUS
<1>5. \A k \in Nat : k < m => k < 2 * m /\ m + k \in Nat /\ m + k < 2 * m
  OBVIOUS
<1>6. ASSUME Parts(a, b, s) PROVE Parts(l, leftHalf(b), s) /\ Parts(r, rightHalf(b), s)
  BY Zenon, <1>2, <1>3, <1>5, <1>6 DEF Parts
<1>7. ASSUME Parts(l, leftHalf(b), s), Parts(r, rightHalf(b), s) PROVE Parts(a, b, s)
  <2> SUFFICES ASSUME NEW k \in Nat, k < 2 * m PROVE a[k + 1] = groupRoot(b, s, k)
    BY Zenon DEF Parts
  <2>1. CASE k < m
    BY Zenon, <1>2, <1>3, <1>7, <2>1 DEF Parts
  <2>2. CASE \E j \in Nat : j < m /\ k = m + j
    BY Zenon, <1>2, <1>3, <1>7, <2>2 DEF Parts
  <2> QED
    BY Zenon, <1>4, <2>1, <2>2
<1> QED
  BY Zenon, <1>6, <1>7 DEF l, r

\* Two lists have the same root exactly if the one is the roots of equal parts of the
\* other.
LEMMA RootOfParts ==
    ASSUME NEW d \in Nat, NEW e \in Nat, NEW a \in TreeInput, NEW b \in TreeInput,
           Len(a) = pow2[e], Len(b) = pow2[d + e]
    PROVE  rootOf(a) = rootOf(b) <=> Parts(a, b, pow2[d])
<1> DEFINE s == pow2[d]
           X == {n \in Nat : \A x \in TreeInput, y \in TreeInput :
                    Len(x) = pow2[n] /\ Len(y) = pow2[d + n] =>
                        (rootOf(x) = rootOf(y) <=> Parts(x, y, s))}
<1>0. s \in Nat /\ s > 0 /\ pow2[0] = 1
  <2>1. s \in Nat /\ s > d /\ pow2[0] = 1
    BY Zenon, Pow2Nat, Pow2Step
  <2> HIDE DEF s
  <2> QED
    BY <2>1
<1> HIDE DEF s
<1>1. ASSUME NEW n \in Nat, \A k \in Nat : k < n => k \in X
      PROVE  n \in X
  <2> SUFFICES ASSUME NEW x \in TreeInput, NEW y \in TreeInput,
                      Len(x) = pow2[n], Len(y) = pow2[d + n]
               PROVE  rootOf(x) = rootOf(y) <=> Parts(x, y, s)
    BY Zenon
  <2>1. CASE n = 0
    <3>1. Len(x) = 1 /\ d + n = d
      BY <1>0, <2>1
    <3>2. rootOf(x) = x[1] /\ groupRoot(y, s, 0) = rootOf(y)
      BY Zenon, <3>1, RootOf, GroupRootEnds DEF s
    <3>3. Parts(x, y, s) <=> x[0 + 1] = groupRoot(y, s, 0)
      <4>1. \A k \in Nat : k < 1 <=> k = 0
        OBVIOUS
      <4> QED
        BY Zenon, <3>1, <4>1 DEF Parts
    <3>4. 0 + 1 = 1
      OBVIOUS
    <3> QED
      BY Zenon, <3>2, <3>3, <3>4
  <2>2. CASE n # 0
    <3>1. PICK i \in Nat : n = i + 1
      BY <2>2, n - 1 \in Nat
    <3> DEFINE m == pow2[i]
    <3>2. m \in Nat /\ m > 0 /\ pow2[n] = 2 * m
      <4>1. m \in Nat /\ m > i /\ pow2[n] = 2 * m
        BY Zenon, <3>1, Pow2Nat, Pow2Step
      <4> HIDE DEF m
      <4> QED
        BY <4>1
    <3>3. Len(y) = 2 * (s * m) /\ pow2[d + i] = s * m
      <4>1. d + n = (d + i) + 1 /\ d + i \in Nat
        BY <3>1
      <4>2. pow2[(d + i) + 1] = 2 * pow2[d + i]
        BY Zenon, <4>1, Pow2Step
      <4>3. pow2[d + i] = s * m
        BY Zenon, Pow2Product DEF s
      <4> QED
        BY Zenon, <4>1, <4>2, <4>3
    <3> HIDE DEF m
    <3>4. Len(x) = 2 * m /\ Len(x) # 1 /\ Len(x) \div 2 = m /\ Len(x) - m = m
      BY <3>2
    <3> DEFINE w == s * m
    <3>5. w \in Nat /\ w > 0
      BY <1>0, <3>2
    <3>6. Len(y) = 2 * w /\ pow2[d + i] = w
      BY Zenon, <3>3
    <3> HIDE DEF w
    <3>7. Len(y) # 1 /\ Len(y) \div 2 = w /\ Len(y) - w = w
      BY <3>5, <3>6
    <3>8. /\ leftHalf(x) \in TreeInput /\ Len(leftHalf(x)) = pow2[i]
          /\ rightHalf(x) \in TreeInput /\ Len(rightHalf(x)) = pow2[i]
      BY Zenon, <3>4, Halves DEF m
    <3>9. /\ leftHalf(y) \in TreeInput /\ Len(leftHalf(y)) = pow2[d + i]
          /\ rightHalf(y) \in TreeInput /\ Len(rightHalf(y)) = pow2[d + i]
      BY Zenon, <3>6, <3>7, Halves
    <3>10. i \in X
      <4> HIDE DEF X
      <4> QED BY <1>1, <3>1
    <3>11. /\ rootOf(leftHalf(x)) = rootOf(leftHalf(y)) <=> Parts(leftHalf(x), leftHalf(y), s)
           /\ rootOf(rightHalf(x)) = rootOf(rightHalf(y)) <=> Parts(rightHalf(x), rightHalf(y), s)
      BY Zenon, <3>8, <3>9, <3>10
    <3>12. /\ rootOf(x) = combine_hashes(rootOf(leftHalf(x)), rootOf(rightHalf(x)))
           /\ rootOf(y) = combine_hashes(rootOf(leftHalf(y)), rootOf(rightHalf(y)))
      BY Zenon, <3>4, <3>7, RootOf
    <3>13. rootOf(x) = rootOf(y) <=> /\ rootOf(leftHalf(x)) = rootOf(leftHalf(y))
                                     /\ rootOf(rightHalf(x)) = rootOf(rightHalf(y))
      <4> DEFINE lx == rootOf(leftHalf(x))
                 rx == rootOf(rightHalf(x))
                 ly == rootOf(leftHalf(y))
                 ry == rootOf(rightHalf(y))
      <4>1. rootOf(x) = combine_hashes(lx, rx) /\ rootOf(y) = combine_hashes(ly, ry)
        BY Zenon, <3>12
      <4> HIDE DEF lx, rx, ly, ry
      <4>2. combine_hashes(lx, rx) = combine_hashes(ly, ry) <=> lx = ly /\ rx = ry
        BY Zenon, CombineInjective
      <4> QED
        BY Zenon, <4>1, <4>2 DEF lx, rx, ly, ry
    <3>14. Parts(x, y, s) <=> /\ Parts(leftHalf(x), leftHalf(y), s)
                              /\ Parts(rightHalf(x), rightHalf(y), s)
      BY Zenon, <1>0, <3>2, <3>3, <3>4, HalfParts
    <3> QED
      BY Zenon, <3>11, <3>13, <3>14
  <2> QED
    BY Zenon, <2>1, <2>2
<1>2. Nat \subseteq X
  <2> HIDE DEF X
  <2> QED BY Zenon, <1>1, NatClosed
<1> QED
  BY Zenon, <1>2 DEF s

-----------------------------------------------------------------------------
(* The inductive invariant *)

\* path, as an operator of the list.
truePath(hs, index) ==
    [k \in 1 .. levels(hs) |->
        groupRoot(pad_to_power_of_two(hs), pow2[k - 1], neighbour(index \div pow2[k - 1]))]

\* The first n elements of a path.
elements(f, n) == {f[i] : i \in 1 .. n}

\* The levels that collect_siblings has still to go through.
descend == levels(hashes) - Len(proof.siblings)

\* The proof under construction: the part of the list that is left has one
\* level less for every sibling that is collected.
Collecting ==
    /\ hashes # <<>>
    /\ current \in TreeInput
    /\ proof = [index |-> proof.index, leaf |-> proof.leaf, siblings |-> proof.siblings]
    /\ proof.index \in Nat /\ proof.index < Len(hashes)
    /\ proof.leaf = hashes[proof.index + 1]
    /\ proof.siblings \in Seq(Leaf)
    /\ descend \in Nat /\ Len(current) = pow2[descend]
    /\ phase = "collect" => idx \in Nat /\ idx < Len(current)
    /\ phase = "verify" => Len(current) = 1

\* The leaf at the place of the index in the group next to its own, of size s.
across(hs, index, s) ==
    LET q == index \div s
    IN  pad_to_power_of_two(hs)[(s * neighbour(q) + (index - s * q)) + 1]

\* What is left of the list is the group b, and idx the place of the index in it.
Within(b) ==
    LET p == pad_to_power_of_two(hashes)
        s == pow2[descend]
    IN  /\ s * (b + 1) =< Len(p)
        /\ current = group(p, s, b)
        /\ proof.index = s * b + idx

\* The siblings are the leaves across, from the halves of the list down to the
\* leaves next to each other.
Collected ==
    /\ phase = "collect" => \E b \in Nat : Within(b)
    /\ \A i \in 1 .. Len(proof.siblings) :
          proof.siblings[i] = across(hashes, proof.index, pow2[levels(hashes) - i])

\* The levels that the loop of compute_root has been through.
climbed == levels(hashes) - Len(rest)

\* The root of the subtree that the loop has reached.
reached == groupRoot(pad_to_power_of_two(hashes), pow2[climbed], idx)

rightLeaf == received.leaf = hashes[received.index + 1]

\* The siblings that the loop has used are those of the true path.
rightSiblings == \A i \in 1 .. climbed : received.siblings[i] = truePath(hashes, received.index)[i]

\* idx is the group of pow2[climbed] leaves that holds the index, and the hash so
\* far is that of the group exactly if the leaf and the siblings are right.
Verifying ==
    /\ received.index \in Nat /\ received.index < Len(hashes)
    /\ received.siblings \in Seq(elements(received.siblings, levels(hashes)))
    /\ Len(received.siblings) = levels(hashes)
    /\ rest \in Seq(elements(received.siblings, levels(hashes)))
    /\ climbed \in Nat
    /\ \A i \in 1 .. Len(rest) : rest[i] = received.siblings[climbed + i]
    /\ idx \in Nat /\ idx < pow2[Len(rest)]
    /\ pow2[climbed] * idx =< received.index
    /\ received.index < pow2[climbed] * (idx + 1)
    /\ computed = reached <=> rightLeaf /\ rightSiblings

Inv ==
    /\ hashes \in Lists
    /\ phase \in {"new", "none", "collect", "verify"}
    /\ phase \in {"collect", "verify"} => Collecting /\ Collected
    /\ phase = "verify" => Verifying

-----------------------------------------------------------------------------
(* Arithmetic of the loops *)

\* The quotient is the group an index is in.
LEMMA Quotient ==
    ASSUME NEW r \in Nat, NEW s \in Nat, s > 0, NEW q \in Nat, s * q =< r, r < s * (q + 1)
    PROVE  r \div s = q
<1>1. r \div s \in Nat /\ s * (r \div s) =< r /\ r < s * (r \div s + 1)
  OBVIOUS
<1> DEFINE t == r \div s
<1> HIDE DEF t
<1>2. t \in Nat /\ s * t =< r /\ r < s * (t + 1)
  BY Zenon, <1>1 DEF t
<1>3. ~(t < q)
  <2> SUFFICES ASSUME t < q PROVE FALSE
    BY Zenon
  <2>1. s * (t + 1) =< s * q
    BY <1>2, MulMonotone, t + 1 \in Nat, t + 1 =< q
  <2>2. s * (t + 1) \in Nat /\ s * q \in Nat
    BY <1>2
  <2> QED
    BY <1>2, <2>1, <2>2
<1>4. ~(q < t)
  <2> SUFFICES ASSUME q < t PROVE FALSE
    BY Zenon
  <2>1. s * (q + 1) =< s * t
    BY <1>2, MulMonotone, q + 1 \in Nat, q + 1 =< t
  <2>2. s * (q + 1) \in Nat /\ s * t \in Nat
    BY <1>2
  <2> QED
    BY <1>2, <2>1, <2>2
<1> QED
  BY <1>2, <1>3, <1>4 DEF t

\* A group is the left or the right half of the group that its half numbers.
LEMMA HalfOf ==
    ASSUME NEW q \in Nat
    PROVE  /\ q \div 2 \in Nat
           /\ q % 2 = 0 => q = 2 * (q \div 2) /\ neighbour(q) = 2 * (q \div 2) + 1
           /\ q % 2 # 0 => q = 2 * (q \div 2) + 1 /\ neighbour(q) = 2 * (q \div 2)
  BY DEF neighbour

\* One level up, the index is in the group that half of the number numbers.
LEMMA GroupUp ==
    ASSUME NEW r \in Nat, NEW s \in Nat, s > 0, NEW q \in Nat, s * q =< r, r < s * (q + 1)
    PROVE  (2 * s) * (q \div 2) =< r /\ r < (2 * s) * (q \div 2 + 1)
<1> DEFINE b == q \div 2
           m == s * b
<1>1. b \in Nat /\ (q = 2 * b \/ q = 2 * b + 1)
  BY Zenon, HalfOf
<1> HIDE DEF b
<1>2. /\ m \in Nat /\ (2 * s) * b = 2 * m /\ (2 * s) * (b + 1) = 2 * m + 2 * s
      /\ s * (2 * b) = 2 * m /\ s * (2 * b + 1) = 2 * m + s
      /\ s * ((2 * b + 1) + 1) = 2 * m + 2 * s
  BY <1>1
<1> HIDE DEF m
<1>3. CASE q = 2 * b
  <2>1. 2 * m =< r /\ r < 2 * m + s
    BY Zenon, <1>2, <1>3
  <2> QED
    BY <1>2, <2>1 DEF b
<1>4. CASE q = 2 * b + 1
  <2>1. 2 * m + s =< r /\ r < 2 * m + 2 * s
    BY Zenon, <1>2, <1>4
  <2> QED
    BY <1>2, <2>1 DEF b
<1> QED
  BY Zenon, <1>1, <1>3, <1>4

\* The group one level up is within the list, and its root is made from that of
\* the group and that of its neighbour.
LEMMA RootUp ==
    ASSUME NEW p \in TreeInput, NEW d \in Nat, NEW e \in Nat, Len(p) = pow2[d + (e + 1)],
           NEW q \in Nat, q < pow2[e + 1]
    PROVE  LET s == pow2[d]
               b == q \div 2
           IN  /\ b \in Nat /\ b < pow2[e]
               /\ groupRoot(p, pow2[d + 1], b) =
                      IF q % 2 = 0 THEN combine_hashes(groupRoot(p, s, q), groupRoot(p, s, neighbour(q)))
                      ELSE combine_hashes(groupRoot(p, s, neighbour(q)), groupRoot(p, s, q))
<1> DEFINE s == pow2[d]
           b == q \div 2
<1>1. /\ s \in Nat /\ s > 0 /\ pow2[e] \in Nat
      /\ pow2[e + 1] = 2 * pow2[e] /\ pow2[d + 1] = 2 * s
  <2>1. s \in Nat /\ s > d /\ pow2[e] \in Nat
    BY Zenon, Pow2Nat
  <2>2. pow2[e + 1] = 2 * pow2[e] /\ pow2[d + 1] = 2 * s
    BY Zenon, Pow2Step
  <2> HIDE DEF s
  <2> QED
    BY <2>1, <2>2
<1>2. /\ b \in Nat
      /\ q % 2 = 0 => q = 2 * b /\ neighbour(q) = 2 * b + 1
      /\ q % 2 # 0 => q = 2 * b + 1 /\ neighbour(q) = 2 * b
  BY Zenon, HalfOf
<1> HIDE DEF s, b
<1>3. b < pow2[e]
  <2>1. q = 2 * b \/ q = 2 * b + 1
    BY Zenon, <1>2
  <2> QED
    BY <1>1, <1>2, <2>1
<1>4. (2 * s) * (b + 1) =< Len(p)
  <2>1. (2 * s) * (b + 1) =< (2 * s) * pow2[e]
    BY <1>1, <1>2, <1>3, MulMonotone, b + 1 \in Nat, b + 1 =< pow2[e], 2 * s \in Nat
  <2>2. pow2[d + 1] * pow2[e] = pow2[(d + 1) + e]
    BY Pow2Product
  <2>3. (d + 1) + e = d + (e + 1)
    OBVIOUS
  <2> QED
    BY Zenon, <1>1, <2>1, <2>2, <2>3
<1>5. groupRoot(p, 2 * s, b) = combine_hashes(groupRoot(p, s, 2 * b), groupRoot(p, s, 2 * b + 1))
  BY Zenon, <1>1, <1>2, <1>4, GroupRootStep
<1>6. groupRoot(p, pow2[d + 1], b) =
          IF q % 2 = 0 THEN combine_hashes(groupRoot(p, s, q), groupRoot(p, s, neighbour(q)))
          ELSE combine_hashes(groupRoot(p, s, neighbour(q)), groupRoot(p, s, q))
  <2>1. CASE q % 2 = 0
    BY Zenon, <1>1, <1>2, <1>5, <2>1
  <2>2. CASE q % 2 # 0
    BY Zenon, <1>1, <1>2, <1>5, <2>2
  <2> QED
    BY Zenon, <2>1, <2>2
<1> QED
  BY Zenon, <1>2, <1>3, <1>6 DEF s, b

\* A power of two that is 1 is the first one.
LEMMA Pow2One ==
    ASSUME NEW k \in Nat, pow2[k] = 1
    PROVE  k = 0
  BY Pow2Nat

-----------------------------------------------------------------------------
(* The invariant is kept *)

LEMMA InitInv == Init => Inv
  BY Zenon DEF Init, Inv

LEMMA GenerateProofStep ==
    ASSUME Inv, NEW index \in 0 .. MaxLeaves, GenerateProof(index)
    PROVE  Inv'
<1> DEFINE p == pad_to_power_of_two(hashes)
<1>1. hashes' = hashes /\ hashes \in Lists /\ hashes \in Seq(Leaf) /\ Len(hashes) \in Nat
  BY Zenon, ListsAreSeqs DEF Inv, GenerateProof
<1>2. CASE hashes = <<>> \/ index >= Len(hashes)
  <2>1. phase' = "none"
    BY Zenon, <1>2 DEF GenerateProof
  <2> QED
    BY Zenon, <1>1, <2>1 DEF Inv
<1>3. CASE ~(hashes = <<>> \/ index >= Len(hashes))
  <2>1. /\ phase' = "collect" /\ current' = p /\ idx' = index
        /\ proof' = [index |-> index, leaf |-> hashes[index + 1], siblings |-> <<>>]
    BY Zenon, <1>3 DEF GenerateProof
  <2>2. index \in Nat /\ index < Len(hashes) /\ hashes # <<>>
    BY <1>1, <1>3, MerkleAssumption
  <2>3. /\ p \in TreeInput /\ Len(p) \in Nat /\ Len(hashes) =< Len(p)
        /\ levels(hashes) \in Nat /\ Len(p) = pow2[levels(hashes)]
    BY Zenon, <1>1, <2>2, Padded
  <2> HIDE DEF p
  <2>4. proof'.index = index /\ proof'.leaf = hashes[index + 1] /\ proof'.siblings = <<>>
    BY Zenon, <2>1
  <2>5. Len(proof'.siblings) = 0 /\ proof'.siblings \in Seq(Leaf)
    BY <2>4
  <2>6. descend' = levels(hashes)
    <3>1. descend' = levels(hashes) - Len(proof'.siblings)
      BY Zenon, <1>1 DEF descend, levels
    <3> QED
      BY <2>3, <2>5, <3>1
  <2>7. Collecting'
    <3>1. proof' = [index |-> proof'.index, leaf |-> proof'.leaf, siblings |-> proof'.siblings]
      BY Zenon, <2>1, <2>4
    <3>2. idx' \in Nat /\ idx' < Len(current')
      BY <1>1, <2>1, <2>2, <2>3
    <3> QED
      BY Zenon, <1>1, <2>1, <2>2, <2>3, <2>4, <2>5, <2>6, <3>1, <3>2 DEF Collecting
  <2>8. Collected'
    <3>1. Within(0)'
      <4>1. Len(p) * (0 + 1) =< Len(p) /\ index = Len(p) * 0 + index
        BY <2>2, <2>3
      <4>2. group(p, Len(p), 0) = p
        BY Zenon, <2>3, GroupOfAll
      <4>3. pad_to_power_of_two(hashes') = p /\ pow2[descend'] = Len(p)
        BY Zenon, <1>1, <2>3, <2>6 DEF p
      <4> QED
        BY Zenon, <2>1, <2>4, <4>1, <4>2, <4>3 DEF Within
    <3>2. 1 .. Len(proof'.siblings) = {}
      BY <2>5
    <3> QED
      BY Zenon, <3>1, <3>2 DEF Collected
  <2> QED
    BY Zenon, <1>1, <2>1, <2>7, <2>8 DEF Inv
<1> QED
  BY Zenon, <1>2, <1>3

\* A list of one or two leaves is a tree of at most one level.
LEMMA SmallLevels ==
    ASSUME NEW hs \in Seq(Leaf), hs # <<>>, Len(hs) =< 2
    PROVE  levels(hs) =< 1
<1>1. Len(hs) \in Nat
  OBVIOUS
<1>2. LeastPower(next_power_of_two(Len(hs)), Len(hs))
  BY Zenon, <1>1, NextPower
<1>3. PICK k \in Nat : next_power_of_two(Len(hs)) = pow2[k] /\ (k = 0 \/ pow2[k - 1] < Len(hs))
  BY Zenon, <1>2 DEF LeastPower
<1>4. levels(hs) = k
  BY Zenon, <1>3, Log2 DEF levels
<1>5. CASE k = 0
  BY <1>4, <1>5
<1>6. CASE k # 0
  <2>1. k - 1 \in Nat
    BY <1>6
  <2>2. pow2[k - 1] \in Nat /\ pow2[k - 1] > k - 1
    BY Zenon, <2>1, Pow2Nat
  <2> QED
    BY <1>1, <1>3, <1>4, <1>6, <2>1, <2>2
<1> QED
  BY Zenon, <1>5, <1>6

\* The half of the list in which the index is not.
otherHalf(hs, index) ==
    LET h == pow2[levels(hs) - 1]
    IN  group(pad_to_power_of_two(hs), h, neighbour(index \div h))

\* The ends of a true path: the leaf next to the index, and the root of the other
\* half of the list, one of whose leaves is the one across.
LEMMA PathEnds ==
    ASSUME NEW hs \in Seq(Leaf), NEW index \in Nat, index < Len(hs), levels(hs) # 0
    PROVE  /\ levels(hs) \in Nat
           /\ truePath(hs, index)[1] = across(hs, index, pow2[0])
           /\ otherHalf(hs, index) \in TreeInput
           /\ Len(otherHalf(hs, index)) = pow2[levels(hs) - 1]
           /\ truePath(hs, index)[levels(hs)] = rootOf(otherHalf(hs, index))
           /\ \E i \in 1 .. Len(otherHalf(hs, index)) :
                 across(hs, index, pow2[levels(hs) - 1]) = otherHalf(hs, index)[i]
<1> DEFINE p == pad_to_power_of_two(hs)
           n == levels(hs)
           h == pow2[n - 1]
           q == index \div h
           g == group(p, h, neighbour(q))
<1>1. Len(hs) \in Nat /\ hs # <<>>
  OBVIOUS
<1>2. p \in TreeInput /\ Len(p) \in Nat /\ Len(hs) =< Len(p) /\ n \in Nat /\ Len(p) = pow2[n]
  BY Zenon, <1>1, Padded
<1>3. truePath(hs, index) = [k \in 1 .. n |-> groupRoot(p, pow2[k - 1], neighbour(index \div pow2[k - 1]))]
  BY Zenon DEF truePath
<1>4. PICK k \in Nat : n = k + 1 /\ n - 1 = k
  BY <1>2, n - 1 \in Nat
<1>5. h \in Nat /\ h > 0 /\ Len(p) = 2 * h
  <2>1. pow2[k + 1] = 2 * pow2[k] /\ pow2[k] \in Nat /\ pow2[k] > k
    BY Zenon, Pow2Nat, Pow2Step
  <2>2. h = pow2[k] /\ Len(p) = pow2[k + 1]
    BY Zenon, <1>2, <1>4
  <2> HIDE DEF h
  <2> QED
    BY <2>1, <2>2
<1>6. otherHalf(hs, index) = g /\ across(hs, index, h) = p[(h * neighbour(q) + (index - h * q)) + 1]
  BY Zenon DEF otherHalf, across
<1>7. 1 \in 1 .. n /\ n \in 1 .. n /\ 1 - 1 = 0
  BY <1>4
<1>8. truePath(hs, index)[n] = groupRoot(p, h, neighbour(q))
  BY Zenon, <1>3, <1>7
<1>9. truePath(hs, index)[1] = across(hs, index, pow2[0])
  <2>1. pow2[0] = 1 /\ index \div 1 = index
    BY Pow2Step
  <2>2. truePath(hs, index)[1] = groupRoot(p, 1, neighbour(index))
    <3> HIDE DEF p, n, h, q, g
    <3>1. truePath(hs, index)[1] = groupRoot(p, pow2[1 - 1], neighbour(index \div pow2[1 - 1]))
      BY Zenon, <1>3, <1>7
    <3> QED
      BY Zenon, <1>7, <2>1, <3>1
  <2>3. neighbour(index) \in Nat /\ neighbour(index) < Len(p)
    <3> HIDE DEF h
    <3> QED BY <1>1, <1>2, <1>5 DEF neighbour
  <2>4. groupRoot(p, 1, neighbour(index)) = p[neighbour(index) + 1]
    BY Zenon, <1>2, <2>3, GroupRootEnds
  <2>5. across(hs, index, pow2[0]) = p[(1 * neighbour(index) + (index - 1 * index)) + 1]
    BY Zenon, <2>1 DEF across
  <2>6. (1 * neighbour(index) + (index - 1 * index)) + 1 = neighbour(index) + 1
    BY <2>3
  <2> QED
    BY Zenon, <2>2, <2>4, <2>5, <2>6
<1> HIDE DEF p, n, h
<1>10. h * q =< index /\ index < h * (q + 1) /\ q \in Nat /\ q \in {0, 1}
  <2>1. index < 2 * h
    BY <1>1, <1>2, <1>5
  <2>2. CASE index < h
    <3>1. h * 0 =< index /\ index < h * (0 + 1)
      BY <1>5, <2>2
    <3>2. 0 \in Nat /\ 0 \in {0, 1}
      OBVIOUS
    <3>3. q = 0
      BY Zenon, <1>5, <3>1, <3>2, Quotient
    <3> QED
      BY Zenon, <3>1, <3>2, <3>3
  <2>3. CASE ~(index < h)
    <3>1. h * 1 =< index /\ index < h * (1 + 1)
      BY <1>5, <2>1, <2>3
    <3>2. 1 \in Nat /\ 1 \in {0, 1}
      OBVIOUS
    <3>3. q = 1
      BY Zenon, <1>5, <3>1, <3>2, Quotient
    <3> QED
      BY Zenon, <3>1, <3>2, <3>3
  <2> QED
    BY Zenon, <2>2, <2>3
<1> HIDE DEF q
<1>11. neighbour(q) \in Nat /\ h * (neighbour(q) + 1) =< Len(p)
  BY <1>5, <1>10 DEF neighbour
<1>12. g \in TreeInput /\ Len(g) = h /\ \A i \in 1 .. h : g[i] = p[h * neighbour(q) + i]
  BY Zenon, <1>2, <1>5, <1>11, Group
<1>13. \E i \in 1 .. h : across(hs, index, h) = g[i]
  <2> DEFINE o == h * neighbour(q)
             w == h * q
  <2>1. o \in Nat /\ w \in Nat /\ h * (q + 1) = w + h
    BY <1>5, <1>10, <1>11
  <2>2. w =< index /\ index < w + h
    BY Zenon, <1>10, <2>1
  <2> HIDE DEF o, w
  <2>3. (index - w) + 1 \in 1 .. h /\ o + ((index - w) + 1) = (o + (index - w)) + 1
    BY <1>5, <2>1, <2>2
  <2>4. across(hs, index, h) = p[(o + (index - w)) + 1]
    BY Zenon, <1>6 DEF o, w
  <2>5. \A i \in 1 .. h : g[i] = p[o + i]
    BY Zenon, <1>12 DEF o
  <2> HIDE DEF g
  <2> QED
    BY Zenon, <2>3, <2>4, <2>5
<1> QED
  BY Zenon, <1>2, <1>6, <1>8, <1>9, <1>12, <1>13 DEF n, h, groupRoot

\* The other half of a list of more than two leaves has at least two leaves, and is a
\* list whose root is none of them.
LEMMA OtherHalfRoot ==
    ASSUME NEW hs \in Lists, ~(Len(hs) =< 2), NEW index \in Nat, index < Len(hs)
    PROVE  /\ levels(hs) \in Nat /\ levels(hs) # 0
           /\ \A i \in 1 .. Len(otherHalf(hs, index)) :
                 otherHalf(hs, index)[i] # rootOf(otherHalf(hs, index))
<1> DEFINE n == levels(hs)
           g == otherHalf(hs, index)
<1>1. hs \in Seq(Leaf) /\ Len(hs) \in Nat /\ Len(hs) =< MaxLeaves
  BY Zenon, ListsAreSeqs
<1>2. hs # <<>>
  BY <1>1
<1>3. LeastPower(next_power_of_two(Len(hs)), Len(hs))
  BY <1>1, NextPower
<1>4. PICK k \in Nat : /\ next_power_of_two(Len(hs)) = pow2[k] /\ next_power_of_two(Len(hs)) >= Len(hs)
                       /\ (k = 0 \/ pow2[k - 1] < Len(hs))
  BY Zenon, <1>3 DEF LeastPower
<1>5. n = k
  BY Zenon, <1>4, Log2 DEF levels
<1>6. pow2[0] = 1 /\ pow2[1] = 2
  <2>1. pow2[0] = 1 /\ pow2[0 + 1] = 2 * pow2[0]
    BY Zenon, Pow2Step
  <2> QED
    BY <2>1
<1>7. k # 0 /\ k # 1
  BY <1>1, <1>4, <1>6
<1>8. k - 1 \in Nat /\ k - 1 > 0 /\ pow2[k - 1] < Len(hs)
  BY <1>4, <1>7
<1>9. pow2[k - 1] \in Nat /\ pow2[k - 1] > k - 1
  BY Zenon, <1>8, Pow2Nat
<1>10. g \in TreeInput /\ Len(g) = pow2[k - 1]
  BY Zenon, <1>1, <1>5, <1>7, PathEnds
<1> HIDE DEF g
<1>11. Len(g) \in Nat /\ Len(g) > 1 /\ Len(g) \in 0 .. MaxLeaves
  BY <1>1, <1>8, <1>9, <1>10, MerkleAssumption
<1>12. g \in Seq(Leaf) /\ g \in Lists
  <2>1. g \in Seq(Leaf)
    BY Zenon, <1>10, InputElements
  <2>2. g \in [1 .. Len(g) -> Leaf]
    BY <2>1
  <2> QED
    BY Zenon, <1>11, <2>1, <2>2 DEF Lists
<1>13. DOMAIN g = 1 .. Len(g) /\ g # <<>>
  BY <1>11, <1>12
<1>14. pad_to_power_of_two(g) = g
  <2>1. next_power_of_two(Len(g)) = Len(g)
    BY Zenon, <1>8, <1>10, NextPowerOfPower
  <2>2. /\ pad_to_power_of_two(g) \in TreeInput /\ Len(pad_to_power_of_two(g)) = Len(g)
        /\ \A i \in 1 .. Len(g) : pad_to_power_of_two(g)[i] = g[i]
    BY Zenon, <1>12, <1>13, <2>1, Padded
  <2> QED
    BY Zenon, <1>10, <2>2, InputElements, SameSeq
<1>15. compute_root(g) = rootOf(g)
  BY Zenon, <1>13, <1>14 DEF compute_root, rootOf
<1>16. \A i \in 1 .. Len(g) : g[i] # rootOf(g)
  BY Zenon, <1>11, <1>12, <1>13, <1>15, NoCycleAssumption
<1> QED
  BY Zenon, <1>5, <1>7, <1>16 DEF n, g

\* What an iteration of collect_siblings halves: two halves of a power of two, with
\* the index and that of the sibling inside.
LEMMA Halved ==
    ASSUME Inv, phase = "collect", Len(current) > 1
    PROVE  LET mid == Len(current) \div 2
           IN  /\ descend - 1 \in Nat /\ mid = pow2[descend - 1]
               /\ mid \in Nat /\ mid > 0 /\ Len(current) = 2 * mid
               /\ idx \in Nat /\ idx < Len(current)
               /\ siblingIndex(mid) \in 0 .. Len(current) - 1
               /\ nextIndex(mid) \in Nat /\ nextIndex(mid) < mid
<1> DEFINE mid == Len(current) \div 2
<1>1. /\ current \in TreeInput /\ descend \in Nat /\ Len(current) = pow2[descend]
      /\ idx \in Nat /\ idx < Len(current)
  BY Zenon DEF Inv, Collecting
<1>2. descend # 0
  BY <1>1, Pow2Step
<1>3. PICK j \in Nat : descend = j + 1
  BY <1>1, <1>2, descend - 1 \in Nat
<1>4. Len(current) = 2 * pow2[j] /\ pow2[j] \in Nat /\ pow2[j] > j
  BY Zenon, <1>1, <1>3, Pow2Step, Pow2Nat
<1>5. mid = pow2[j]
  BY <1>4
<1>6. descend - 1 = j
  BY <1>3
<1>7. mid \in Nat /\ mid > 0 /\ Len(current) = 2 * mid
  BY <1>4, <1>5
<1> HIDE DEF mid
<1>8. idx % mid \in 0 .. (mid - 1)
  BY <1>1, <1>7
<1>9. nextIndex(mid) \in Nat /\ nextIndex(mid) < mid
  BY <1>7, <1>8 DEF nextIndex
<1>10. siblingIndex(mid) \in 0 .. Len(current) - 1
  BY <1>1, <1>7, <1>8 DEF siblingIndex
<1> QED
  BY Zenon, <1>1, <1>5, <1>6, <1>7, <1>9, <1>10 DEF mid

\* In the group b of size 2 * s, the half in which the place r is, and the place of
\* the sibling in the other half.
halfAt(s, b, r) == IF r < s THEN 2 * b ELSE 2 * b + 1
placeAt(s, r) == IF r < s THEN s + (r % s) ELSE r % s

\* The index x is in the group q of size s, and the sibling at its place next to it.
Across(s, b, r, x, q) ==
    /\ q \in Nat /\ x \div s = q
    /\ x = s * q + (r % s)
    /\ s * (q + 1) =< (2 * s) * (b + 1)
    /\ (2 * s) * b + placeAt(s, r) = s * neighbour(q) + (x - s * q)

LEMMA PlaceAcross ==
    ASSUME NEW s \in Nat, s > 0, NEW b \in Nat, NEW r \in Nat, r < 2 * s,
           NEW x, x = (2 * s) * b + r
    PROVE  Across(s, b, r, x, halfAt(s, b, r))
<1> DEFINE m == s * b
<1>1. /\ m \in Nat
      /\ (2 * s) * b = 2 * m /\ (2 * s) * (b + 1) = 2 * m + 2 * s
      /\ s * (2 * b) = 2 * m /\ s * (2 * b + 1) = 2 * m + s
      /\ s * ((2 * b + 1) + 1) = 2 * m + 2 * s
  OBVIOUS
<1>2. x = 2 * m + r
  BY Zenon, <1>1
<1> HIDE DEF m
<1>3. neighbour(2 * b) = 2 * b + 1 /\ neighbour(2 * b + 1) = 2 * b
  BY DEF neighbour
<1>4. r % s = r - s * (r \div s)
  OBVIOUS
<1>0. 2 * b \in Nat /\ 2 * b + 1 \in Nat
  OBVIOUS
<1>5. CASE r < s
  <2>1. s * 0 =< r /\ r < s * (0 + 1) /\ s * 0 = 0
    BY <1>5
  <2>2. r \div s = 0
    BY Zenon, <2>1, Quotient
  <2>3. r % s = r
    BY <1>4, <2>1, <2>2
  <2>4. s * (2 * b) =< x /\ x < s * (2 * b + 1) /\ x \in Nat
    BY <1>1, <1>2, <1>5
  <2>5. x \div s = 2 * b
    BY Zenon, <1>0, <2>4, Quotient
  <2>6. x = s * (2 * b) + (r % s)
    BY <1>1, <1>2, <2>3
  <2>7. s * (2 * b + 1) =< (2 * s) * (b + 1)
    BY <1>1
  <2>8. (2 * s) * b + (s + (r % s)) = s * (2 * b + 1) + (x - s * (2 * b))
    BY <1>1, <1>2, <2>3
  <2> QED
    BY Zenon, <1>0, <1>3, <1>5, <2>5, <2>6, <2>7, <2>8 DEF halfAt, placeAt, Across
<1>6. CASE ~(r < s)
  <2>1. s * 1 =< r /\ r < s * (1 + 1) /\ s * 1 = s
    BY <1>6
  <2>2. r \div s = 1
    BY Zenon, <2>1, Quotient
  <2>3. r % s = r - s
    BY <1>4, <2>1, <2>2
  <2>4. s * (2 * b + 1) =< x /\ x < s * ((2 * b + 1) + 1) /\ x \in Nat
    BY <1>1, <1>2, <1>6
  <2>5. x \div s = 2 * b + 1
    BY Zenon, <1>0, <2>4, Quotient
  <2>6. x = s * (2 * b + 1) + (r % s)
    BY <1>1, <1>2, <2>3
  <2>7. s * ((2 * b + 1) + 1) =< (2 * s) * (b + 1)
    BY <1>1
  <2>8. (2 * s) * b + (r % s) = s * (2 * b) + (x - s * (2 * b + 1))
    BY <1>1, <1>2, <2>3
  <2> QED
    BY Zenon, <1>0, <1>3, <1>6, <2>5, <2>6, <2>7, <2>8 DEF halfAt, placeAt, Across
<1> QED
  BY Zenon, <1>5, <1>6

LEMMA CollectSiblingStep ==
    ASSUME Inv, CollectSibling
    PROVE  Inv'
<1> DEFINE mid == Len(current) \div 2
           sib == current[siblingIndex(mid) + 1]
           T == Leaf
<1>1. /\ hashes' = hashes /\ phase' = phase /\ phase = "collect" /\ Len(current) > 1
      /\ proof' = [proof EXCEPT !.siblings = Append(@, sib)]
      /\ current' = IF idx < mid THEN leftHalf(current) ELSE rightHalf(current)
      /\ idx' = nextIndex(mid)
  BY Zenon DEF CollectSibling, leftHalf, rightHalf
<1>2. /\ hashes \in Lists /\ hashes # <<>> /\ current \in TreeInput
      /\ proof = [index |-> proof.index, leaf |-> proof.leaf, siblings |-> proof.siblings]
      /\ proof.index \in Nat /\ proof.index < Len(hashes)
      /\ proof.leaf = hashes[proof.index + 1]
      /\ proof.siblings \in Seq(T)
      /\ descend \in Nat
  BY Zenon, <1>1 DEF Inv, Collecting
<1>3. /\ descend - 1 \in Nat /\ mid = pow2[descend - 1]
      /\ mid \in Nat /\ mid > 0 /\ Len(current) = 2 * mid
      /\ idx \in Nat /\ idx < Len(current)
      /\ siblingIndex(mid) \in 0 .. Len(current) - 1
      /\ nextIndex(mid) \in Nat /\ nextIndex(mid) < mid
  BY Zenon, <1>1, Halved
<1>4. sib \in T
  <2>1. siblingIndex(mid) + 1 \in 1 .. Len(current)
    <3> HIDE DEF mid
    <3> QED BY <1>3
  <2> QED
    BY Zenon, <1>2, <2>1, InputElements
<1>5. current' \in TreeInput /\ Len(current') = mid
  <2>1. /\ leftHalf(current) \in TreeInput /\ Len(leftHalf(current)) = mid
        /\ rightHalf(current) \in TreeInput /\ Len(rightHalf(current)) = Len(current) - mid
    <3>1. Len(current) # 1
      BY SMTT(30), <1>1, <1>3
    <3> QED
      BY Zenon, <1>2, <3>1, Halves
  <2> HIDE DEF mid
  <2>2. Len(current) - mid = mid
    BY <1>3
  <2> QED
    BY Zenon, <1>1, <2>1, <2>2
<1> HIDE DEF mid, sib, T
<1>6. proof' = [index |-> proof.index, leaf |-> proof.leaf, siblings |-> Append(proof.siblings, sib)]
  BY Zenon, <1>1, <1>2
<1>7. /\ proof'.index = proof.index /\ proof'.leaf = proof.leaf
      /\ proof'.siblings = Append(proof.siblings, sib)
  BY Zenon, <1>6
<1>8. /\ proof'.siblings \in Seq(T) /\ Len(proof.siblings) \in Nat
      /\ Len(proof'.siblings) = Len(proof.siblings) + 1
  BY <1>2, <1>4, <1>7
<1>9. descend' = descend - 1
  <2>1. descend' = levels(hashes) - Len(proof'.siblings) /\ descend = levels(hashes) - Len(proof.siblings)
    BY Zenon, <1>1 DEF descend, levels
  <2>2. levels(hashes) \in Nat
    BY Zenon, <1>2, ListsAreSeqs, Padded
  <2> QED
    BY <1>8, <2>1, <2>2
<1>10. Collecting'
  <2>1. proof' = [index |-> proof'.index, leaf |-> proof'.leaf, siblings |-> proof'.siblings]
    BY Zenon, <1>6, <1>7
  <2>2. idx' \in Nat /\ idx' < Len(current')
    BY Zenon, <1>1, <1>3, <1>5
  <2>3. proof'.siblings \in Seq(Leaf)
    BY Zenon, <1>8 DEF T
  <2>4. descend' \in Nat /\ Len(current') = pow2[descend']
    BY Zenon, <1>3, <1>5, <1>9
  <2> QED
    BY Zenon, <1>1, <1>2, <1>5, <1>7, <2>1, <2>2, <2>3, <2>4 DEF Collecting
<1>11. Collected'
  <2> DEFINE p == pad_to_power_of_two(hashes)
             n == levels(hashes)
             len == Len(proof.siblings)
  <2>1. PICK b \in Nat : Within(b)
    BY Zenon, <1>1 DEF Inv, Collected
  <2>2. p \in TreeInput /\ n \in Nat /\ len \in Nat
    BY Zenon, <1>2, <1>8, ListsAreSeqs, Padded
  <2>3. pow2[descend] = 2 * mid
    BY Zenon, <1>1, <1>3 DEF Inv, Collecting
  <2>4. /\ (2 * mid) * (b + 1) =< Len(p) /\ current = group(p, 2 * mid, b)
        /\ proof.index = (2 * mid) * b + idx
    BY Zenon, <2>1, <2>3 DEF Within
  <2> HIDE DEF p, n, len
  <2> DEFINE place == siblingIndex(mid)
  <2>5. idx < 2 * mid
    BY Zenon, <1>3
  <2>a. /\ mid \in Nat /\ mid > 0 /\ place = placeAt(mid, idx)
        /\ nextIndex(mid) = idx % mid /\ proof.index \in Nat
    BY Zenon, <1>2, <1>3 DEF siblingIndex, nextIndex, placeAt
  <2> HIDE DEF place
  <2>b. Across(mid, b, idx, proof.index, halfAt(mid, b, idx))
    BY Zenon, <1>3, <2>4, <2>5, <2>a, PlaceAcross
  <2>c. PICK q \in Nat : q = halfAt(mid, b, idx)
    BY Zenon, <2>b DEF Across
  <2>6. /\ proof.index \div mid = q
        /\ proof.index = mid * q + nextIndex(mid)
        /\ mid * (q + 1) =< (2 * mid) * (b + 1)
        /\ (2 * mid) * b + place = mid * neighbour(q) + (proof.index - mid * q)
    <3>1. Across(mid, b, idx, proof.index, q)
      BY Zenon, <2>b, <2>c
    <3> QED
      BY Zenon, <2>a, <3>1 DEF Across
  <2>7. /\ \A i \in 1 .. 2 * mid : current[i] = p[(2 * mid) * b + i]
        /\ leftHalf(current) = group(p, mid, 2 * b)
        /\ rightHalf(current) = group(p, mid, 2 * b + 1)
    <3>1. mid \in Nat /\ mid > 0
      BY Zenon, <1>3
    <3> QED
      BY ONLY Zenon, <2>2, <2>4, <3>1, b \in Nat, GroupHalves
  <2>8. current' = group(p, mid, q)
    BY Zenon, <1>1, <2>7, <2>c DEF halfAt
  <2>9. sib = across(hashes, proof.index, mid)
    <3>1. place + 1 \in 1 .. 2 * mid /\ (2 * mid) * b \in Nat /\ place \in Nat
      <4>1. place \in 0 .. (2 * mid) - 1 /\ mid \in Nat
        BY Zenon, <1>3 DEF place
      <4> QED
        BY <4>1
    <3> DEFINE o == (2 * mid) * b
    <3>2. sib = p[o + (place + 1)]
      BY Zenon, <2>7, <3>1 DEF sib, place
    <3>3. o \in Nat
      BY Zenon, <3>1
    <3> HIDE DEF o
    <3>4. o + (place + 1) = (o + place) + 1
      BY <3>1, <3>3
    <3>5. o + place = mid * neighbour(q) + (proof.index - mid * q)
      BY Zenon, <2>6 DEF o
    <3> QED
      BY Zenon, <2>6, <3>2, <3>4, <3>5 DEF across, p
  <2>10. Within(q)'
    <3>1. pow2[descend'] = mid /\ pad_to_power_of_two(hashes') = p /\ idx' = nextIndex(mid)
      BY Zenon, <1>1, <1>3, <1>9 DEF p
    <3>2. mid * (q + 1) =< Len(p)
      <4> DEFINE u == mid * (q + 1)
                 v == (2 * mid) * (b + 1)
      <4>1. u \in Nat /\ v \in Nat /\ Len(p) \in Nat
        <5>1. mid \in Nat /\ Len(p) \in Nat
          BY Zenon, <1>3, <2>2, InputElements
        <5> QED
          BY <5>1
      <4>2. u =< v /\ v =< Len(p)
        BY Zenon, <2>4, <2>6
      <4> HIDE DEF u, v
      <4>3. u =< Len(p)
        BY <4>1, <4>2
      <4> QED BY Zenon, <4>3 DEF u
    <3> QED
      BY Zenon, <1>7, <2>6, <2>8, <3>1, <3>2 DEF Within
  <2>11. ASSUME NEW i \in 1 .. Len(proof'.siblings)
         PROVE  proof'.siblings[i] = across(hashes, proof.index, pow2[n - i])
    <3>1. Len(proof'.siblings) = len + 1 /\ n - (len + 1) = descend - 1
      <4>1. descend = n - len
        BY Zenon DEF descend, n, len
      <4> QED
        BY <1>8, <2>2, <4>1 DEF len
    <3>2. CASE i = len + 1
      <4>1. proof'.siblings[i] = sib
        BY <1>2, <1>7, <3>2 DEF len
      <4> QED
        BY Zenon, <1>3, <2>9, <3>1, <3>2, <4>1
    <3>3. CASE i # len + 1
      <4>1. i \in 1 .. len
        BY <2>2, <3>1, <3>3
      <4>2. proof'.siblings[i] = proof.siblings[i]
        BY <1>2, <1>7, <4>1 DEF len
      <4>3. proof.siblings[i] = across(hashes, proof.index, pow2[n - i])
        BY Zenon, <1>1, <4>1 DEF Inv, Collected, len, n
      <4> QED
        BY Zenon, <4>2, <4>3
    <3> QED
      BY Zenon, <3>2, <3>3
  <2>12. levels(hashes)' = n
    BY Zenon, <1>1 DEF levels, n
  <2> QED
    BY Zenon, <1>1, <1>7, <2>6, <2>10, <2>11, <2>12 DEF Collected
<1> QED
  BY Zenon, <1>1, <1>2, <1>10, <1>11 DEF Inv

\* A generated proof has a sibling for every level.
LEMMA GeneratedLength ==
    ASSUME hashes \in Lists, Collecting, Len(current) = 1
    PROVE  levels(hashes) \in Nat /\ Len(proof.siblings) = levels(hashes)
<1>1. descend \in Nat /\ pow2[descend] = 1 /\ hashes # <<>>
  BY Zenon DEF Collecting
<1>2. levels(hashes) \in Nat
  BY Zenon, <1>1, ListsAreSeqs, Padded
<1>3. descend = 0
  BY Zenon, <1>1, Pow2One
<1>4. Len(proof.siblings) \in Nat
  <2> DEFINE T == Leaf
  <2>1. proof.siblings \in Seq(T)
    BY Zenon DEF Collecting
  <2> HIDE DEF T
  <2> QED
    BY <2>1
<1> QED
  BY <1>2, <1>3, <1>4 DEF descend

LEMMA PathIsTrue == \A index : path(index) = truePath(hashes, index)
  BY Zenon DEF path, truePath, levels, subroot, groupRoot, group, rootOf

\* A sequence is one of its elements.
LEMMA OfElements ==
    ASSUME NEW T, NEW s \in Seq(T)
    PROVE  s \in Seq(elements(s, Len(s)))
<1>1. Len(s) \in Nat /\ s = [i \in 1 .. Len(s) |-> s[i]]
  OBVIOUS
<1>2. \A i \in 1 .. Len(s) : s[i] \in elements(s, Len(s))
  BY Zenon DEF elements
<1>3. s \in [1 .. Len(s) -> elements(s, Len(s))]
  BY Zenon, <1>1, <1>2
<1> QED
  BY <1>1, <1>3

LEMMA PathElements ==
    ASSUME NEW hs, NEW index, levels(hs) \in Nat
    PROVE  /\ truePath(hs, index) \in Seq(elements(truePath(hs, index), levels(hs)))
           /\ Len(truePath(hs, index)) = levels(hs)
<1> DEFINE f == truePath(hs, index)
           n == levels(hs)
           S == elements(f, n)
<1>1. f = [i \in 1 .. n |-> f[i]]
  BY Zenon DEF truePath
<1> HIDE DEF f, n
<1>2. \A i \in 1 .. n : f[i] \in S
  BY Zenon DEF elements
<1>3. f \in [1 .. n -> S]
  BY Zenon, <1>1, <1>2
<1>4. n \in Nat
  BY Zenon DEF n
<1> HIDE DEF S
<1>5. f \in Seq(S) /\ Len(f) = n
  BY <1>3, <1>4
<1> QED
  BY Zenon, <1>5 DEF f, n, S

LEMMA ReceiveProofStep ==
    ASSUME Inv, ReceiveProof
    PROVE  Inv'
<1> DEFINE p == pad_to_power_of_two(hashes)
           n == levels(hashes)
<1>1. PICK index \in 0 .. Len(hashes) - 1, leaf \in Leaf,
           siblings \in {proof.siblings, path(proof.index)} :
          /\ received' = [index |-> index, leaf |-> leaf, siblings |-> siblings]
          /\ computed' = leaf
          /\ idx' = index
          /\ rest' = siblings
  BY Zenon DEF ReceiveProof
<1>2. /\ phase = "collect" /\ Len(current) = 1 /\ phase' = "verify"
      /\ hashes' = hashes /\ current' = current /\ proof' = proof
  BY Zenon DEF ReceiveProof, generated
<1>3. /\ hashes \in Lists /\ hashes \in Seq(Leaf) /\ Len(hashes) \in Nat
      /\ hashes # <<>> /\ Collecting /\ Collected
  BY Zenon, <1>2, ListsAreSeqs DEF Inv, Collecting
<1>4. /\ p \in TreeInput /\ n \in Nat /\ Len(p) = pow2[n] /\ Len(p) \in Nat /\ Len(hashes) =< Len(p)
      /\ \A i \in 1 .. Len(hashes) : p[i] = hashes[i]
  BY Zenon, <1>3, Padded
<1>5. siblings \in Seq(elements(siblings, n)) /\ Len(siblings) = n
  <2>1. CASE siblings = proof.siblings
    <3>1. Len(proof.siblings) = n /\ proof.siblings \in Seq(Leaf)
      BY Zenon, <1>2, <1>3, GeneratedLength DEF Collecting
    <3> QED
      BY Zenon, <2>1, <3>1, OfElements
  <2>2. CASE siblings = path(proof.index)
    <3>1. siblings = truePath(hashes, proof.index)
      BY Zenon, <2>2, PathIsTrue
    <3> QED
      BY Zenon, <1>4, <3>1, PathElements
  <2> QED
    BY Zenon, <1>1, <2>1, <2>2
<1>6. index \in Nat /\ index < Len(hashes)
  BY <1>1, <1>3
<1>7. received'.index = index /\ received'.leaf = leaf /\ received'.siblings = siblings
  BY Zenon, <1>1
<1> HIDE DEF p, n
<1>8. climbed' = 0
  <2>1. climbed' = n - Len(siblings)
    BY Zenon, <1>1, <1>2 DEF climbed, n, levels
  <2> QED
    BY <1>4, <1>5, <2>1
<1>9. pow2[0] = 1
  BY Zenon, Pow2Step
<1>10. reached' = hashes[index + 1]
  <2>1. reached' = groupRoot(p, pow2[0], index)
    BY Zenon, <1>1, <1>2, <1>8 DEF reached, p
  <2>2. groupRoot(p, 1, index) = p[index + 1]
    BY <1>3, <1>4, <1>6, GroupRootEnds
  <2>3. p[index + 1] = hashes[index + 1]
    BY <1>3, <1>4, <1>6, index + 1 \in 1 .. Len(hashes)
  <2> QED
    BY Zenon, <1>9, <2>1, <2>2, <2>3
<1>11. Collecting' /\ Collected'
  <2>1. descend' = descend /\ levels(hashes)' = levels(hashes)
    BY Zenon, <1>2 DEF descend, levels
  <2>2. Collecting'
    BY Zenon, <1>2, <1>3, <2>1 DEF Collecting
  <2>3. Collected'
    BY Zenon, <1>2, <1>3, <2>1 DEF Collected
  <2> QED
    BY Zenon, <2>2, <2>3
<1>12. Verifying'
  <2>1. received'.index \in Nat /\ received'.index < Len(hashes')
    BY Zenon, <1>2, <1>6, <1>7
  <2>2. rest' \in Seq(elements(received'.siblings, levels(hashes')))
    BY Zenon, <1>1, <1>2, <1>5, <1>7 DEF n
  <2>3. climbed' \in Nat /\ \A i \in 1 .. Len(rest') : rest'[i] = received'.siblings[climbed' + i]
    BY <1>1, <1>4, <1>5, <1>7, <1>8
  <2>4. idx' \in Nat /\ idx' < pow2[Len(rest')]
    BY <1>1, <1>3, <1>4, <1>5, <1>6
  <2>5. pow2[climbed'] * idx' =< received'.index /\ received'.index < pow2[climbed'] * (idx' + 1)
    <3>1. idx' = index /\ received'.index = index /\ pow2[climbed'] = 1
      BY Zenon, <1>1, <1>7, <1>8, <1>9
    <3> QED
      BY <1>6, <3>1
  <2>6. computed' = leaf /\ (rightLeaf' <=> leaf = hashes[index + 1])
    BY Zenon, <1>1, <1>2, <1>7 DEF rightLeaf
  <2>7. rightSiblings'
    BY <1>8 DEF rightSiblings
  <2>8. computed' = reached' <=> rightLeaf' /\ rightSiblings'
    BY Zenon, <1>10, <2>6, <2>7
  <2>9. /\ received'.siblings \in Seq(elements(received'.siblings, levels(hashes')))
        /\ Len(received'.siblings) = levels(hashes')
    BY Zenon, <1>2, <1>5, <1>7 DEF n
  <2> QED
    BY Zenon, <2>1, <2>2, <2>3, <2>4, <2>5, <2>8, <2>9 DEF Verifying
<1> QED
  BY Zenon, <1>2, <1>3, <1>11, <1>12 DEF Inv

\* The first element of a sequence and the others.
LEMMA HeadAndTail ==
    ASSUME NEW T, NEW s \in Seq(T), s # <<>>
    PROVE  /\ Len(s) \in Nat /\ Len(s) > 0 /\ Head(s) = s[1]
           /\ Tail(s) \in Seq(T) /\ Len(Tail(s)) = Len(s) - 1
           /\ \A i \in 1 .. (Len(s) - 1) : Tail(s)[i] = s[i + 1]
  OBVIOUS

LEMMA VerifyStepStep ==
    ASSUME Inv, VerifyStep
    PROVE  Inv'
<1> DEFINE p == pad_to_power_of_two(hashes)
           n == levels(hashes)
           S == elements(received.siblings, n)
           s == pow2[climbed]
<1>1. /\ phase = "verify" /\ rest # <<>> /\ phase' = phase
      /\ computed' = IF idx % 2 = 0 THEN combine_hashes(computed, Head(rest))
                                    ELSE combine_hashes(Head(rest), computed)
      /\ idx' = idx \div 2 /\ rest' = Tail(rest)
      /\ hashes' = hashes /\ current' = current /\ proof' = proof /\ received' = received
  BY Zenon DEF VerifyStep, isLeftChild
<1>2. /\ hashes \in Lists /\ Collecting /\ Collected /\ Verifying
      /\ hashes # <<>> /\ Len(current) = 1
  BY Zenon, <1>1 DEF Inv, Collecting
<1>3. /\ received.index \in Nat /\ received.index < Len(hashes)
      /\ rest \in Seq(S) /\ climbed \in Nat
      /\ \A i \in 1 .. Len(rest) : rest[i] = received.siblings[climbed + i]
      /\ idx \in Nat /\ idx < pow2[Len(rest)]
      /\ s * idx =< received.index /\ received.index < s * (idx + 1)
  BY Zenon, <1>2 DEF Verifying
<1>4. p \in TreeInput /\ n \in Nat /\ Len(p) = pow2[n]
  BY Zenon, <1>2, ListsAreSeqs, Padded
<1> HIDE DEF p, n, S, s
<1>5. /\ Len(rest) \in Nat /\ Len(rest) > 0 /\ Head(rest) = rest[1]
      /\ rest' \in Seq(S) /\ Len(rest') = Len(rest) - 1
      /\ \A i \in 1 .. (Len(rest) - 1) : rest'[i] = rest[i + 1]
  BY Zenon, <1>1, <1>3, HeadAndTail
<1>6. PICK e \in Nat : Len(rest) = e + 1 /\ Len(rest') = e
  BY <1>5, Len(rest) - 1 \in Nat
<1>7. climbed = n - Len(rest) /\ climbed' = n - Len(rest')
  BY Zenon, <1>1 DEF climbed, n, levels
<1>8. n = climbed + (e + 1) /\ climbed' = climbed + 1
  BY <1>3, <1>4, <1>6, <1>7
<1>9. s \in Nat /\ s > 0 /\ pow2[climbed'] = 2 * s
  <2>1. s \in Nat /\ s > climbed
    BY Zenon, <1>3, Pow2Nat DEF s
  <2>2. pow2[climbed'] = 2 * s
    BY Zenon, <1>3, <1>8, Pow2Step DEF s
  <2> QED
    BY <1>3, <2>1, <2>2
<1> DEFINE here == groupRoot(p, s, idx)
           next == groupRoot(p, s, neighbour(idx))
<1>10. reached = here /\ reached' = groupRoot(p, pow2[climbed + 1], idx \div 2)
  BY Zenon, <1>1, <1>8 DEF reached, p, s
<1>11. /\ idx \div 2 \in Nat /\ idx \div 2 < pow2[e]
       /\ reached' = IF idx % 2 = 0 THEN combine_hashes(here, next) ELSE combine_hashes(next, here)
  <2>1. Len(p) = pow2[climbed + (e + 1)] /\ idx < pow2[e + 1]
    BY Zenon, <1>3, <1>4, <1>6, <1>8
  <2>2. climbed \in Nat /\ idx \in Nat /\ p \in TreeInput
    BY Zenon, <1>3, <1>4
  <2>3. /\ idx \div 2 \in Nat /\ idx \div 2 < pow2[e]
        /\ groupRoot(p, pow2[climbed + 1], idx \div 2) =
               IF idx % 2 = 0
               THEN combine_hashes(groupRoot(p, pow2[climbed], idx),
                                   groupRoot(p, pow2[climbed], neighbour(idx)))
               ELSE combine_hashes(groupRoot(p, pow2[climbed], neighbour(idx)),
                                   groupRoot(p, pow2[climbed], idx))
    BY ONLY <2>1, <2>2, RootUp, e \in Nat, ZenonT(30)
  <2> QED
    BY Zenon, <1>10, <2>3 DEF s
<1> HIDE DEF here, next
<1>12. /\ pow2[climbed'] * idx' =< received.index
       /\ received.index < pow2[climbed'] * (idx' + 1)
  BY Zenon, <1>1, <1>3, <1>9, GroupUp
<1>13. \A i \in 1 .. Len(rest') : rest'[i] = received.siblings[climbed' + i]
  <2> SUFFICES ASSUME NEW i \in 1 .. Len(rest') PROVE rest'[i] = received.siblings[climbed' + i]
    BY Zenon
  <2>1. i \in 1 .. (Len(rest) - 1) /\ i + 1 \in 1 .. Len(rest) /\ climbed + (i + 1) = climbed' + i
    BY <1>3, <1>5, <1>6, <1>8
  <2> QED
    BY Zenon, <1>3, <1>5, <2>1
<1>14. computed' = reached' <=> computed = here /\ Head(rest) = next
  <2>1. CASE idx % 2 = 0
    <3>1. computed' = combine_hashes(computed, Head(rest)) /\ reached' = combine_hashes(here, next)
      BY Zenon, <1>1, <1>11, <2>1
    <3> QED
      BY Zenon, <3>1, CombineInjective
  <2>2. CASE idx % 2 # 0
    <3>1. computed' = combine_hashes(Head(rest), computed) /\ reached' = combine_hashes(next, here)
      BY Zenon, <1>1, <1>11, <2>2
    <3> QED
      BY Zenon, <3>1, CombineInjective
  <2> QED
    BY Zenon, <2>1, <2>2
<1>15. rightSiblings' <=> rightSiblings /\ Head(rest) = next
  <2> DEFINE t == truePath(hashes, received.index)
  <2>1. Head(rest) = received.siblings[climbed + 1]
    BY <1>3, <1>5, <1>6, 1 \in 1 .. Len(rest)
  <2>2. climbed + 1 \in 1 .. n /\ (climbed + 1) - 1 = climbed
    BY <1>3, <1>8
  <2>3. t[climbed + 1] = groupRoot(p, s, neighbour(received.index \div s))
    BY Zenon, <2>2 DEF truePath, p, n, s
  <2>4. received.index \div s = idx
    BY Zenon, <1>3, <1>9, Quotient
  <2>5. t[climbed + 1] = next
    BY Zenon, <2>3, <2>4 DEF next
  <2> HIDE DEF t
  <2>6. 1 .. climbed' = (1 .. climbed) \cup {climbed + 1}
    BY <1>3, <1>8
  <2>7. rightSiblings' <=> \A i \in 1 .. climbed' : received.siblings[i] = t[i]
    BY <1>1, Zenon DEF rightSiblings, t
  <2>8. rightSiblings <=> \A i \in 1 .. climbed : received.siblings[i] = t[i]
    BY Zenon DEF rightSiblings, t
  <2> QED
    BY <2>1, <2>5, <2>6, <2>7, <2>8, Zenon
<1>16. Verifying'
  <2>1. rest' \in Seq(elements(received'.siblings, levels(hashes')))
    BY Zenon, <1>1, <1>5 DEF S, n
  <2>2. climbed' \in Nat /\ idx' \in Nat /\ idx' < pow2[Len(rest')]
    BY <1>1, <1>3, <1>6, <1>8, <1>11
  <2>3. computed' = reached' <=> rightLeaf' /\ rightSiblings'
    <3>1. rightLeaf' <=> rightLeaf
      BY Zenon, <1>1 DEF rightLeaf
    <3>2. computed = here <=> rightLeaf /\ rightSiblings
      BY Zenon, <1>2, <1>10 DEF Verifying
    <3> QED
      BY Zenon, <1>14, <1>15, <3>1, <3>2
  <2>4. /\ received'.siblings \in Seq(elements(received'.siblings, levels(hashes')))
        /\ Len(received'.siblings) = levels(hashes')
    BY Zenon, <1>1, <1>2 DEF Verifying
  <2> QED
    BY Zenon, <1>1, <1>3, <1>12, <1>13, <2>1, <2>2, <2>3, <2>4 DEF Verifying
<1>17. Collecting' /\ Collected'
  <2>1. descend' = descend /\ levels(hashes)' = levels(hashes)
    BY Zenon, <1>1 DEF descend, levels
  <2>2. Collecting'
    BY Zenon, <1>1, <1>2, <2>1 DEF Collecting
  <2>3. Collected'
    BY Zenon, <1>1, <1>2, <2>1 DEF Collected
  <2> QED
    BY Zenon, <2>2, <2>3
<1> QED
  BY Zenon, <1>1, <1>2, <1>16, <1>17 DEF Inv

LEMMA UnchangedStep ==
    ASSUME Inv, UNCHANGED vars
    PROVE  Inv'
  BY Zenon DEF Inv, vars, Collecting, Collected, Within, Verifying, descend, climbed, reached, rightLeaf,
         rightSiblings, levels

\* The invariant holds of every list, however long, and every proof.
THEOREM Invariance == Spec => []Inv
<1>1. Inv /\ [Next]_vars => Inv'
  <2> SUFFICES ASSUME Inv, [Next]_vars PROVE Inv'
    BY Zenon
  <2>1. ASSUME NEW index \in 0 .. MaxLeaves, GenerateProof(index) PROVE Inv'
    BY Zenon, <2>1, GenerateProofStep
  <2>2. CASE CollectSibling
    BY Zenon, <2>2, CollectSiblingStep
  <2>3. CASE ReceiveProof
    BY Zenon, <2>3, ReceiveProofStep
  <2>4. CASE VerifyStep
    BY Zenon, <2>4, VerifyStepStep
  <2>5. CASE UNCHANGED vars
    BY Zenon, <2>5, UnchangedStep
  <2> QED
    BY Zenon, <2>1, <2>2, <2>3, <2>4, <2>5 DEF Next
<1> QED
  BY InitInv, <1>1, PTL DEF Spec

-----------------------------------------------------------------------------
(* The properties *)

\* collect_siblings never reads outside of the list it halves, whatever its length.
THEOREM CollectsInBounds == Spec => []CollectInBounds
<1>1. Inv => CollectInBounds
  <2> SUFFICES ASSUME Inv, phase = "collect"
               PROVE  /\ idx < Len(current)
                      /\ Len(current) = next_power_of_two(Len(current))
                      /\ Len(current) > 1 => siblingIndex(Len(current) \div 2) \in 0..Len(current) - 1
    BY Zenon DEF CollectInBounds
  <2>1. idx < Len(current) /\ descend \in Nat /\ Len(current) = pow2[descend]
    BY Zenon DEF Inv, Collecting
  <2>2. Len(current) = next_power_of_two(Len(current))
    BY Zenon, <2>1, NextPowerOfPower
  <2>3. Len(current) > 1 => siblingIndex(Len(current) \div 2) \in 0..Len(current) - 1
    BY Zenon, Halved
  <2> QED
    BY Zenon, <2>1, <2>2, <2>3
<1> QED
  BY Invariance, <1>1, PTL

\* A generated proof has one sibling for every level above the leaves, and tree_depth
\* and MerkleTree::depth count one level more, in trees of any size.
THEOREM DepthsMatch == Spec => []DepthsAgree
<1>1. Inv => DepthsAgree
  <2> SUFFICES ASSUME Inv, generated
               PROVE  /\ Len(proof.siblings) = tree_depth(Len(hashes)) - 1
                      /\ depth(build_tree[pad_to_power_of_two(hashes)]) = tree_depth(Len(hashes))
    BY Zenon DEF DepthsAgree
  <2>1. hashes \in Lists /\ hashes # <<>> /\ Collecting /\ Len(current) = 1
    BY Zenon DEF generated, Inv, Collecting
  <2>2. levels(hashes) \in Nat /\ Len(proof.siblings) = levels(hashes)
    BY Zenon, <2>1, GeneratedLength
  <2>3. tree_depth(Len(hashes)) = levels(hashes) + 1
    <3>1. CASE Len(hashes) =< 1
      <4>1. next_power_of_two(Len(hashes)) = pow2[0]
        BY Zenon, <3>1, Pow2Step DEF next_power_of_two
      <4>2. levels(hashes) = 0
        BY Zenon, <4>1, Log2 DEF levels
      <4> QED
        BY <3>1, <4>2 DEF tree_depth
    <3>2. CASE ~(Len(hashes) =< 1)
      BY Zenon, <3>2 DEF tree_depth, levels
    <3> QED
      BY Zenon, <3>1, <3>2
  <2>4. depth(build_tree[pad_to_power_of_two(hashes)]) = levels(hashes) + 1
    BY Zenon, <2>1, DepthOfTree
  <2> QED
    BY <2>2, <2>3, <2>4
<1> QED
  BY Invariance, <1>1, PTL

\* A list of any length, the empty one included, as the list that its root is made
\* from.
LEMMA Widened ==
    ASSUME NEW hs \in Lists
    PROVE  LET p == pad_to_power_of_two(hs)
           IN  /\ p \in TreeInput /\ Len(p) = width(hs)
               /\ \E k \in Nat : width(hs) = pow2[k]
               /\ \A i \in 1 .. width(hs) : p[i] = at(hs, i)
               /\ compute_root(hs) = rootOf(p)
<1> DEFINE p == pad_to_power_of_two(hs)
<1>1. hs \in Seq(Leaf) /\ Len(hs) \in Nat
  BY Zenon, ListsAreSeqs
<1>2. CASE hs = <<>>
  <2>1. p = <<Zero>> /\ compute_root(hs) = Zero
    BY Zenon, <1>2 DEF pad_to_power_of_two, compute_root
  <2>2. Len(hs) = 0
    BY Zenon, <1>2
  <2>3. width(hs) = 1
    BY <2>2 DEF width, next_power_of_two
  <2>4. p \in Seq(Leaf) /\ Len(p) = 1 /\ p[1] = Zero
    BY <2>1, MerkleAssumption
  <2> HIDE DEF p
  <2>5. p \in TreeInput
    BY <2>4 DEF TreeInput
  <2>6. rootOf(p) = Zero
    BY Zenon, <2>4, <2>5, RootOf
  <2>7. \A i \in 1 .. 1 : p[i] = at(hs, i)
    BY <2>2, <2>4 DEF at
  <2>8. pow2[0] = 1
    BY Zenon, Pow2Step
  <2> QED
    BY Zenon, <2>1, <2>3, <2>4, <2>5, <2>6, <2>7, <2>8 DEF p
<1>3. CASE hs # <<>>
  <2>1. /\ p \in TreeInput /\ Len(p) = width(hs) /\ Len(p) \in Nat
        /\ levels(hs) \in Nat /\ Len(p) = pow2[levels(hs)]
        /\ \A i \in 1 .. Len(hs) : p[i] = hs[i]
        /\ \A i \in 1 .. Len(p) : i > Len(hs) => p[i] = Zero
    BY Zenon, <1>1, <1>3, Padded DEF width
  <2>2. compute_root(hs) = rootOf(p)
    BY Zenon, <1>3 DEF compute_root, rootOf
  <2> HIDE DEF p
  <2>3. ASSUME NEW i \in 1 .. Len(p) PROVE p[i] = at(hs, i)
    <3>1. CASE i =< Len(hs)
      <4>1. i \in 1 .. Len(hs)
        BY <1>1, <2>1, <3>1
      <4> QED
        BY Zenon, <2>1, <3>1, <4>1 DEF at
    <3>2. CASE ~(i =< Len(hs))
      <4>1. i > Len(hs)
        BY <1>1, <2>1, <3>2
      <4> QED
        BY Zenon, <2>1, <3>2, <4>1 DEF at
    <3> QED
      BY Zenon, <3>1, <3>2
  <2> QED
    BY Zenon, <2>1, <2>2, <2>3 DEF p
<1> QED
  BY Zenon, <1>2, <1>3

\* Powers of two divide each other.
LEMMA Pow2Ratio ==
    ASSUME NEW j \in Nat, NEW k \in Nat, pow2[j] =< pow2[k]
    PROVE  \E d \in Nat : k = d + j /\ pow2[k] \div pow2[j] = pow2[d]
<1>1. j =< k
  <2> SUFFICES ASSUME k < j PROVE FALSE
    BY SMT
  <2>1. 2 * pow2[k] =< pow2[j]
    BY Zenon, Pow2Grows
  <2>2. pow2[j] \in Nat /\ pow2[k] \in Nat /\ pow2[k] > k
    BY Zenon, Pow2Nat
  <2> QED
    BY <2>1, <2>2
<1>2. PICK d \in Nat : k = d + j /\ j + d = k
  BY <1>1, k - j \in Nat
<1>3. pow2[j] * pow2[d] = pow2[k]
  BY Zenon, <1>2, Pow2Product
<1> DEFINE s == pow2[j]
           q == pow2[d]
<1>4. s \in Nat /\ s > 0 /\ q \in Nat
  BY Pow2Nat
<1> HIDE DEF s, q
<1>5. s * q \in Nat /\ s * q =< s * q /\ s * q < s * (q + 1)
  BY <1>4
<1>6. (s * q) \div s = q
  BY Zenon, <1>4, <1>5, Quotient
<1>7. pow2[k] \div pow2[j] = pow2[d]
  BY Zenon, <1>3, <1>6 DEF s, q
<1> QED
  BY Zenon, <1>2, <1>7

\* Two lists, of any lengths, have the same root exactly if the one is, padded, the
\* roots of equal parts of the other.
THEOREM RootsBind == Spec => []RootBinds
<1>1. Inv => RootBinds
  <2> SUFFICES ASSUME Inv, NEW other \in {hs \in Lists : width(hs) =< width(hashes)}
               PROVE  compute_root(other) = compute_root(hashes) <=>
                          \A k \in 1..width(other) :
                              at(other, k) = subroot(width(hashes) \div width(other), k - 1)
    BY Zenon DEF RootBinds
  <2> DEFINE a == pad_to_power_of_two(other)
             b == pad_to_power_of_two(hashes)
             w == width(other)
             v == width(hashes)
  <2>1. other \in Lists /\ w =< v /\ hashes \in Lists
    BY Zenon DEF Inv
  <2>2. /\ a \in TreeInput /\ Len(a) = w /\ compute_root(other) = rootOf(a)
        /\ \A i \in 1 .. w : a[i] = at(other, i)
    BY Zenon, <2>1, Widened
  <2>3. b \in TreeInput /\ Len(b) = v /\ compute_root(hashes) = rootOf(b)
    BY Zenon, <2>1, Widened
  <2>4. PICK j \in Nat : w = pow2[j]
    BY Zenon, <2>1, Widened
  <2>5. PICK k \in Nat : v = pow2[k]
    BY Zenon, <2>1, Widened
  <2> HIDE DEF w, v
  <2>6. PICK d \in Nat : k = d + j /\ v \div w = pow2[d]
    <3>1. pow2[j] =< pow2[k]
      BY Zenon, <2>1, <2>4, <2>5
    <3>2. \E d \in Nat : k = d + j /\ pow2[k] \div pow2[j] = pow2[d]
      BY Zenon, <3>1, Pow2Ratio
    <3> QED
      BY Zenon, <2>4, <2>5, <3>2
  <2>7. rootOf(a) = rootOf(b) <=> Parts(a, b, v \div w)
    <3>1. Len(a) = pow2[j] /\ Len(b) = pow2[d + j]
      BY Zenon, <2>2, <2>3, <2>4, <2>5, <2>6
    <3> HIDE DEF a, b
    <3> QED
      <4>1. rootOf(a) = rootOf(b) <=> Parts(a, b, pow2[d])
        BY ONLY Zenon, <2>2, <2>3, <3>1, d \in Nat, j \in Nat, RootOfParts
      <4> QED
        BY Zenon, <2>6, <4>1
  <2>8. \A i : subroot(v \div w, i) = groupRoot(b, v \div w, i)
    BY Zenon DEF subroot, groupRoot, group, rootOf
  <2>9. w \in Nat
    BY Zenon, <2>4, Pow2Nat
  <2> HIDE DEF a, b
  <2>10. Parts(a, b, v \div w) <=>
             \A i \in 1 .. w : at(other, i) = subroot(v \div w, i - 1)
    <3>1. ASSUME NEW i \in 1 .. w
          PROVE  i - 1 \in Nat /\ i - 1 < w /\ (i - 1) + 1 = i
      BY <2>9
    <3>2. ASSUME NEW i \in Nat, i < w
          PROVE  i + 1 \in 1 .. w /\ (i + 1) - 1 = i
      BY <2>9, <3>2
    <3>3. ASSUME Parts(a, b, v \div w), NEW i \in 1 .. w
          PROVE  at(other, i) = subroot(v \div w, i - 1)
      BY Zenon, <2>2, <2>8, <3>1, <3>3 DEF Parts
    <3>4. ASSUME \A i \in 1 .. w : at(other, i) = subroot(v \div w, i - 1)
          PROVE  Parts(a, b, v \div w)
      BY Zenon, <2>2, <2>8, <3>2, <3>4 DEF Parts
    <3> QED
      BY Zenon, <3>3, <3>4
  <2> QED
    BY Zenon, <2>2, <2>3, <2>7, <2>10 DEF w, v
<1> QED
  BY Invariance, <1>1, PTL

\* When the loop of compute_root has ended it has reached the root of the list.
LEMMA VerifiedAtRoot ==
    ASSUME Inv, verified
    PROVE  /\ Verifying /\ reached = compute_root(hashes)
           /\ climbed = levels(hashes) /\ levels(hashes) \in Nat
<1> DEFINE p == pad_to_power_of_two(hashes)
<1>1. phase = "verify" /\ rest = <<>> /\ Verifying /\ Collecting /\ hashes \in Lists /\ hashes # <<>>
  BY Zenon DEF verified, Inv, Collecting
<1>2. p \in TreeInput /\ levels(hashes) \in Nat /\ Len(p) = pow2[levels(hashes)]
  BY Zenon, <1>1, ListsAreSeqs, Padded
<1>3. Len(rest) = 0
  BY Zenon, <1>1
<1>4. climbed = levels(hashes)
  BY <1>2, <1>3 DEF climbed
<1>5. idx \in Nat /\ idx < pow2[0] /\ pow2[0] = 1
  BY Zenon, <1>1, <1>3, Pow2Step DEF Verifying
<1>6. idx = 0
  BY <1>5
<1> HIDE DEF p
<1>7. reached = groupRoot(p, Len(p), 0)
  BY Zenon, <1>2, <1>4, <1>6 DEF reached, p
<1>8. reached = rootOf(p)
  BY Zenon, <1>2, <1>7, GroupRootEnds
<1> QED
  BY Zenon, <1>1, <1>2, <1>4, <1>8 DEF compute_root, rootOf, p

LEMMA PathExact ==
    ASSUME Inv, verified
    PROVE  accepted <=> rightLeaf /\ received.siblings = truePath(hashes, received.index)
<1> DEFINE n == levels(hashes)
           t == truePath(hashes, received.index)
           T == elements(received.siblings, n) \cup elements(t, n)
<1>1. Verifying /\ reached = compute_root(hashes) /\ climbed = n /\ n \in Nat
  BY Zenon, VerifiedAtRoot
<1>2. accepted <=> rightLeaf /\ rightSiblings
  BY Zenon, <1>1 DEF accepted, Verifying
<1>3. received.siblings \in Seq(elements(received.siblings, n)) /\ Len(received.siblings) = n
  BY Zenon, <1>1 DEF Verifying
<1>4. t \in Seq(elements(t, n)) /\ Len(t) = n
  BY Zenon, <1>1, PathElements
<1>5. rightSiblings <=> \A i \in 1 .. n : received.siblings[i] = t[i]
  BY Zenon, <1>1 DEF rightSiblings
<1> HIDE DEF n, t
<1>6. received.siblings \in Seq(T) /\ t \in Seq(T)
  BY <1>3, <1>4
<1> HIDE DEF T
<1>7. rightSiblings <=> received.siblings = t
  BY Zenon, <1>3, <1>4, <1>5, <1>6, SameSeq
<1> QED
  BY Zenon, <1>2, <1>7 DEF t

\* verify accepts the true path of every leaf of every list, and no other proof of
\* those that it is handed.
THEOREM AcceptedArePaths == Spec => []AcceptedIsPath
<1>1. Inv => AcceptedIsPath
  BY Zenon, PathExact, PathIsTrue DEF AcceptedIsPath, rightLeaf
<1> QED
  BY Invariance, <1>1, PTL

\* verify accepts what generate_proof makes for a list of one or two leaves, and
\* refuses what it makes for any longer list: there the first and the last sibling
\* would make a leaf of one half the root of that half.
THEOREM OnlySmallProofsAccepted == Spec => []OnlySmallProofsVerify
<1>1. Inv => OnlySmallProofsVerify
  <2> SUFFICES ASSUME Inv, verified, received = proof PROVE accepted <=> Len(hashes) =< 2
    BY Zenon DEF OnlySmallProofsVerify
  <2> DEFINE n == levels(hashes)
             index == proof.index
             f == truePath(hashes, index)
             sibs == proof.siblings
  <2>1. /\ hashes \in Lists /\ hashes \in Seq(Leaf) /\ Len(hashes) \in Nat
        /\ Collecting /\ Collected /\ Len(current) = 1
    BY Zenon, ListsAreSeqs DEF verified, Inv, Collecting
  <2>2. accepted <=> sibs = f
    BY Zenon, <2>1, PathExact DEF Collecting, rightLeaf
  <2>3. /\ n \in Nat /\ Len(sibs) = n /\ sibs \in Seq(Leaf)
        /\ index \in Nat /\ index < Len(hashes)
    BY Zenon, <2>1, GeneratedLength DEF Collecting
  <2>4. \A i \in 1 .. n : sibs[i] = across(hashes, index, pow2[n - i])
    BY Zenon, <2>1, <2>3 DEF Collected
  <2>5. f \in Seq(elements(f, n)) /\ Len(f) = n
    BY Zenon, <2>3, PathElements
  <2>6. n # 0 => 1 \in 1 .. n /\ n \in 1 .. n /\ n - n = 0
    BY <2>3
  <2>7. n # 0 => sibs[n] = f[1]
    <3>1. n # 0 => f[1] = across(hashes, index, pow2[0])
      BY Zenon, <2>1, <2>3, PathEnds
    <3> HIDE DEF f, n, sibs, index
    <3>2. n # 0 => sibs[n] = across(hashes, index, pow2[n - n])
      BY Zenon, <2>4, <2>6
    <3>3. n # 0 => n - n = 0
      BY Zenon, <2>6
    <3> QED
      BY Zenon, <3>1, <3>2, <3>3
  <2>8. ASSUME Len(hashes) =< 2 PROVE sibs = f
    <3>1. n =< 1
      <4>1. hashes # <<>>
        BY Zenon, <2>1 DEF Collecting
      <4> QED
        BY Zenon, <2>1, <2>8, <4>1, SmallLevels
    <3> DEFINE T == Leaf \cup elements(f, n)
    <3> HIDE DEF f, n, sibs
    <3>2. \A i \in 1 .. n : i = n /\ i = 1 /\ n # 0
      BY <2>3, <3>1
    <3>3. \A i \in 1 .. n : sibs[i] = f[i]
      BY Zenon, <2>7, <3>2
    <3>4. sibs \in Seq(T) /\ f \in Seq(T)
      BY <2>3, <2>5
    <3> HIDE DEF T
    <3> QED
      BY Zenon, <2>3, <2>5, <3>3, <3>4, SameSeq
  <2>9. ASSUME ~(Len(hashes) =< 2) PROVE sibs # f
    <3> DEFINE g == otherHalf(hashes, index)
    <3>1. n # 0 /\ \A i \in 1 .. Len(g) : g[i] # rootOf(g)
      BY Zenon, <2>1, <2>3, <2>9, OtherHalfRoot
    <3>2. f[n] = rootOf(g) /\ \E i \in 1 .. Len(g) : across(hashes, index, pow2[n - 1]) = g[i]
      BY Zenon, <2>1, <2>3, <3>1, PathEnds
    <3>3. sibs[1] = across(hashes, index, pow2[n - 1])
      BY Zenon, <2>4, <2>6, <3>1
    <3>4. sibs[1] # f[n]
      BY Zenon, <3>1, <3>2, <3>3
    <3> HIDE DEF f, n, sibs
    <3> QED
      BY Zenon, <2>7, <3>1, <3>4
  <2> QED
    BY Zenon, <2>2, <2>8, <2>9
<1> QED
  BY Invariance, <1>1, PTL

=============================================================================
