---------------------------- MODULE QuorumProofs ----------------------------
(***************************************************************************)
(* The quorum and proposer arithmetic, for every validator set whose       *)
(* powers, summed and tripled, fit the word.                               *)
(***************************************************************************)
EXTENDS ValidatorQuorums, RecursionProofs

-----------------------------------------------------------------------------
(* The validator sets of a behaviour *)

TypeOK ==
    /\ power \in [Ids -> 0 .. MaxPower]
    /\ active \in (SUBSET Ids) \ {{}}
    /\ round \in 0 .. MaxRound

\* A behaviour keeps its validator set.
THEOREM TypeCorrect == Spec => []TypeOK
<1>1. Init => TypeOK
  BY QuorumsAssumption DEF Init, TypeOK
<1>2. TypeOK /\ [startNextRound]_vars => TypeOK'
  BY QuorumsAssumption DEF TypeOK, startNextRound, vars
<1> QED
  BY <1>1, <1>2, PTL DEF Spec

\* The addresses are as many as the list is long.
LEMMA IdsFinite == IsFiniteSet(Ids) /\ Cardinality(Ids) = Len(Addresses)
<1>1. Len(Addresses) \in Nat /\ DOMAIN Addresses = 1 .. Len(Addresses)
  BY QuorumsAssumption
<1>2. Addresses \in Bijection(1 .. Len(Addresses), Ids)
  BY <1>1, QuorumsAssumption DEF Ids, Bijection, Injection, Surjection, IsInjective
<1>3. IsFiniteSet(1 .. Len(Addresses)) /\ Cardinality(1 .. Len(Addresses)) = Len(Addresses)
  <2>1. 1 \in Int /\ Len(Addresses) \in Int /\ Len(Addresses) - 1 + 1 = Len(Addresses)
        /\ (1 > Len(Addresses) => Len(Addresses) = 0)
    BY <1>1
  <2>2. Cardinality(1 .. Len(Addresses)) =
            IF 1 > Len(Addresses) THEN 0 ELSE Len(Addresses) - 1 + 1
    BY <2>1, FS_Interval, Zenon
  <2>3. IsFiniteSet(1 .. Len(Addresses))
    BY <2>1, FS_Interval, Zenon
  <2> QED
    BY <2>1, <2>2, <2>3, Zenon
<1> QED
  BY <1>2, <1>3, FS_Bijection DEF ExistsBijection

\* Three times the power of any set of validators fits the word.
LEMMA PowerFits ==
    ASSUME TypeOK
    PROVE  power \in [Ids -> Nat] /\ totalPower * 3 < WordSize
<1>1. power \in [Ids -> Nat] /\ \A v \in Ids : power[v] =< MaxPower
  BY QuorumsAssumption DEF TypeOK
<1>2. Ids \in SUBSET Ids /\ MaxPower \in Nat /\ Len(Addresses) \in Nat
  BY QuorumsAssumption
<1> DEFINE n == MaxPower * Len(Addresses)
<1>3. totalPower =< n
  BY Zenon, <1>1, <1>2, IdsFinite, SumConstant DEF totalPower
<1>4. totalPower \in Nat
  BY <1>1, <1>2, IdsFinite, SumNat DEF totalPower
<1>5. n \in Nat /\ n * 3 < WordSize /\ WordSize \in Nat
  BY <1>2, QuorumsAssumption
<1>6. totalPower * 3 < WordSize
  <2> HIDE DEF n
  <2> QED BY <1>3, <1>4, <1>5
<1> QED
  BY <1>1, <1>6

-----------------------------------------------------------------------------
(* Quorums *)

\* The sum that the instance V takes is the sum of the library.
LEMMA SameSum ==
    ASSUME NEW f, NEW S
    PROVE  V!SumFunctionOnSet(f, S) = SumFunctionOnSet(f, S)
BY DEF V!SumFunctionOnSet, V!FoldFunctionOnSet, V!MapThenFoldSet,
       SumFunctionOnSet, FoldFunctionOnSet, MapThenFoldSet

LEMMA MajorityExact ==
    ASSUME TypeOK
    PROVE  SuperMajorityExact
<1> SUFFICES ASSUME NEW P \in SUBSET Ids
             PROVE  V!superMajority(P) <=> powerOf(P) * 3 > totalPower * 2
  BY DEF SuperMajorityExact
<1>1. V!ValidatorId = Ids /\ P \cap Ids = P
  BY DEF V!ValidatorId, Ids
<1>2. V!superMajority(P) <=>
        ((SumFunctionOnSet(power, P) % WordSize) * 3) % WordSize
            > ((SumFunctionOnSet(power, Ids) % WordSize) * 2) % WordSize
  BY <1>1, SameSum, Zenon DEF V!superMajority, V!votingPower, totalPower
<1>3. WordSize \in Nat /\ SumFunctionOnSet(power, Ids) * 3 < WordSize /\ power \in [Ids -> Nat]
  BY PowerFits, QuorumsAssumption DEF totalPower
<1>4. ((SumFunctionOnSet(power, P) % WordSize) * 3) % WordSize
            > ((SumFunctionOnSet(power, Ids) % WordSize) * 2) % WordSize
        <=> SumFunctionOnSet(power, P) * 3 > SumFunctionOnSet(power, Ids) * 2
  BY <1>3, IdsFinite, WordMajority
<1> QED
  BY <1>2, <1>4 DEF powerOf, totalPower

\* superMajority is exact: in every validator set whose powers, summed and
\* tripled, fit the word, it holds of a set of voters exactly when they have
\* more than two thirds of the total power.
THEOREM SuperMajorityIsExact == Spec => []SuperMajorityExact
BY TypeCorrect, MajorityExact, PTL

LEMMA MajoritiesShare ==
    ASSUME TypeOK
    PROVE  QuorumsIntersect
<1> SUFFICES ASSUME NEW P \in SUBSET Ids, NEW Q \in SUBSET Ids,
                    V!superMajority(P), V!superMajority(Q)
             PROVE  powerOf(P \cap Q) > 0
  BY DEF QuorumsIntersect
<1>1. powerOf(P) * 3 > totalPower * 2 /\ powerOf(Q) * 3 > totalPower * 2
  BY MajorityExact DEF SuperMajorityExact
<1> QED
  BY <1>1, PowerFits, IdsFinite, ThirdsOverlap DEF powerOf, totalPower

\* Any two super-majorities share a validator with some power.
THEOREM AnyQuorumsIntersect == Spec => []QuorumsIntersect
BY TypeCorrect, MajoritiesShare, PTL

\* A positive factor cancels, and a count exceeds two thirds of n exactly when
\* it reaches the rounded-down two thirds plus one.
LEMMA CountOfThirds ==
    ASSUME NEW w \in Nat, w > 0, NEW c \in Nat, NEW n \in Nat
    PROVE  (w * c) * 3 > (w * n) * 2 <=> c >= (n * 2) \div 3 + 1
<1>1. c * 3 > n * 2 <=> c >= (n * 2) \div 3 + 1
  OBVIOUS
<1> DEFINE a == c * 3
           b == n * 2
<1>2. a \in Nat /\ b \in Nat /\ (w * c) * 3 = w * a /\ (w * n) * 2 = w * b
  OBVIOUS
<1>3. w * a > w * b <=> a > b
  <2> HIDE DEF a, b
  <2>1. ASSUME a > b PROVE w * a > w * b
    <3>1. PICK d \in Nat : a = b + d /\ d > 0
      BY <1>2, <2>1, a - b \in Nat
    <3>2. w * a = w * b + w * d /\ w * d \in Nat /\ w * d > 0 /\ w * b \in Nat
      BY <1>2, <3>1
    <3> QED
      BY <3>2
  <2>2. ASSUME ~(a > b) PROVE ~(w * a > w * b)
    <3>1. PICK d \in Nat : b = a + d
      BY <1>2, <2>2, b - a \in Nat
    <3>2. w * b = w * a + w * d /\ w * d \in Nat /\ w * a \in Nat
      BY <1>2, <3>1
    <3> QED
      BY <3>2
  <2> QED
    BY <2>1, <2>2
<1> QED
  BY <1>1, <1>2, <1>3

LEMMA EqualPowersCount ==
    ASSUME TypeOK
    PROVE  CountAgrees
<1> SUFFICES ASSUME \A v, w \in Ids : power[v] = power[w] /\ power[v] > 0,
                    NEW P \in SUBSET Ids
             PROVE  V!superMajority(P) <=> Cardinality(P) >= V!superMajorityCount
  BY DEF CountAgrees
<1>1. PICK u \in Ids : TRUE
  <2>1. active \subseteq Ids /\ active # {}
    BY DEF TypeOK
  <2> QED
    BY <2>1
<1> DEFINE w == power[u]
           n == Len(Addresses)
           c == Cardinality(P)
<1>2. power \in [Ids -> Nat] /\ w \in Nat /\ w > 0 /\ \A v \in Ids : power[v] = w
  BY <1>1, PowerFits
<1>3. IsFiniteSet(P) /\ c \in Nat /\ n \in Nat /\ Ids \in SUBSET Ids
  BY IdsFinite, FS_Subset, FS_CardinalityType, QuorumsAssumption
<1>4. powerOf(P) = w * c /\ totalPower = w * n
  <2> HIDE DEF w
  <2>1. SumFunctionOnSet(power, P) = w * Cardinality(P)
    BY <1>2, <1>3, SumConstant
  <2>2. SumFunctionOnSet(power, Ids) = w * Cardinality(Ids)
    BY ZenonT(30), <1>2, <1>3, IdsFinite, SumConstant
  <2> QED
    BY <2>1, <2>2, IdsFinite, Zenon DEF powerOf, totalPower
<1>5. V!superMajority(P) <=> (w * c) * 3 > (w * n) * 2
  BY <1>4, MajorityExact, Zenon DEF SuperMajorityExact
<1>6. V!superMajorityCount = (n * 2) \div 3 + 1
  BY DEF V!superMajorityCount, V!validatorSetSize
<1> HIDE DEF w, n, c
<1>7. (w * c) * 3 > (w * n) * 2 <=> c >= (n * 2) \div 3 + 1
  BY <1>2, <1>3, CountOfThirds
<1> QED
  BY <1>5, <1>6, <1>7, Zenon DEF c

\* With equal powers a super-majority is superMajorityCount validators or more,
\* however many validators there are.
THEOREM CountsAgree == Spec => []CountAgrees
BY TypeCorrect, EqualPowersCount, PTL

-----------------------------------------------------------------------------
(* Proposers *)

\* The equation of activeAmong: what i contributes to the list before it.
activeStep(i, before) ==
    IF i = 0 THEN <<>>
    ELSE IF Addresses[i] \in active THEN Append(before[i - 1], Addresses[i])
         ELSE before[i - 1]

LEMMA ActiveAmong ==
    ASSUME TypeOK
    PROVE  V!activeAmong = [i \in 0 .. Len(Addresses) |-> activeStep(i, V!activeAmong)]
<1> DEFINE D == 0 .. Len(Addresses)
           m == [i \in D |-> i]
           T == Seq(Ids)
           Def == [i \in D |-> [g \in [D -> T] |-> activeStep(i, g)]]
           start == [i \in D |-> <<>>]
<1>1. Len(Addresses) \in Nat /\ \A i \in D : i # 0 => i - 1 \in D /\ Addresses[i] \in Ids
  BY QuorumsAssumption
<1>2. m \in [D -> Nat] /\ start \in [D -> T]
  BY <1>1
<1>3. ASSUME NEW i \in D, NEW g \in [D -> T]
      PROVE  activeStep(i, g) \in T
  <2>1. i # 0 => g[i - 1] \in T /\ Addresses[i] \in Ids
    BY <1>1
  <2> QED
    BY <2>1 DEF activeStep
<1>4. Def \in [D -> [[D -> T] -> T]]
  <2> HIDE DEF T, D
  <2> QED BY <1>3
<1>5. ASSUME NEW i \in D, NEW g \in [D -> T], NEW h \in [D -> T],
             \A j \in D : m[j] < m[i] => g[j] = h[j]
      PROVE  Def[i][g] = Def[i][h]
  <2>1. i # 0 => i - 1 \in D /\ m[i - 1] < m[i]
    BY <1>1
  <2>2. activeStep(i, g) = activeStep(i, h)
    <3> HIDE DEF m, T
    <3> QED BY <1>5, <2>1 DEF activeStep
  <2> HIDE DEF T, D
  <2> QED
    BY <2>2
<1>6. PICK g : Solves(g, D, T, Def)
  <2> HIDE DEF D, m, T, Def, start
  <2>1. RecursiveBody(D, T, m, Def)
    BY Zenon, <1>2, <1>4, <1>5 DEF RecursiveBody
  <2> QED
    BY <2>1, RecursionExists
<1>7. g = [i \in D |-> activeStep(i, g)]
  <2>1. g \in [D -> T] /\ \A i \in D : g[i] = Def[i][g]
    BY <1>6, Zenon DEF Solves
  <2>2. \A i \in D : g[i] = activeStep(i, g)
    <3> HIDE DEF T, D
    <3> QED BY <2>1
  <2> HIDE DEF T, D
  <2> QED
    BY <2>1, <2>2
<1>8. V!activeAmong = CHOOSE a : a = [i \in D |-> activeStep(i, a)]
  BY Zenon DEF V!activeAmong, V!isValidatorActive, activeStep
<1> QED
  BY <1>7, <1>8, Zenon

\* activeAmong[i] lists the active validators among the first i, each once.
ListsActive(i) ==
    LET a == V!activeAmong[i]
    IN  /\ a \in Seq(Ids)
        /\ \A j, k \in 1 .. Len(a) : a[j] = a[k] => j = k
        /\ \A v : (\E j \in 1 .. Len(a) : a[j] = v) <=>
                  v \in active /\ \E j \in 1 .. i : Addresses[j] = v

LEMMA ActiveListed ==
    ASSUME TypeOK
    PROVE  \A i \in 0 .. Len(Addresses) : ListsActive(i)
<1> DEFINE N == Len(Addresses)
           X == {i \in Nat : i =< N => ListsActive(i)}
<1>1. N \in Nat /\ Addresses \in [1 .. N -> Ids]
  BY QuorumsAssumption
<1>2. ASSUME NEW i \in Nat, \A k \in Nat : k < i => k \in X
      PROVE  i \in X
  <2> SUFFICES ASSUME i =< N PROVE ListsActive(i)
    OBVIOUS
  <2> DEFINE a == V!activeAmong[i]
  <2>1. a = activeStep(i, V!activeAmong)
    BY <1>1, ActiveAmong
  <2>2. CASE i = 0
    <3>1. a = <<>>
      BY <2>1, <2>2 DEF activeStep
    <3> QED
      BY <2>2, <3>1 DEF ListsActive
  <2>3. CASE i # 0
    <3> DEFINE p == V!activeAmong[i - 1]
               x == Addresses[i]
    <3>1. i - 1 \in Nat /\ i - 1 < i /\ i - 1 =< N /\ i \in 1 .. N
      BY <1>1, <2>3
    <3>2. ListsActive(i - 1)
      BY <1>2, <3>1
    <3>3. /\ p \in Seq(Ids)
          /\ \A j, k \in 1 .. Len(p) : p[j] = p[k] => j = k
          /\ \A v : (\E j \in 1 .. Len(p) : p[j] = v) <=>
                    v \in active /\ \E j \in 1 .. (i - 1) : Addresses[j] = v
      BY <3>2 DEF ListsActive
    <3>4. x \in Ids /\ \A j \in 1 .. (i - 1) : Addresses[j] # x
      BY <1>1, <3>1, QuorumsAssumption
    <3>5. a = IF x \in active THEN Append(p, x) ELSE p
      BY <2>1, <2>3 DEF activeStep
    <3>6. \A v : (\E j \in 1 .. i : Addresses[j] = v) <=>
                 v = x \/ \E j \in 1 .. (i - 1) : Addresses[j] = v
      BY <3>1
    <3> HIDE DEF a, p, x
    <3>7. CASE x \notin active
      <4>1. a = p
        BY <3>5, <3>7
      <4> QED
        BY Zenon, <3>3, <3>6, <3>7, <4>1 DEF ListsActive, a
    <3>8. CASE x \in active
      <4>1. a = Append(p, x)
        BY <3>5, <3>8
      <4>2. /\ a \in Seq(Ids) /\ Len(a) = Len(p) + 1 /\ Len(p) \in Nat
            /\ a[Len(p) + 1] = x /\ \A j \in 1 .. Len(p) : a[j] = p[j]
        BY <3>3, <3>4, <4>1
      <4>3. \A j \in 1 .. Len(p) : p[j] # x
        BY Zenon, <3>3, <3>4
      <4>4. \A j, k \in 1 .. Len(a) : a[j] = a[k] => j = k
        BY <3>3, <4>2, <4>3
      <4>5. \A v : (\E j \in 1 .. Len(a) : a[j] = v) <=>
                   v = x \/ \E j \in 1 .. Len(p) : p[j] = v
        BY <4>2
      <4>6. \A v : (\E j \in 1 .. Len(a) : a[j] = v) <=>
                   v \in active /\ \E j \in 1 .. i : Addresses[j] = v
        BY Zenon, <3>3, <3>6, <3>8, <4>5
      <4> QED
        BY <4>2, <4>4, <4>6 DEF ListsActive, a
    <3> QED
      BY <3>7, <3>8
  <2> QED
    BY <2>2, <2>3
<1>3. Nat \subseteq X
  <2> HIDE DEF X
  <2> QED BY <1>2, NatClosed
<1> QED
  BY <1>1, <1>3

\* The list of active validators is an enumeration of active.
LEMMA ActiveEnumerated ==
    ASSUME TypeOK
    PROVE  LET a == V!activeValidators
           IN  /\ Len(a) \in Nat /\ Len(a) > 0 /\ Len(a) = Cardinality(active)
               /\ \A j, k \in 1 .. Len(a) : a[j] = a[k] => j = k
               /\ \A v : v \in active <=> \E j \in 1 .. Len(a) : a[j] = v
<1> DEFINE a == V!activeValidators
           N == Len(Addresses)
<1>1. N \in Nat /\ DOMAIN Addresses = 1 .. N /\ active \subseteq Ids /\ active # {}
  BY QuorumsAssumption DEF TypeOK
<1>2. ListsActive(N) /\ a = V!activeAmong[N]
  BY <1>1, ActiveListed DEF V!activeValidators
<1>3. \A v \in active : \E j \in 1 .. N : Addresses[j] = v
  BY <1>1 DEF Ids
<1>4. /\ a \in Seq(Ids)
      /\ \A j, k \in 1 .. Len(a) : a[j] = a[k] => j = k
      /\ \A v : v \in active <=> \E j \in 1 .. Len(a) : a[j] = v
  BY <1>2, <1>3 DEF ListsActive
<1> HIDE DEF a
<1>5. Len(a) \in Nat /\ DOMAIN a = 1 .. Len(a)
  BY <1>4
<1>6. Len(a) > 0
  BY <1>1, <1>4, <1>5
<1>7. a \in Bijection(1 .. Len(a), active)
  BY <1>4, <1>5 DEF Bijection, Injection, Surjection, IsInjective
<1>8. IsFiniteSet(1 .. Len(a)) /\ Cardinality(1 .. Len(a)) = Len(a)
  <2>1. 1 \in Int /\ Len(a) \in Int /\ ~(1 > Len(a)) /\ Len(a) - 1 + 1 = Len(a)
    BY <1>5, <1>6
  <2> QED
    BY <2>1, FS_Interval, Zenon
<1>9. Cardinality(active) = Len(a)
  BY <1>7, <1>8, FS_Bijection DEF ExistsBijection
<1> QED
  BY <1>4, <1>5, <1>6, <1>9 DEF a

\* Division with remainder.
LEMMA Remainder ==
    ASSUME NEW r \in Nat, NEW n \in Nat, n > 0
    PROVE  /\ r % n \in 0 .. (n - 1)
           /\ r \div n \in Nat
           /\ r = n * (r \div n) + (r % n)
OBVIOUS

LEMMA RemainderOf ==
    ASSUME NEW n \in Nat, n > 0, NEW d \in Nat, NEW t \in 0 .. (n - 1)
    PROVE  (n * d + t) % n = t
<1> DEFINE r == n * d + t
           e == r \div n
           u == r % n
<1>1. r \in Nat
  OBVIOUS
<1>2. u \in 0 .. (n - 1) /\ e \in Nat /\ r = n * e + u
  BY <1>1, Remainder
<1> HIDE DEF e, u
<1>3. ASSUME NEW k \in Nat, d = e + k + 1 PROVE FALSE
  <2>1. n * d = n * e + n * k + n /\ n * k \in Nat /\ n * e \in Nat
    BY <1>2, <1>3
  <2> QED
    BY <1>2, <2>1
<1>4. ASSUME NEW k \in Nat, e = d + k + 1 PROVE FALSE
  <2>1. n * e = n * d + n * k + n /\ n * k \in Nat /\ n * d \in Nat
    BY <1>2, <1>4
  <2> QED
    BY <1>2, <2>1
<1>5. d = e
  <2>1. d > e => d = e + (d - e - 1) + 1 /\ d - e - 1 \in Nat
    BY <1>2
  <2>2. e > d => e = d + (e - d - 1) + 1 /\ e - d - 1 \in Nat
    BY <1>2
  <2> QED
    BY <1>2, <1>3, <1>4, <2>1, <2>2
<1>6. u = t
  BY <1>2, <1>5
<1> QED
  BY <1>6 DEF u

\* The numbers among n from first on that have remainder t.
congruent(first, n, t) == {x \in first .. (first + n - 1) : x % n = t}

\* Of n consecutive numbers exactly one has a given remainder modulo n.
LEMMA OneTurnInWindow ==
    ASSUME NEW n \in Nat, n > 0, NEW t \in 0 .. (n - 1), NEW first \in Nat
    PROVE  \E r : congruent(first, n, t) = {r}
<1> DEFINE d == first \div n
           u == first % n
           r == IF t >= u THEN n * d + t ELSE n * (d + 1) + t
<1>1. u \in 0 .. (n - 1) /\ d \in Nat /\ first = n * d + u
  BY Remainder
<1> HIDE DEF d, u
<1>2. n * d \in Nat /\ n * (d + 1) = n * d + n
  BY <1>1
<1>3. r \in first .. (first + n - 1)
  BY <1>1, <1>2
<1>4. r % n = t
  <2>1. (n * d + t) % n = t /\ (n * (d + 1) + t) % n = t
    BY <1>1, RemainderOf
  <2> QED
    BY <2>1
<1>5. ASSUME NEW x \in first .. (first + n - 1), x % n = t
      PROVE  x = r
  <2> DEFINE e == x \div n
  <2>1. x \in Nat /\ r \in Nat
    BY <1>1, <1>2, <1>3
  <2>2. e \in Nat /\ x = n * e + t
    BY <1>5, <2>1, Remainder
  <2> HIDE DEF e
  <2>3. ASSUME NEW c \in Nat, r = n * c + t PROVE x = r
    <3>1. ASSUME NEW k \in Nat, c = e + k + 1 PROVE FALSE
      <4>1. n * c = n * e + n * k + n /\ n * k \in Nat /\ n * e \in Nat
        BY <2>2, <3>1
      <4> HIDE DEF r
      <4> QED
        BY <1>3, <2>2, <2>3, <4>1
    <3>2. ASSUME NEW k \in Nat, e = c + k + 1 PROVE FALSE
      <4>1. n * e = n * c + n * k + n /\ n * k \in Nat /\ n * c \in Nat
        BY <2>2, <3>2
      <4> HIDE DEF r
      <4> QED
        BY <1>3, <2>2, <2>3, <4>1
    <3>3. c = e
      <4>1. c > e => c = e + (c - e - 1) + 1 /\ c - e - 1 \in Nat
        BY <2>2
      <4>2. e > c => e = c + (e - c - 1) + 1 /\ e - c - 1 \in Nat
        BY <2>2
      <4> QED
        BY <2>2, <3>1, <3>2, <4>1, <4>2
    <3> QED
      <4> HIDE DEF r
      <4> QED BY <2>2, <2>3, <3>3
  <2> QED
    BY <1>1, <2>3
<1> QED
  <2> HIDE DEF r
  <2> QED BY Zenon, <1>3, <1>4, <1>5 DEF congruent

LEMMA EachProposesOnce ==
    ASSUME TypeOK
    PROVE  ProposersRotate
<1> SUFFICES ASSUME NEW v \in Ids
             PROVE  Cardinality(turns(v, Cardinality(active))) = IF v \in active THEN 1 ELSE 0
  BY DEF ProposersRotate
<1> DEFINE a == V!activeValidators
           n == Cardinality(active)
           window == round .. (round + n - 1)
<1>1. /\ n \in Nat /\ n > 0 /\ n = Len(a)
      /\ \A j, k \in 1 .. n : a[j] = a[k] => j = k
      /\ \A w : w \in active <=> \E j \in 1 .. n : a[j] = w
  BY ActiveEnumerated
<1>2. round \in Nat
  BY QuorumsAssumption DEF TypeOK
\* No round of the window is so late that it is negative as an Int.
<1>a. \A r \in window : V!toInt(r) = r
  <2>1. n =< Len(Addresses)
    <3>1. active \subseteq Ids
      BY DEF TypeOK
    <3> QED
      BY <3>1, IdsFinite, FS_Subset, Zenon
  <2> HIDE DEF n
  <2>2. round =< MaxRound /\ MaxRound + Len(Addresses) =< WordSize \div 2
        /\ MaxRound \in Nat /\ WordSize \div 2 \in Nat /\ Len(Addresses) \in Nat
    BY QuorumsAssumption DEF TypeOK
  <2>3. \A r \in window : r < WordSize \div 2
    BY <1>1, <1>2, <2>1, <2>2
  <2> QED
    BY <2>3, Zenon DEF V!toInt
<1> HIDE DEF n
<1>3. turns(v, n) = {r \in window : a[(r % n) + 1] = v}
  <2> HIDE DEF window
  <2>1. turns(v, n) = {r \in window : a[(V!toInt(r) % n) + 1] = v}
    BY <1>1, Zenon DEF turns, V!shouldPropose, V!roundProposer, window
  <2> HIDE DEF a
  <2> QED
    BY <1>a, <2>1, Zenon
<1> HIDE DEF a
<1>4. \A r \in window : r % n \in 0 .. (n - 1)
  <2>1. \A r \in window : r \in Nat
    BY <1>1, <1>2
  <2> QED
    BY <1>1, <2>1, Remainder
<1>5. CASE v \notin active
  <2>1. turns(v, n) = {}
    <3>1. \A r \in window : a[(r % n) + 1] # v
      BY <1>1, <1>4, <1>5
    <3> QED
      BY <1>3, <3>1, Zenon
  <2> QED
    BY <1>5, <2>1, FS_EmptySet, Zenon DEF n
<1>6. CASE v \in active
  <2>1. PICK j \in 1 .. n : a[j] = v
    BY <1>1, <1>6
  <2> DEFINE t == j - 1
  <2>2. t \in 0 .. (n - 1) /\ t + 1 = j
    BY <1>1
  <2>3. \A r \in window : a[(r % n) + 1] = v <=> r % n = t
    BY <1>1, <1>4, <2>1, <2>2
  <2>4. turns(v, n) = congruent(round, n, t)
    <3> HIDE DEF t
    <3>1. congruent(round, n, t) = {r \in window : r % n = t}
      BY DEF congruent
    <3> HIDE DEF window
    <3> QED BY <1>3, <2>3, <3>1
  <2>5. PICK r : congruent(round, n, t) = {r}
    <3> HIDE DEF t
    <3>1. n \in Nat /\ n > 0 /\ round \in Nat /\ t \in 0 .. (n - 1)
      BY <1>1, <1>2, <2>2
    <3> QED BY ONLY <3>1, OneTurnInWindow, Zenon
  <2>6. turns(v, n) = {r}
    BY <2>4, <2>5, Zenon
  <2> QED
    BY <1>6, <2>6, FS_Singleton, Zenon DEF n
<1> QED
  BY <1>5, <1>6

\* Whatever round it starts from, a window of as many rounds as there are active
\* validators gives each of them exactly one turn, and nobody else any.
THEOREM ProposersTakeTurns == Spec => []ProposersRotate
BY TypeCorrect, EachProposesOnce, PTL

=============================================================================
