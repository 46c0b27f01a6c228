---------------------------- MODULE BaseLemmas ----------------------------
\* What the proofs share: scans for a first free bit or slot, lists from which entries
\* are unlinked, and sums.
EXTENDS Integers, Functions, SeqFilter, WellFoundedInduction, FiniteSetTheorems, SequenceTheorems, TLAPS

\* A non-empty set of natural numbers has a least element.
LEMMA LeastElement ==
  ASSUME NEW S \in SUBSET Nat, S # {}
  PROVE  \E i \in S : \A k \in S : i <= k
<1> DEFINE R == OpToRel(<, Nat)
<1>1. IsWellFoundedOn(R, Nat)
  BY NatLessThanWellFounded
<1>2. \E i \in S : \A k \in S : ~ (<<k, i>> \in R)
  BY <1>1, WFMin
<1>3. \A i, k \in Nat : k < i => <<k, i>> \in R
  BY DEF OpToRel
<1> HIDE DEF R
<1>4. PICK i \in S : \A k \in S : ~ (<<k, i>> \in R)
  BY <1>2
<1>5. ASSUME NEW k \in S PROVE i <= k
  <2>1. i \in Nat /\ k \in Nat
    OBVIOUS
  <2>2. ~ (k < i)
    BY <1>3, <1>4, <2>1, Zenon
  <2> QED
    BY <2>1, <2>2
<1> QED
  BY <1>5

\* Induction up to n, for a set that is given by its property.
LEMMA UpTo ==
  ASSUME NEW n \in Nat, NEW G, 0 \in G, \A i \in 1 .. n : i - 1 \in G => i \in G
  PROVE  \A i \in 0 .. n : i \in G
<1> DEFINE Bad == {i \in 0 .. n : i \notin G}
<1> SUFFICES ASSUME Bad # {} PROVE FALSE
  OBVIOUS
<1>1. Bad \in SUBSET Nat
  OBVIOUS
<1>2. PICK i \in Bad : \A k \in Bad : i <= k
  BY <1>1, LeastElement
<1>3. i \in 1 .. n /\ i - 1 \in 0 .. n /\ ~ (i <= i - 1)
  BY <1>2
<1> QED
  BY <1>2, <1>3

\* The values x, g[1, x], g[2, g[1, x]], ...: such a function exists, so that a
\* definition by recursion along g defines one.
IsIterate(f, T, g, x, n) ==
    f \in [0 .. n -> T] /\ f[0] = x /\ \A i \in 1 .. n : f[i] = g[<<i, f[i - 1]>>]

LEMMA IterateExists ==
  ASSUME NEW n \in Nat, NEW T, NEW g \in [(1 .. n) \X T -> T], NEW x \in T
  PROVE  \E f : IsIterate(f, T, g, x, n)
<1> DEFINE G == {m \in 0 .. n : \E f : IsIterate(f, T, g, x, m)}
<1>1. 0 \in G
  <2>1. IsIterate([i \in 0 .. 0 |-> x], T, g, x, 0)
    BY DEF IsIterate
  <2> QED
    BY <2>1
<1>2. ASSUME NEW m \in 1 .. n, m - 1 \in G PROVE m \in G
  <2>1. PICK f, k : IsIterate(f, T, g, x, k) /\ k = m - 1 /\ k \in Nat
    BY <1>2
  <2> DEFINE h == [i \in 0 .. m |-> IF i = m THEN g[<<m, f[k]>>] ELSE f[i]]
  <2>2. f[k] \in T /\ g[<<m, f[k]>>] \in T
    BY <2>1 DEF IsIterate
  <2>3. h \in [0 .. m -> T] /\ h[0] = x
    BY <2>1, <2>2 DEF IsIterate
  <2>4. ASSUME NEW i \in 1 .. m PROVE h[i] = g[<<i, h[i - 1]>>]
    <3>1. i \in 0 .. m /\ i - 1 \in 0 .. m /\ i - 1 # m /\ h[i - 1] = f[i - 1]
      OBVIOUS
    <3>2. CASE i = m
      BY <2>1, <3>1, <3>2
    <3>3. CASE i # m
      <4>1. i \in 1 .. k /\ f[i] = g[<<i, f[i - 1]>>]
        BY <2>1, <3>3 DEF IsIterate
      <4> QED
        BY <3>1, <3>3, <4>1
    <3> QED
      BY <3>2, <3>3
  <2> HIDE DEF h
  <2>5. IsIterate(h, T, g, x, m)
    BY <2>3, <2>4 DEF IsIterate
  <2> QED
    BY <2>5
<1> HIDE DEF G
<1>3. \A m \in 0 .. n : m \in G
  BY <1>1, <1>2, UpTo
<1> QED
  BY <1>3 DEF G

\* An index on a ring of m slots.
LEMMA RingMod ==
  ASSUME NEW m \in Nat \ {0}, NEW x \in 0 .. (2 * m - 1)
  PROVE  x % m = IF x < m THEN x ELSE x - m
<1>1. \A y \in 0 .. (m - 1) : y % m = y /\ (y + m) % m = y
  OBVIOUS
<1>2. CASE x < m
  BY <1>1, <1>2
<1>3. CASE x >= m
  <2>1. x - m \in 0 .. (m - 1) /\ (x - m) + m = x
    BY <1>3
  <2>2. ((x - m) + m) % m = x - m
    BY <1>1, <2>1
  <2> QED
    BY <1>3, <2>1, <2>2
<1> QED
  BY <1>2, <1>3

\* Each position of the set is that of one entry Keep leaves, and the other way round.
LEMMA KeepRanks ==
  ASSUME NEW n \in Nat, NEW at \in SUBSET (1 .. n)
  PROVE  /\ Cardinality(at) \in Nat
         /\ \A i \in at : Cardinality({j \in at : j <= i}) \in 1 .. Cardinality(at)
         /\ \A i, h \in at : i < h =>
               Cardinality({j \in at : j <= i}) < Cardinality({j \in at : j <= h})
         /\ \A k \in 1 .. Cardinality(at) : \E i \in at : Cardinality({j \in at : j <= i}) = k
<1> DEFINE upto(i) == {j \in at : j <= i}
           rank == [i \in at |-> Cardinality(upto(i))]
<1>1. IsFiniteSet(at) /\ Cardinality(at) \in Nat
  <2>1. IsFiniteSet(1 .. n)
    BY FS_Interval
  <2> QED
    BY <2>1, FS_Subset, FS_CardinalityType
<1>2. ASSUME NEW i \in at PROVE /\ IsFiniteSet(upto(i)) /\ Cardinality(upto(i)) \in Nat
                                /\ Cardinality(upto(i)) <= Cardinality(at)
                                /\ Cardinality(upto(i)) # 0
  <2>1. upto(i) \in SUBSET at /\ i \in upto(i)
    OBVIOUS
  <2> HIDE DEF upto
  <2>2. IsFiniteSet(upto(i)) /\ Cardinality(upto(i)) <= Cardinality(at)
    BY <1>1, <2>1, FS_Subset
  <2> QED
    BY <2>1, <2>2, FS_CardinalityType, FS_EmptySet
<1>3. ASSUME NEW i \in at, NEW h \in at, i < h
      PROVE  Cardinality(upto(i)) < Cardinality(upto(h))
  <2>1. upto(i) \in SUBSET upto(h) /\ h \in upto(h) /\ h \notin upto(i)
    <3>1. (\A j \in at : j <= i => j <= h) /\ h <= h /\ ~ (h <= i)
      BY <1>3
    <3> QED
      BY <3>1, Zenon
  <2> HIDE DEF upto
  <2>2. /\ Cardinality(upto(i)) <= Cardinality(upto(h))
        /\ Cardinality(upto(h)) = Cardinality(upto(i)) => upto(h) = upto(i)
    BY <1>2, <2>1, FS_Subset
  <2> QED
    BY <1>2, <2>1, <2>2
<1>4. rank \in [at -> 1 .. Cardinality(at)]
  BY <1>1, <1>2
<1>5. rank \in Injection(at, 1 .. Cardinality(at))
  <2>1. ASSUME NEW i \in at, NEW h \in at, rank[i] = rank[h] PROVE i = h
    <3>1. ~ (i < h) /\ ~ (h < i)
      BY <1>2, <1>3, <2>1
    <3> QED
      BY <3>1
  <2> HIDE DEF rank
  <2> QED
    BY <1>4, <2>1 DEF Injection, IsInjective
<1>6. IsFiniteSet(1 .. Cardinality(at)) /\ Cardinality(1 .. Cardinality(at)) = Cardinality(at)
  BY <1>1, FS_Interval
<1>7. rank \in Surjection(at, 1 .. Cardinality(at))
  <2> HIDE DEF rank
  <2> QED
    BY <1>5, <1>6, FS_Injection
<1>8. \A k \in 1 .. Cardinality(at) : \E i \in at : rank[i] = k
  <2> HIDE DEF rank
  <2> QED
    BY <1>7 DEF Surjection
<1> QED
  BY <1>1, <1>2, <1>3, <1>8

\* What Keep leaves of a sequence: a sequence of the entries at the positions of the set.
LEMMA KeepEntries ==
  ASSUME NEW S, NEW s \in Seq(S), NEW at \in SUBSET (DOMAIN s)
  PROVE  /\ Keep(s, at) \in Seq(S)
         /\ Len(Keep(s, at)) = Cardinality(at)
         /\ \A k \in DOMAIN Keep(s, at) : \E i \in at : Keep(s, at)[k] = s[i]
         /\ \A i \in at : \E k \in DOMAIN Keep(s, at) : Keep(s, at)[k] = s[i]
<1> DEFINE rank(i) == Cardinality({j \in at : j <= i})
           pos(k) == CHOOSE i \in at : rank(i) = k
           n == Cardinality(at)
<1>1. DOMAIN s = 1 .. Len(s) /\ Len(s) \in Nat
  OBVIOUS
<1>2. /\ n \in Nat
      /\ \A i \in at : rank(i) \in 1 .. n
      /\ \A i, h \in at : i < h => rank(i) < rank(h)
      /\ \A k \in 1 .. n : \E i \in at : rank(i) = k
  BY <1>1, KeepRanks
<1>3. \A k \in 1 .. n : pos(k) \in at /\ rank(pos(k)) = k
  BY <1>2
<1>4. \A i \in at : pos(rank(i)) = i
  <2> TAKE i \in at
  <2>1. pos(rank(i)) \in at /\ rank(pos(rank(i))) = rank(i)
    BY <1>2, <1>3
  <2> HIDE DEF rank
  <2>2. ~ (i < pos(rank(i))) /\ ~ (pos(rank(i)) < i)
    BY <1>2, <2>1
  <2> QED
    BY <1>1, <2>1, <2>2
<1>5. Keep(s, at) = [k \in 1 .. n |-> s[pos(k)]]
  BY DEF Keep
<1> HIDE DEF pos, rank, n
<1>6. Keep(s, at) \in [1 .. n -> S]
  BY <1>1, <1>3, <1>5
<1>7. Keep(s, at) \in Seq(S) /\ Len(Keep(s, at)) = n /\ DOMAIN Keep(s, at) = 1 .. n
  BY <1>2, <1>5, <1>6
<1> QED
  BY <1>2, <1>3, <1>4, <1>5, <1>7 DEF n
-----------------------------------------------------------------------------
\* Sums over a set: FoldFunctionOnSet takes the elements in an order of its own, and the
\* lemmas show that the order does not matter.
SumOver(f, S) == FoldFunctionOnSet(+, 0, f, S)

\* One turn of the fold, and what it computes for the subsets of S.
SumStep(f, g, S) ==
    [s \in SUBSET S |-> IF s = {} THEN 0 ELSE f[CHOOSE x \in s : TRUE] + g[s \ {CHOOSE x \in s : TRUE}]]
IsSum(f, g, S) ==
    /\ g \in [SUBSET S -> Int] /\ g[{}] = 0
    /\ \A s \in SUBSET S : \A x \in s : g[s] = f[x] + g[s \ {x}]

LEMMA SumUnfold ==
  ASSUME NEW f, NEW S
  PROVE  SumOver(f, S) = (CHOOSE g : g = SumStep(f, g, S))[S]
BY DEF SumOver, FoldFunctionOnSet, MapThenFoldSet, SumStep

LEMMA SumOneMore ==
  ASSUME NEW f, NEW S, NEW y \in S, \A x \in S : f[x] \in Int, NEW g, IsSum(f, g, S \ {y})
  PROVE  \E h : IsSum(f, h, S)
<1>1. PICK R : R = S \ {y}
  OBVIOUS
<1>2. /\ DOMAIN g = SUBSET R /\ g[{}] = 0 /\ \A s \in SUBSET R : g[s] \in Int
      /\ \A s \in SUBSET R : \A x \in s : g[s] = f[x] + g[s \ {x}]
  BY <1>1 DEF IsSum
<1>3. PICK h : h = [s \in SUBSET S |-> IF y \in s THEN f[y] + g[s \ {y}] ELSE g[s]]
  OBVIOUS
<1>4. \A s \in SUBSET S : s \ {y} \in SUBSET R /\ (y \notin s => s \in SUBSET R)
  BY <1>1
<1>5. \A s \in SUBSET S : h[s] = (IF y \in s THEN f[y] + g[s \ {y}] ELSE g[s]) /\ h[s] \in Int
  BY <1>2, <1>3, <1>4
<1>6. ASSUME NEW s \in SUBSET S, NEW x \in s PROVE h[s] = f[x] + h[s \ {x}]
  <2>1. PICK t : t = s \ {x} /\ t \in SUBSET S
    OBVIOUS
  <2>2. CASE y \notin s
    <3>1. y \notin t /\ s \in SUBSET R
      BY <1>4, <2>1, <2>2
    <3> QED
      BY <1>2, <1>5, <2>1, <2>2, <3>1
  <2>3. CASE y \in s /\ x = y
    <3>1. y \notin t /\ t = s \ {y}
      BY <2>1, <2>3
    <3> QED
      BY <1>5, <2>1, <2>3, <3>1
  <2>4. CASE y \in s /\ x # y
    <3>1. PICK a, b : a = s \ {y} /\ b = t \ {y}
      OBVIOUS
    <3>2. a \in SUBSET R /\ b \in SUBSET R /\ x \in a /\ b = a \ {x} /\ y \in t
      BY <1>4, <2>1, <2>4, <3>1
    <3>3. h[s] = f[y] + g[a] /\ h[t] = f[y] + g[b]
      BY <1>5, <2>1, <2>4, <3>1, <3>2
    <3>4. g[a] = f[x] + g[b] /\ g[a] \in Int /\ g[b] \in Int
      BY <1>2, <3>2
    <3>5. f[x] \in Int /\ f[y] \in Int
      OBVIOUS
    <3> QED
      BY <2>1, <3>3, <3>4, <3>5
  <2> QED
    BY <2>2, <2>3, <2>4
<1>7. h \in [SUBSET S -> Int] /\ h[{}] = 0
  BY <1>2, <1>3, <1>5
<1> QED
  BY <1>5, <1>6, <1>7 DEF IsSum

LEMMA SumExists ==
  ASSUME NEW f, NEW S, IsFiniteSet(S), \A x \in S : f[x] \in Int
  PROVE  \E g : IsSum(f, g, S)
<1>1. PICK n : n = Cardinality(S) /\ n \in Nat
  BY FS_CardinalityType
<1> DEFINE G == {m \in 0 .. n : \A s \in SUBSET S : Cardinality(s) = m => \E g : IsSum(f, g, s)}
<1>2. 0 \in G
  <2>1. ASSUME NEW s \in SUBSET S, Cardinality(s) = 0 PROVE \E g : IsSum(f, g, s)
    <3>1. s = {}
      <4>1. IsFiniteSet(s)
        BY FS_Subset
      <4> QED
        BY <2>1, <4>1, FS_EmptySet
    <3>2. PICK g : g = [t \in SUBSET {} |-> 0]
      OBVIOUS
    <3>3. IsSum(f, g, {})
      BY <3>2 DEF IsSum
    <3> QED
      BY <3>1, <3>3
  <2> QED
    BY <1>1, <2>1
<1>3. ASSUME NEW m \in 1 .. n, m - 1 \in G PROVE m \in G
  <2>1. ASSUME NEW s \in SUBSET S, Cardinality(s) = m PROVE \E g : IsSum(f, g, s)
    <3>1. IsFiniteSet(s) /\ s # {}
      <4>1. IsFiniteSet(s)
        BY FS_Subset
      <4>2. Cardinality({}) = 0
        BY FS_EmptySet
      <4> QED
        BY <1>1, <2>1, <4>1, <4>2
    <3>2. PICK y : y \in s
      BY <3>1
    <3>3. Cardinality(s \ {y}) = m - 1
      BY <2>1, <3>1, <3>2, FS_RemoveElement
    <3>4. PICK g : IsSum(f, g, s \ {y})
      BY <1>3, <3>3
    <3>5. \A x \in s : f[x] \in Int
      OBVIOUS
    <3> QED
      BY <3>2, <3>4, <3>5, SumOneMore
  <2>2. m \in 0 .. n
    BY <1>1
  <2> QED
    BY <2>1, <2>2
<1> HIDE DEF G
<1>4. \A i \in 0 .. n : i \in G
  BY <1>1, <1>2, <1>3, UpTo
<1>5. n \in G
  BY <1>1, <1>4
<1> QED
  BY <1>1, <1>5 DEF G

LEMMA SumIsStep ==
  ASSUME NEW f, NEW S, NEW g, IsSum(f, g, S)
  PROVE  g = SumStep(f, g, S)
<1>1. g = [s \in SUBSET S |-> g[s]]
  BY DEF IsSum
<1>2. ASSUME NEW s \in SUBSET S
      PROVE  g[s] = IF s = {} THEN 0 ELSE f[CHOOSE x \in s : TRUE] + g[s \ {CHOOSE x \in s : TRUE}]
  <2>1. CASE s = {}
    BY <2>1 DEF IsSum
  <2>2. CASE s # {}
    <3>1. PICK y : y = CHOOSE x \in s : TRUE
      OBVIOUS
    <3>2. y \in s
      BY <2>2, <3>1
    <3> QED
      BY <2>2, <3>1, <3>2 DEF IsSum
  <2> QED
    BY <2>1, <2>2
<1> QED
  BY <1>1, <1>2 DEF SumStep

LEMMA SumUnique ==
  ASSUME NEW f, NEW S, IsFiniteSet(S), NEW g, IsSum(f, g, S), NEW h, h = SumStep(f, h, S)
  PROVE  \A s \in SUBSET S : h[s] = g[s]
<1>1. PICK n : n = Cardinality(S) /\ n \in Nat
  BY FS_CardinalityType
<1>2. \A s \in SUBSET S : h[s] = IF s = {} THEN 0 ELSE f[CHOOSE x \in s : TRUE] + h[s \ {CHOOSE x \in s : TRUE}]
  BY DEF SumStep
<1> DEFINE G == {m \in 0 .. n : \A s \in SUBSET S : Cardinality(s) = m => h[s] = g[s]}
<1>3. 0 \in G
  <2>1. ASSUME NEW s \in SUBSET S, Cardinality(s) = 0 PROVE h[s] = g[s]
    <3>1. s = {}
      <4>1. IsFiniteSet(s)
        BY FS_Subset
      <4> QED
        BY <2>1, <4>1, FS_EmptySet
    <3> QED
      BY <1>2, <3>1 DEF IsSum
  <2> QED
    BY <1>1, <2>1
<1>4. ASSUME NEW m \in 1 .. n, m - 1 \in G PROVE m \in G
  <2>1. ASSUME NEW s \in SUBSET S, Cardinality(s) = m PROVE h[s] = g[s]
    <3>1. IsFiniteSet(s) /\ s # {}
      <4>1. IsFiniteSet(s)
        BY FS_Subset
      <4>2. Cardinality({}) = 0
        BY FS_EmptySet
      <4> QED
        BY <1>1, <2>1, <4>1, <4>2
    <3>2. PICK y : y \in s /\ y = CHOOSE x \in s : TRUE
      BY <3>1
    <3>3. Cardinality(s \ {y}) = m - 1 /\ s \ {y} \in SUBSET S
      BY <2>1, <3>1, <3>2, FS_RemoveElement
    <3>4. h[s \ {y}] = g[s \ {y}]
      BY <1>4, <3>3
    <3>5. h[s] = f[y] + h[s \ {y}]
      BY <1>2, <3>1, <3>2
    <3>6. g[s] = f[y] + g[s \ {y}]
      BY <3>2 DEF IsSum
    <3> QED
      BY <3>4, <3>5, <3>6
  <2>2. m \in 0 .. n
    BY <1>1
  <2> QED
    BY <2>1, <2>2
<1> HIDE DEF G
<1>5. \A i \in 0 .. n : i \in G
  BY <1>1, <1>3, <1>4, UpTo
<1>6. ASSUME NEW s \in SUBSET S PROVE h[s] = g[s]
  <2>1. Cardinality(s) \in 0 .. n
    <3>1. IsFiniteSet(s) /\ Cardinality(s) <= n
      BY <1>1, FS_Subset
    <3>2. Cardinality(s) \in Nat
      BY <3>1, FS_CardinalityType
    <3> QED
      BY <1>1, <3>1, <3>2
  <2> QED
    BY <1>5, <2>1 DEF G
<1> QED
  BY <1>6

LEMMA SumOne ==
  ASSUME NEW f, NEW S, IsFiniteSet(S), NEW a, NEW b, IsSum(f, a, S), IsSum(f, b, S)
  PROVE  \A s \in SUBSET S : a[s] = b[s]
<1>1. a = SumStep(f, a, S)
  BY SumIsStep
<1> QED
  BY <1>1, SumUnique

\* The sum of a set is the sum of what is left without an element, and that element.
LEMMA SumIs ==
  ASSUME NEW f, NEW S, IsFiniteSet(S), \A x \in S : f[x] \in Int
  PROVE  \E g : IsSum(f, g, S) /\ \A T \in SUBSET S : SumOver(f, T) = g[T]
<1>1. PICK g : IsSum(f, g, S)
  BY SumExists
<1>2. ASSUME NEW T \in SUBSET S PROVE SumOver(f, T) = g[T]
  <2>1. IsFiniteSet(T)
    BY FS_Subset
  <2>2. PICK k : k = [s \in SUBSET T |-> g[s]]
    OBVIOUS
  <2>3. IsSum(f, k, T)
    <3>1. \A s \in SUBSET T : s \in SUBSET S /\ k[s] = g[s]
      BY <2>2
    <3>2. \A s \in SUBSET T : \A x \in s : s \ {x} \in SUBSET T
      OBVIOUS
    <3> QED
      BY <1>1, <2>2, <3>1, <3>2 DEF IsSum
  <2>4. k = SumStep(f, k, T)
    BY <2>3, SumIsStep
  <2>5. PICK h : h = (CHOOSE q : q = SumStep(f, q, T)) /\ h = SumStep(f, h, T)
    BY <2>4
  <2>6. \A s \in SUBSET T : h[s] = k[s]
    <3>1. h = SumStep(f, h, T)
      BY <2>5
    <3> QED
      BY <2>1, <2>3, <3>1, SumUnique
  <2>7. SumOver(f, T) = h[T]
    BY <2>5, SumUnfold
  <2> QED
    BY <2>2, <2>6, <2>7
<1> QED
  BY <1>1, <1>2

LEMMA SumType ==
  ASSUME NEW f, NEW S, IsFiniteSet(S), \A x \in S : f[x] \in Int
  PROVE  SumOver(f, S) \in Int
<1>1. PICK g : IsSum(f, g, S) /\ \A T \in SUBSET S : SumOver(f, T) = g[T]
  BY SumIs
<1>2. S \in SUBSET S
  OBVIOUS
<1> QED
  BY <1>1, <1>2 DEF IsSum

LEMMA SumEmpty ==
  ASSUME NEW f
  PROVE  SumOver(f, {}) = 0
<1>1. IsFiniteSet({}) /\ \A x \in {} : f[x] \in Int
  BY FS_EmptySet
<1>2. PICK S : S = {}
  OBVIOUS
<1> QED
  BY <1>1, <1>2, SumIs DEF IsSum

LEMMA SumWithout ==
  ASSUME NEW f, NEW S, IsFiniteSet(S), \A x \in S : f[x] \in Int, NEW y \in S
  PROVE  SumOver(f, S) = f[y] + SumOver(f, S \ {y})
<1>1. PICK g : IsSum(f, g, S) /\ \A T \in SUBSET S : SumOver(f, T) = g[T]
  BY SumIs
<1>2. S \ {y} \in SUBSET S /\ S \in SUBSET S
  OBVIOUS
<1>3. g[S] = f[y] + g[S \ {y}]
  BY <1>1, <1>2 DEF IsSum
<1> QED
  BY <1>1, <1>2, <1>3

\* The sum has only to do with the values on the set.
LEMMA SumSame ==
  ASSUME NEW f, NEW h, NEW S, IsFiniteSet(S), \A x \in S : f[x] \in Int /\ h[x] = f[x]
  PROVE  SumOver(h, S) = SumOver(f, S)
<1>1. PICK g : IsSum(f, g, S) /\ \A T \in SUBSET S : SumOver(f, T) = g[T]
  BY SumIs
<1>2. PICK k : IsSum(h, k, S) /\ \A T \in SUBSET S : SumOver(h, T) = k[T]
  BY SumIs
<1>3. IsSum(f, k, S)
  BY <1>2 DEF IsSum
<1>4. IsSum(f, g, S)
  BY <1>1
<1>5. \A s \in SUBSET S : k[s] = g[s]
  BY <1>3, <1>4, SumOne
<1>6. S \in SUBSET S
  OBVIOUS
<1> QED
  BY <1>1, <1>2, <1>5, <1>6

\* The sum when one value changes, and when equal values are taken out.
LEMMA SumPoint ==
  ASSUME NEW f, NEW h, NEW S, IsFiniteSet(S), NEW y \in S,
         \A x \in S : f[x] \in Int /\ h[x] \in Int, \A x \in S \ {y} : h[x] = f[x]
  PROVE  SumOver(h, S) = SumOver(f, S) - f[y] + h[y]
<1>1. SumOver(f, S) = f[y] + SumOver(f, S \ {y}) /\ SumOver(h, S) = h[y] + SumOver(h, S \ {y})
  BY SumWithout
<1>2. PICK R : R = S \ {y}
  OBVIOUS
<1>3. IsFiniteSet(R) /\ \A x \in R : f[x] \in Int /\ h[x] = f[x]
  BY <1>2, FS_Subset
<1>4. SumOver(h, R) = SumOver(f, R) /\ SumOver(f, R) \in Int
  BY <1>3, SumSame, SumType
<1> QED
  BY <1>1, <1>2, <1>4

LEMMA SumEqual ==
  ASSUME NEW f, NEW S, IsFiniteSet(S), NEW v \in Int, \A x \in S : f[x] \in Int, NEW T \in SUBSET S,
         \A x \in T : f[x] = v
  PROVE  SumOver(f, S \ T) = SumOver(f, S) - Cardinality(T) * v
<1>1. PICK n : n = Cardinality(T) /\ n \in Nat /\ IsFiniteSet(T)
  BY FS_CardinalityType, FS_Subset
<1> DEFINE G == {m \in 0 .. n : \A U \in SUBSET T : Cardinality(U) = m => SumOver(f, S \ U) = SumOver(f, S) - m * v}
<1>0. SumOver(f, S) \in Int
  BY SumType
<1>2. 0 \in G
  <2>1. ASSUME NEW U \in SUBSET T, Cardinality(U) = 0 PROVE SumOver(f, S \ U) = SumOver(f, S) - 0 * v
    <3>1. U = {}
      <4>1. IsFiniteSet(U)
        BY <1>1, FS_Subset
      <4> QED
        BY <2>1, <4>1, FS_EmptySet
    <3>2. S \ U = S
      BY <3>1
    <3>3. SumOver(f, S \ U) = SumOver(f, S)
      BY <3>2, Zenon
    <3>4. PICK a : a = SumOver(f, S) /\ a \in Int
      BY <1>0
    <3>5. a = a - 0 * v
      BY <3>4
    <3> QED
      BY <3>3, <3>4, <3>5, Zenon
  <2> QED
    BY <1>1, <2>1
<1>3. ASSUME NEW m \in 1 .. n, m - 1 \in G PROVE m \in G
  <2>1. ASSUME NEW U \in SUBSET T, Cardinality(U) = m PROVE SumOver(f, S \ U) = SumOver(f, S) - m * v
    <3>1. IsFiniteSet(U) /\ U # {}
      <4>1. IsFiniteSet(U)
        BY <1>1, FS_Subset
      <4>2. Cardinality({}) = 0
        BY FS_EmptySet
      <4> QED
        BY <1>1, <2>1, <4>1, <4>2
    <3>2. PICK y : y \in U
      BY <3>1
    <3>3. PICK W, R : W = U \ {y} /\ R = S \ W
      OBVIOUS
    <3>4. Cardinality(W) = m - 1 /\ W \in SUBSET T
      BY <2>1, <3>1, <3>2, <3>3, FS_RemoveElement
    <3>5. SumOver(f, R) = SumOver(f, S) - (m - 1) * v
      BY <1>3, <3>3, <3>4
    <3>6. IsFiniteSet(R) /\ y \in R /\ S \ U = R \ {y} /\ f[y] = v /\ \A x \in R : f[x] \in Int
      <4>1. R \in SUBSET S /\ y \in R /\ S \ U = R \ {y}
        BY <3>2, <3>3
      <4> QED
        BY <3>2, <4>1, FS_Subset
    <3>7. SumOver(f, R) = f[y] + SumOver(f, R \ {y})
      BY <3>6, SumWithout
    <3>8. SumOver(f, R \ {y}) \in Int
      <4>1. PICK Q : Q = R \ {y}
        OBVIOUS
      <4>2. IsFiniteSet(Q) /\ \A x \in Q : f[x] \in Int
        BY <3>6, <4>1, FS_Subset
      <4>3. SumOver(f, Q) \in Int
        BY <4>2, SumType
      <4> QED
        BY <4>1, <4>3
    <3>9. m * v = (m - 1) * v + v /\ m * v \in Int /\ (m - 1) * v \in Int
      BY <1>1
    <3>10. PICK a, b, c, d, e : /\ a = SumOver(f, S) /\ b = SumOver(f, R) /\ c = SumOver(f, R \ {y})
                                /\ d = m * v /\ e = (m - 1) * v
      OBVIOUS
    <3>11. a \in Int /\ c \in Int /\ e \in Int /\ b = a - e /\ b = v + c /\ d = e + v
      BY <1>0, <3>5, <3>6, <3>7, <3>8, <3>9, <3>10
    <3>12. c = a - d
      BY <3>11
    <3> QED
      BY <3>6, <3>10, <3>12
  <2>2. m \in 0 .. n
    BY <1>1
  <2> QED
    BY <2>1, <2>2
<1> HIDE DEF G
<1>4. \A i \in 0 .. n : i \in G
  BY <1>1, <1>2, <1>3, UpTo
<1>5. n \in G
  BY <1>1, <1>4
<1> QED
  BY <1>1, <1>5 DEF G
=============================================================================
