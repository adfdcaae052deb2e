---------------------------- MODULE SampleProofs ----------------------------
(***************************************************************************)
(* Theorems about Sample, for any types T and C, any samples and any size  *)
(* of the buffer: what percentile, min, max and total return.              *)
(***************************************************************************)
EXTENDS Sample, SequenceTheorems, FunctionTheorems, FiniteSetTheorems, WellFoundedInduction, TLAPS

-----------------------------------------------------------------------------
(* The inductive invariant *)

InOrder(t) == \A j, k \in 1..Len(t) : j <= k => t[j] <= t[k]

\* t has the elements of s, each as often, in some order.
Rearranges(t, s) ==
    /\ Len(t) = Len(s)
    /\ \E p \in Bijection(1..Len(s), 1..Len(s)) : \A k \in 1..Len(s) : t[k] = s[p[k]]

\* The buffer holds what was pushed, in order if it counts as sorted.
BufferOK ==
    /\ samples \in Seq(Values) /\ pushed \in Seq(Values) /\ Len(pushed) <= Size
    /\ samples_sorted \in BOOLEAN
    /\ Rearranges(samples, pushed)
    /\ samples_sorted => InOrder(samples)

\* Nothing pushed leaves the summaries as they were made.
FreshOK ==
    /\ min \in TMin..TMax /\ max \in TMin..TMax
    /\ total \in [value : TMin..TMax, overflow : BOOLEAN]
    /\ Len(pushed) = 0 => min = TMax /\ max = TMin

IInv == BufferOK /\ FreshOK /\ SummaryIsExact

-----------------------------------------------------------------------------
(* Least elements, which take the place of induction *)

\* Every nonempty set of naturals has a least element.
LEMMA LeastNatural ==
    ASSUME NEW T \in SUBSET Nat, T # {}
    PROVE  \E n \in T : \A m \in T : n <= m
<1>1. PICK n \in T : \A m \in T : ~(<<m, n>> \in OpToRel(<, Nat))
  <2>1. IsWellFoundedOn(OpToRel(<, Nat), Nat)
    BY NatLessThanWellFounded, Zenon
  <2> QED
    BY <2>1, WFMin, Zenon
<1>2. ASSUME NEW m \in T PROVE n <= m
  <2>1. ~(m < n)
    BY <1>1 DEF OpToRel
  <2> QED
    BY <2>1
<1> QED
  BY <1>2

-----------------------------------------------------------------------------
(* Sums *)

\* f is the sums of s, up to the m-th element.
Adds(s, m, f) == f[0] = 0 /\ \A n \in 1..m : f[n] = f[n - 1] + s[n]

SumsUpTo(s, m, f) == f \in [0..m -> Int] /\ Adds(s, m, f)

LEMMA SumsExist ==
    ASSUME NEW s \in Seq(Int)
    PROVE  \E f : SumsUpTo(s, Len(s), f)
<1>1. Len(s) \in Nat /\ \A n \in 1..Len(s) : s[n] \in Int
  BY LenProperties, ElementOfSeq
<1> DEFINE T == {m \in 0..Len(s) : ~ \E f : SumsUpTo(s, m, f)}
<1>2. T = {}
  <2> SUFFICES ASSUME T # {} PROVE FALSE
    OBVIOUS
  <2>1. PICK m \in T : \A n \in T : m <= n
    <3>1. T \in SUBSET Nat
      BY <1>1
    <3> QED
      BY <3>1, LeastNatural
  <2>2. m \in 0..Len(s) /\ m \in Nat
    BY <1>1
  <2>3. CASE m = 0
    <3>1. SumsUpTo(s, 0, [k \in 0..0 |-> 0])
      BY DEF SumsUpTo, Adds
    <3> QED
      BY <2>3, <3>1
  <2>4. CASE m # 0
    <3>1. m - 1 \in 0..Len(s) /\ m - 1 \notin T
      BY <1>1, <2>1, <2>2, <2>4
    <3>2. PICK f : SumsUpTo(s, m - 1, f)
      BY <3>1
    <3> DEFINE g == [k \in 0..m |-> IF k = m THEN f[m - 1] + s[m] ELSE f[k]]
    <3>3. SumsUpTo(s, m, g)
      <4>1. s[m] \in Int /\ f \in [0..(m - 1) -> Int]
        BY <1>1, <2>2, <2>4, <3>2 DEF SumsUpTo
      <4>2. g \in [0..m -> Int]
        BY <2>2, <2>4, <4>1
      <4>3. ASSUME NEW n \in 1..m PROVE g[n] = g[n - 1] + s[n]
        BY <2>2, <3>2 DEF SumsUpTo, Adds
      <4>4. g[0] = 0
        BY <2>2, <2>4, <3>2 DEF SumsUpTo, Adds
      <4> QED
        BY <4>2, <4>3, <4>4 DEF SumsUpTo, Adds
    <3> HIDE DEF g
    <3> QED
      BY <3>3
  <2> QED
    BY <2>3, <2>4
<1> QED
  BY <1>1, <1>2

\* A sum is determined by the elements it adds.
LEMMA SumsAgree ==
    ASSUME NEW m \in Nat, NEW s, NEW t, NEW f, NEW g,
           Adds(s, m, f), Adds(t, m, g), \A n \in 1..m : s[n] = t[n]
    PROVE  \A n \in 0..m : f[n] = g[n]
<1> DEFINE T == {n \in 0..m : f[n] # g[n]}
<1> SUFFICES ASSUME T # {} PROVE FALSE
  OBVIOUS
<1>1. PICK n \in T : \A k \in T : n <= k
  <2>1. T \in SUBSET Nat
    OBVIOUS
  <2> QED
    BY <2>1, LeastNatural
<1>2. n # 0 /\ n \in 0..m
  BY DEF Adds
<1>3. n \in 1..m /\ n - 1 \in 0..m /\ n - 1 \notin T
  BY <1>1, <1>2
<1>4. f[n - 1] = g[n - 1]
  BY <1>3
<1> QED
  BY <1>3, <1>4 DEF Adds

\* Each sum is the one before it and one more element.
LEMMA SumsAre ==
    ASSUME NEW s \in Seq(Int)
    PROVE  SumsUpTo(s, Len(s), Sums(s))
<1>1. Len(s) \in Nat /\ \A n \in 1..Len(s) : s[n] \in Int
  BY LenProperties, ElementOfSeq
<1> DEFINE F(f) == [n \in 0..Len(s) |-> IF n = 0 THEN 0 ELSE f[n - 1] + s[n]]
<1>2. PICK f : SumsUpTo(s, Len(s), f)
  BY SumsExist
<1>3. f = F(f)
  BY <1>1, <1>2 DEF SumsUpTo, Adds
<1>4. Sums(s) = F(Sums(s))
  <2>1. Sums(s) = CHOOSE x : x = F(x)
    BY DEF Sums
  <2> HIDE DEF F
  <2> QED
    BY <1>3, <2>1, Zenon
<1> DEFINE g == Sums(s)
<1> HIDE DEF g
<1>5. g = F(g)
  BY <1>4 DEF g
<1>6. Adds(s, Len(s), g)
  <2>1. \A n \in 0..Len(s) : g[n] = IF n = 0 THEN 0 ELSE g[n - 1] + s[n]
    BY <1>5
  <2>2. 0 \in 0..Len(s) /\ \A n \in 1..Len(s) : n \in 0..Len(s) /\ n # 0
    BY <1>1
  <2> QED
    BY <2>1, <2>2 DEF Adds
<1>7. \A n \in 0..Len(s) : g[n] = f[n]
  <2>1. Adds(s, Len(s), f)
    BY <1>2 DEF SumsUpTo
  <2> QED
    BY <1>1, <1>6, <2>1, SumsAgree
<1>8. g \in [0..Len(s) -> Int]
  BY <1>2, <1>5, <1>7 DEF SumsUpTo
<1> QED
  BY <1>6, <1>8 DEF SumsUpTo, g

\* What a push does to the sums.
LEMMA SumsAppend ==
    ASSUME NEW s \in Seq(Int), NEW v \in Int
    PROVE  /\ \A n \in 0..Len(s) : Sums(Append(s, v))[n] = Sums(s)[n] /\ Sums(s)[n] \in Int
           /\ Sums(Append(s, v))[Len(s) + 1] = Sums(s)[Len(s)] + v
<1> DEFINE t == Append(s, v)
<1>1. /\ t \in Seq(Int) /\ Len(s) \in Nat /\ Len(t) = Len(s) + 1 /\ t[Len(s) + 1] = v
      /\ \A n \in 1..Len(s) : t[n] = s[n]
  BY AppendProperties, LenProperties
<1>2. SumsUpTo(s, Len(s), Sums(s)) /\ SumsUpTo(t, Len(s) + 1, Sums(t))
  BY <1>1, SumsAre
<1> HIDE DEF t
<1>3. \A n \in 0..Len(s) : Sums(t)[n] = Sums(s)[n]
  <2>1. Adds(t, Len(s), Sums(t)) /\ Adds(s, Len(s), Sums(s))
    BY <1>1, <1>2 DEF SumsUpTo, Adds
  <2>2. \A n \in 1..Len(s) : t[n] = s[n]
    BY <1>1
  <2> DEFINE f == Sums(t)
             g == Sums(s)
  <2>3. Len(s) \in Nat /\ Adds(t, Len(s), f) /\ Adds(s, Len(s), g)
    BY <1>1, <2>1
  <2> HIDE DEF f, g
  <2>4. \A n \in 0..Len(s) : f[n] = g[n]
    BY <2>2, <2>3, SumsAgree
  <2> QED
    BY <2>4 DEF f, g
<1>4. Sums(t)[Len(s) + 1] = Sums(t)[Len(s)] + v
  <2>1. Len(s) + 1 \in 1..(Len(s) + 1) /\ (Len(s) + 1) - 1 = Len(s)
    BY <1>1
  <2> QED
    BY <1>1, <1>2, <2>1 DEF SumsUpTo, Adds
<1>5. \A n \in 0..Len(s) : Sums(s)[n] \in Int
  BY <1>2 DEF SumsUpTo
<1> QED
  BY <1>1, <1>3, <1>4, <1>5 DEF t

-----------------------------------------------------------------------------
(* Sorting *)

LEMMA FirstNumbers ==
    ASSUME NEW n \in Nat
    PROVE  IsFiniteSet(1..n) /\ Cardinality(1..n) = n
<1>1. Cardinality(1..n) = IF 1 > n THEN 0 ELSE n - 1 + 1
  BY FS_Interval
<1>2. IsFiniteSet(1..n)
  BY FS_Interval
<1> QED
  BY <1>1, <1>2

\* The elements that come before the i-th one: the smaller ones, and those before
\* it that are equal.  How many they are is its place.
Before(s, i) == {j \in 1..Len(s) : s[j] < s[i] \/ (s[j] = s[i] /\ j < i)}

LEMMA BeforeCount ==
    ASSUME NEW s \in Seq(Int), NEW i \in 1..Len(s)
    PROVE  Cardinality(Before(s, i)) \in 0..(Len(s) - 1)
<1>1. Len(s) \in Nat /\ IsFiniteSet(1..Len(s)) /\ Cardinality(1..Len(s)) = Len(s)
  BY LenProperties, FirstNumbers
<1>2. Before(s, i) \subseteq (1..Len(s)) \ {i}
  <2>1. s[i] \in Int
    BY ElementOfSeq
  <2> QED
    BY <1>1, <2>1 DEF Before
<1>3. /\ IsFiniteSet((1..Len(s)) \ {i})
      /\ Cardinality((1..Len(s)) \ {i}) = Len(s) - 1
  <2> DEFINE D == 1..Len(s)
  <2>1. IsFiniteSet(D) /\ Cardinality(D) = Len(s) /\ i \in D
    BY <1>1
  <2> HIDE DEF D
  <2>2. IsFiniteSet(D \ {i}) /\ Cardinality(D \ {i}) = Cardinality(D) - 1
    BY <2>1, FS_RemoveElement
  <2> QED
    BY <2>1, <2>2 DEF D
<1>4. IsFiniteSet(Before(s, i)) /\ Cardinality(Before(s, i)) <= Len(s) - 1
  BY <1>2, <1>3, FS_Subset
<1>5. Cardinality(Before(s, i)) \in Nat
  BY <1>4, FS_CardinalityType
<1> QED
  BY <1>1, <1>4, <1>5

\* What comes before another element has a smaller place.
LEMMA BeforeOrders ==
    ASSUME NEW s \in Seq(Int), NEW i \in 1..Len(s), NEW j \in Before(s, i)
    PROVE  Cardinality(Before(s, j)) < Cardinality(Before(s, i))
<1>1. Len(s) \in Nat /\ \A k \in 1..Len(s) : s[k] \in Int
  BY LenProperties, ElementOfSeq
<1>2. j \in 1..Len(s)
  BY DEF Before
<1>3. Before(s, j) \subseteq Before(s, i) /\ j \notin Before(s, j)
  BY <1>1, <1>2 DEF Before
<1>4. IsFiniteSet(Before(s, i))
  <2>1. IsFiniteSet(1..Len(s)) /\ Before(s, i) \subseteq 1..Len(s)
    BY <1>1, FS_Interval DEF Before
  <2> QED
    BY <2>1, FS_Subset
<1>5. /\ Cardinality(Before(s, j)) <= Cardinality(Before(s, i))
      /\ Cardinality(Before(s, i)) = Cardinality(Before(s, j)) => Before(s, i) = Before(s, j)
  BY <1>3, <1>4, FS_Subset
<1>6. Before(s, i) # Before(s, j)
  BY <1>3
<1>7. Cardinality(Before(s, i)) \in Int /\ Cardinality(Before(s, j)) \in Int
  BY <1>1, <1>2, BeforeCount
<1> QED
  BY <1>5, <1>6, <1>7

\* An order that puts the elements of s from the least to the greatest.
Order(s, p) ==
    /\ p \in [DOMAIN s -> DOMAIN s]
    /\ \A k \in 2..Len(s) : s[p[k - 1]] <= s[p[k]]
    /\ IsInjective(p)

\* There is one: each element goes to its place.
LEMMA OrderExists ==
    ASSUME NEW s \in Seq(Int)
    PROVE  \E p : Order(s, p)
<1> DEFINE D == 1..Len(s)
           place == [i \in D |-> Cardinality(Before(s, i)) + 1]
<1>1. Len(s) \in Nat /\ DOMAIN s = D /\ \A k \in D : s[k] \in Int
  BY LenProperties, ElementOfSeq
<1>2. \A i \in D : place[i] \in D /\ place[i] = Cardinality(Before(s, i)) + 1
  <2> TAKE i \in D
  <2>1. Cardinality(Before(s, i)) \in 0..(Len(s) - 1)
    BY BeforeCount
  <2> QED
    BY <1>1, <2>1
<1>3. \A i, j \in D : j \in Before(s, i) => place[j] < place[i]
  <2> TAKE i, j \in D
  <2>1. j \in Before(s, i) => Cardinality(Before(s, j)) < Cardinality(Before(s, i))
    BY BeforeOrders
  <2>2. Cardinality(Before(s, j)) \in Int /\ Cardinality(Before(s, i)) \in Int
    BY BeforeCount
  <2> QED
    BY <2>1, <2>2
<1>4. place \in [D -> D]
  BY <1>2
<1> HIDE DEF place
<1>5. \A i, j \in D : i # j => i \in Before(s, j) \/ j \in Before(s, i)
  BY <1>1 DEF Before
<1>6. place \in Injection(D, D)
  <2>1. \A i, j \in D : place[i] = place[j] => i = j
    BY <1>1, <1>2, <1>3, <1>5
  <2> QED
    BY <1>4, <2>1 DEF Injection, IsInjective
<1>7. place \in Surjection(D, D)
  <2>1. IsFiniteSet(D)
    BY <1>1, FS_Interval
  <2> QED
    BY <1>6, <2>1, FS_Injection
<1> DEFINE p == [k \in D |-> CHOOSE i \in D : place[i] = k]
<1>8. \A k \in D : p[k] \in D /\ place[p[k]] = k
  <2>1. \A k \in D : \E i \in D : place[i] = k
    BY <1>7 DEF Surjection
  <2> QED
    BY <2>1
<1>9. p \in [D -> D]
  BY <1>8
<1> HIDE DEF p
<1>10. ASSUME NEW k \in 2..Len(s) PROVE s[p[k - 1]] <= s[p[k]]
  <2>1. k \in D /\ k - 1 \in D /\ k - 1 < k
    BY <1>1
  <2>2. /\ p[k] \in D /\ p[k - 1] \in D /\ place[p[k]] = k /\ place[p[k - 1]] = k - 1
        /\ s[p[k]] \in Int /\ s[p[k - 1]] \in Int
    BY <1>1, <1>8, <2>1
  <2>3. p[k] \notin Before(s, p[k - 1])
    <3>1. p[k] \in Before(s, p[k - 1]) => place[p[k]] < place[p[k - 1]]
      BY <1>3, <2>2
    <3>2. ~(k < k - 1)
      BY <1>1
    <3> QED
      BY <2>2, <3>1, <3>2
  <2> QED
    BY <2>2, <2>3 DEF Before
<1>11. IsInjective(p)
  BY <1>8, <1>9 DEF IsInjective
<1> QED
  BY <1>1, <1>9, <1>10, <1>11 DEF Order

\* Where each element is not less than the one before it, all of them are in order.
LEMMA StepsAreOrder ==
    ASSUME NEW t \in Seq(Int), \A k \in 2..Len(t) : t[k - 1] <= t[k]
    PROVE  InOrder(t)
<1>1. Len(t) \in Nat /\ \A k \in 1..Len(t) : t[k] \in Int
  BY LenProperties, ElementOfSeq
<1> DEFINE Lags(k) == \E j \in 1..k : ~(t[j] <= t[k])
           T == {k \in 1..Len(t) : Lags(k)}
<1>2. ASSUME NEW k \in T, \A n \in T : k <= n PROVE FALSE
  <2>1. k \in 1..Len(t)
    OBVIOUS
  <2>2. PICK j \in 1..k : ~(t[j] <= t[k])
    OBVIOUS
  <2>3. k \in 2..Len(t) /\ k - 1 \in 1..Len(t) /\ j \in 1..(k - 1)
    BY <1>1, <2>1, <2>2
  <2>4. ~Lags(k - 1)
    <3> HIDE DEF Lags
    <3> QED
      BY <1>2, <2>3
  <2>5. t[j] <= t[k - 1] /\ t[k - 1] <= t[k]
    BY <2>3, <2>4
  <2>6. t[j] \in Int /\ t[k - 1] \in Int /\ t[k] \in Int
    <3> j \in 1..Len(t)
      BY <2>3
    <3> QED
      BY <1>1, <2>1, <2>3
  <2> QED
    BY <2>2, <2>5, <2>6
<1>3. T = {}
  <2>1. T \in SUBSET Nat
    OBVIOUS
  <2> HIDE DEF T
  <2> QED
    BY <1>2, <2>1, LeastNatural
<1>4. ASSUME NEW j \in 1..Len(t), NEW k \in 1..Len(t), j <= k PROVE t[j] <= t[k]
  <2>1. ~Lags(k)
    <3> HIDE DEF Lags
    <3> QED
      BY <1>3
  <2> QED
    BY <1>4, <2>1
<1> QED
  BY <1>4 DEF InOrder

LEMMA WiderSeq ==
    ASSUME NEW S \in SUBSET Int, NEW s \in Seq(S)
    PROVE  s \in Seq(Int)
BY SeqMonotonic

\* What a sort leaves.
LEMMA AscendingIs ==
    ASSUME NEW S \in SUBSET Int, NEW s \in Seq(S)
    PROVE  Ascending(s) \in Seq(S) /\ InOrder(Ascending(s)) /\ Rearranges(Ascending(s), s)
<1> DEFINE D == 1..Len(s)
           p == CHOOSE q \in [DOMAIN s -> DOMAIN s] :
                   /\ \A k \in 2..Len(s) : s[q[k - 1]] <= s[q[k]]
                   /\ IsInjective(q)
           t == Ascending(s)
<1>1. s \in Seq(Int) /\ Len(s) \in Nat /\ DOMAIN s = D /\ \A k \in D : s[k] \in S
  <2>1. Len(s) \in Nat /\ DOMAIN s = D /\ \A k \in D : s[k] \in S
    BY LenProperties, ElementOfSeq
  <2>2. s \in Seq(Int)
    BY WiderSeq
  <2> QED
    BY <2>1, <2>2
<1>2. Order(s, p)
  <2>1. \E q : Order(s, q)
    BY <1>1, OrderExists
  <2> QED
    BY <2>1 DEF Order
<1>3. t = [k \in D |-> s[p[k]]]
  BY <1>1 DEF Ascending
<1> HIDE DEF p, t
<1>4. p \in [D -> D] /\ \A k \in 2..Len(s) : s[p[k - 1]] <= s[p[k]]
  BY <1>1, <1>2 DEF Order
<1>5. p \in Bijection(D, D)
  <2>1. p \in Injection(D, D)
    BY <1>2, <1>4 DEF Order, Injection
  <2>2. IsFiniteSet(D)
    BY <1>1, FS_Interval
  <2>3. p \in Surjection(D, D)
    BY <2>1, <2>2, FS_Injection
  <2> QED
    BY <2>1, <2>3 DEF Bijection
<1>6. t \in Seq(S) /\ Len(t) = Len(s)
  <2>1. t \in [1..Len(s) -> S]
    BY <1>1, <1>3, <1>4
  <2> QED
    BY <1>1, <2>1
<1>7. InOrder(t)
  <2>1. \A k \in 2..Len(t) : t[k - 1] <= t[k]
    BY <1>1, <1>3, <1>4, <1>6
  <2>2. t \in Seq(Int)
    BY <1>6, WiderSeq
  <2> QED
    BY <2>1, <2>2, StepsAreOrder
<1>8. Rearranges(t, s)
  BY <1>3, <1>5, <1>6 DEF Rearranges
<1> QED
  BY <1>6, <1>7, <1>8 DEF t

-----------------------------------------------------------------------------
(* Rearrangements *)

LEMMA RearrangesTransitive ==
    ASSUME NEW s, NEW t, NEW u, Rearranges(t, s), Rearranges(u, t)
    PROVE  Rearranges(u, s)
<1> DEFINE D == 1..Len(s)
<1>1. PICK p \in Bijection(D, D) : \A k \in D : t[k] = s[p[k]]
  BY DEF Rearranges
<1>2. PICK q \in Bijection(D, D) : \A k \in D : u[k] = t[q[k]]
  BY DEF Rearranges
<1> DEFINE r == [k \in D |-> p[q[k]]]
<1>3. r \in Bijection(D, D)
  <2> HIDE DEF D
  <2> QED
    BY Fun_BijTransitive
<1>4. q \in [D -> D]
  BY DEF Bijection, Injection
<1>5. \A k \in D : u[k] = s[r[k]]
  BY <1>1, <1>2, <1>4
<1>6. Len(u) = Len(s)
  BY DEF Rearranges
<1> HIDE DEF r
<1> QED
  BY <1>3, <1>5, <1>6 DEF Rearranges

LEMMA RearrangesAppend ==
    ASSUME NEW S, NEW s \in Seq(S), NEW t \in Seq(S), NEW v \in S, Rearranges(t, s)
    PROVE  Rearranges(Append(t, v), Append(s, v))
<1>1. PICK n \in Nat : n = Len(s) /\ n = Len(t)
  <2>1. Len(s) \in Nat /\ Len(t) = Len(s)
    BY LenProperties DEF Rearranges
  <2> QED
    BY <2>1
<1> DEFINE D == 1..n
           E == 1..(n + 1)
<1>2. PICK p \in Bijection(D, D) : \A k \in D : t[k] = s[p[k]]
  BY <1>1 DEF Rearranges
<1> DEFINE r == [k \in E |-> IF k = n + 1 THEN n + 1 ELSE p[k]]
<1>3. /\ p \in [D -> D]
      /\ \A a, b \in D : p[a] = p[b] => a = b
      /\ \A d \in D : \E k \in D : p[k] = d
  BY <1>2 DEF Bijection, Injection, Surjection, IsInjective
<1>4. /\ \A k \in D : k \in E /\ k # n + 1
      /\ \A k \in E : k # n + 1 => k \in D
      /\ n + 1 \in E
  BY <1>1
<1>5. /\ \A k \in D : r[k] = p[k] /\ p[k] \in D
      /\ r[n + 1] = n + 1
  BY <1>3, <1>4
<1> HIDE DEF D, E
<1>6. r \in [E -> E]
  BY <1>3, <1>4
<1> HIDE DEF r
<1>7. r \in Bijection(E, E)
  <2>1. \A a, b \in E : r[a] = r[b] => a = b
    BY <1>3, <1>4, <1>5
  <2>2. \A d \in E : \E k \in E : r[k] = d
    BY <1>3, <1>4, <1>5
  <2> QED
    BY <1>6, <2>1, <2>2, Fun_IsBij
<1>8. /\ Len(Append(s, v)) = n + 1 /\ Append(s, v)[n + 1] = v
      /\ Len(Append(t, v)) = n + 1 /\ Append(t, v)[n + 1] = v
      /\ \A k \in D : Append(s, v)[k] = s[k] /\ Append(t, v)[k] = t[k]
  <2>1. /\ Len(Append(s, v)) = Len(s) + 1 /\ Append(s, v)[Len(s) + 1] = v
        /\ \A k \in 1..Len(s) : Append(s, v)[k] = s[k]
    BY AppendProperties
  <2>2. /\ Len(Append(t, v)) = Len(t) + 1 /\ Append(t, v)[Len(t) + 1] = v
        /\ \A k \in 1..Len(t) : Append(t, v)[k] = t[k]
    BY AppendProperties
  <2> QED
    BY <1>1, <2>1, <2>2 DEF D
<1>9. ASSUME NEW k \in E PROVE Append(t, v)[k] = Append(s, v)[r[k]]
  <2>1. CASE k = n + 1
    BY <1>5, <1>8, <2>1
  <2>2. CASE k \in D
    <3>1. r[k] = p[k] /\ p[k] \in D /\ t[k] = s[p[k]]
      BY <1>2, <1>5, <2>2
    <3> QED
      BY <1>8, <2>2, <3>1
  <2> QED
    BY <1>4, <2>1, <2>2
<1>10. E = 1..Len(Append(s, v)) /\ Len(Append(t, v)) = Len(Append(s, v))
  BY <1>8 DEF E
<1> QED
  BY <1>7, <1>9, <1>10, Zenon DEF Rearranges

-----------------------------------------------------------------------------
(* Ranks *)

\* The i-th of the sorted elements: fewer than i are below it, i or more are up to it.
LEMMA RankOf ==
    ASSUME NEW t \in Seq(Int), NEW u \in Seq(Int), InOrder(t), Rearranges(t, u),
           NEW i \in 1..Len(t)
    PROVE  /\ Cardinality({j \in DOMAIN u : u[j] < t[i]}) <= i - 1
           /\ i <= Cardinality({j \in DOMAIN u : u[j] <= t[i]})
<1>1. PICK n \in Nat : n = Len(t) /\ n = Len(u)
  <2>1. Len(t) \in Nat /\ Len(t) = Len(u)
    BY LenProperties DEF Rearranges
  <2> QED
    BY <2>1
<1> DEFINE D == 1..n
           Below == {j \in D : u[j] < t[i]}
           UpTo == {j \in D : u[j] <= t[i]}
<1>2. /\ DOMAIN u = D /\ i \in D
      /\ \A j \in D : u[j] \in Int /\ t[j] \in Int
  BY <1>1, LenProperties, ElementOfSeq
<1>3. PICK p \in Bijection(D, D) : \A k \in D : t[k] = u[p[k]]
  BY <1>1 DEF Rearranges
<1>4. /\ p \in [D -> D]
      /\ \A a, b \in D : p[a] = p[b] => a = b
      /\ \A d \in D : \E k \in D : p[k] = d
  BY <1>3 DEF Bijection, Injection, Surjection, IsInjective
<1>5. \A j, k \in D : j <= k => t[j] <= t[k]
  BY <1>1 DEF InOrder
<1>6. Cardinality(Below) <= i - 1
  <2> DEFINE F == 1..(i - 1)
             q == [j \in Below |-> CHOOSE k \in D : p[k] = j]
  <2>1. \A j \in Below : q[j] \in D /\ p[q[j]] = j
    BY <1>4
  <2>2. ASSUME NEW j \in Below PROVE q[j] \in F
    <3>1. q[j] \in D /\ t[q[j]] = u[j] /\ u[j] < t[i] /\ j \in D
      <4>1. j \in D /\ u[j] < t[i] /\ q[j] \in D /\ p[q[j]] = j
        BY <2>1
      <4> HIDE DEF q, D
      <4> QED
        BY <1>3, <4>1
    <3> HIDE DEF q
    <3>2. ~(i <= q[j])
      <4> SUFFICES ASSUME i <= q[j] PROVE FALSE
        OBVIOUS
      <4>1. t[i] <= t[q[j]]
        <5> HIDE DEF D
        <5> QED
          BY <1>2, <1>5, <3>1
      <4>2. t[i] \in Int /\ u[j] \in Int
        BY <1>2, <3>1
      <4> QED
        BY <3>1, <4>1, <4>2
    <3> QED
      BY <1>2, <3>1, <3>2
  <2>3. q \in [Below -> F]
    BY <2>2
  <2> HIDE DEF q
  <2>4. q \in Injection(Below, F)
    <3> HIDE DEF Below, F
    <3>1. \A a, b \in Below : q[a] = q[b] => a = b
      BY <2>1
    <3> QED
      BY <2>3, <3>1 DEF Injection, IsInjective
  <2>5. IsFiniteSet(F) /\ Cardinality(F) = i - 1
    <3>1. i - 1 \in Nat
      BY <1>2
    <3> QED
      BY <3>1, FirstNumbers
  <2> HIDE DEF Below, F
  <2> QED
    BY <2>4, <2>5, FS_Injection
<1>7. i <= Cardinality(UpTo)
  <2> DEFINE F == 1..i
             q == [k \in F |-> p[k]]
  <2>1. \A k \in F : k \in D
    BY <1>2
  <2>2. ASSUME NEW k \in F PROVE q[k] \in UpTo
    <3>1. k \in D /\ k <= i /\ p[k] \in D
      <4>1. k \in D /\ k <= i
        BY <1>2, <2>1
      <4> QED
        BY <1>4, <4>1
    <3>2. u[p[k]] <= t[i]
      BY <1>2, <1>3, <1>5, <3>1
    <3> QED
      BY <3>1, <3>2
  <2>3. q \in [F -> UpTo]
    BY <2>2
  <2>4. q \in Injection(F, UpTo)
    <3>1. \A a, b \in F : q[a] = q[b] => a = b
      BY <1>4, <2>1
    <3> HIDE DEF q
    <3> QED
      BY <2>3, <3>1 DEF Injection, IsInjective
  <2>5. IsFiniteSet(F) /\ Cardinality(F) = i
    BY <1>2, FirstNumbers
  <2>6. IsFiniteSet(UpTo)
    <3>1. IsFiniteSet(D) /\ UpTo \in SUBSET D
      BY FirstNumbers
    <3> HIDE DEF D, UpTo
    <3> QED
      BY <3>1, FS_Subset
  <2> HIDE DEF UpTo, F, q
  <2> QED
    BY <2>4, <2>5, <2>6, FS_Injection
<1> QED
  BY <1>2, <1>6, <1>7

\* A percentile's index is one of the buffer's.
LEMMA IndexInside ==
    ASSUME NEW m \in Nat, NEW k \in 0..PercentileSteps
    PROVE  (k * m) \div PercentileSteps \in 0..m
<1>1. PICK P \in Nat \ {0} : P = PercentileSteps
  BY SizesAssumption
<1>2. PICK X \in Nat : X = k * m
  BY <1>1
<1>3. PICK Y \in Nat : Y = P * m
  BY <1>1
<1>4. X <= Y
  <2>1. k \in Nat /\ P - k \in Nat
    BY <1>1
  <2>2. (P - k) * m \in Nat /\ (P - k) * m = P * m - k * m
    BY <1>1, <2>1
  <2> QED
    BY <1>2, <1>3, <2>2
<1>5. PICK q \in Int, r \in 0..(P - 1) : q = X \div P /\ X = P * q + r
  BY <1>1, <1>2
<1>6. q >= 0
  BY <1>1, <1>2, <1>5
<1>7. q <= m
  <2>1. SUFFICES ASSUME q >= m + 1 PROVE FALSE
    BY <1>5
  <2>2. P * (q - m) >= P
    BY <1>1, <1>5, <2>1
  <2>3. P * q = P * m + P * (q - m)
    BY <1>1, <1>5
  <2> QED
    BY <1>1, <1>2, <1>3, <1>4, <1>5, <2>2, <2>3
<1> QED
  BY <1>1, <1>2, <1>5, <1>6, <1>7

-----------------------------------------------------------------------------
(* The invariant *)

LEMMA TypesAre ==
    /\ {TMin, TMax} \subseteq Int /\ 0 \in TMin..TMax
    /\ Values \subseteq TMin..TMax /\ Values \subseteq Int
BY TypesAssumption

LEMMA InitIInv == Init => IInv
<1> SUFFICES ASSUME Init PROVE IInv
  OBVIOUS
<1> USE DEF Init
<1>1. samples \in Seq(Values) /\ pushed \in Seq(Values) /\ Len(pushed) = 0 /\ Len(samples) = 0
  BY EmptySeq
<1>2. Rearranges(samples, pushed)
  <2> DEFINE D == 1..0
             p == [k \in D |-> k]
  <2>1. \A k \in D : FALSE
    OBVIOUS
  <2> HIDE DEF D
  <2>2. p \in [D -> D]
    OBVIOUS
  <2>3. p \in Bijection(D, D)
    BY <2>1, <2>2, Fun_IsBij
  <2> HIDE DEF p
  <2> QED
    BY <1>1, <2>1, <2>3 DEF Rearranges, D
<1>3. BufferOK
  <2>1. Len(pushed) <= Size
    BY <1>1, SizesAssumption
  <2> QED
    BY <1>1, <1>2, <2>1, Zenon DEF BufferOK
<1>4. FreshOK
  BY TypesAre DEF FreshOK
<1>5. pushed \in Seq(Int)
  BY EmptySeq
<1>6. Sums(pushed)[0] = 0
  BY <1>5, SumsAre DEF SumsUpTo, Adds
<1>7. DOMAIN pushed = {}
  BY <1>1, LenProperties
<1>8. SummaryIsExact
  BY <1>1, <1>6, <1>7, SizesAssumption DEF SummaryIsExact, Exact, count
<1> QED
  BY <1>3, <1>4, <1>8 DEF IInv

LEMMA PushIInv ==
    ASSUME IInv, NEW v \in Values, Push(v)
    PROVE  IInv'
<1> USE DEF Push
<1>1. PICK n \in Nat : n = Len(pushed) /\ n = Len(samples)
  <2>1. Len(pushed) \in Nat /\ Len(samples) = Len(pushed)
    BY LenProperties DEF IInv, BufferOK, Rearranges
  <2> QED
    BY <2>1
<1>2. /\ samples \in Seq(Values) /\ pushed \in Seq(Values)
      /\ v \in TMin..TMax /\ v \in Int /\ 0 \in TMin..TMax /\ TMin \in Int /\ TMax \in Int
  BY TypesAre DEF IInv, BufferOK
<1>3. /\ samples' \in Seq(Values) /\ pushed' \in Seq(Values)
      /\ Len(pushed') = n + 1 /\ Len(samples') = n + 1
      /\ pushed'[n + 1] = v /\ \A k \in 1..n : pushed'[k] = pushed[k]
      /\ DOMAIN pushed' = 1..(n + 1) /\ DOMAIN pushed = 1..n
  <2>1. /\ Append(pushed, v) \in Seq(Values) /\ Len(Append(pushed, v)) = Len(pushed) + 1
        /\ \A k \in 1..Len(pushed) : Append(pushed, v)[k] = pushed[k]
        /\ Append(pushed, v)[Len(pushed) + 1] = v
    BY <1>2, AppendProperties
  <2>2. Append(samples, v) \in Seq(Values) /\ Len(Append(samples, v)) = Len(samples) + 1
    BY <1>2, AppendProperties
  <2>3. /\ DOMAIN pushed = 1..Len(pushed)
        /\ DOMAIN Append(pushed, v) = 1..Len(Append(pushed, v))
    BY <1>2, <2>1, LenProperties
  <2> QED
    BY <1>1, <2>1, <2>2, <2>3
<1>4. n < Size /\ Size \in Nat
  BY <1>1, SizesAssumption DEF count
<1>5. BufferOK'
  <2>1. Rearranges(samples, pushed)
    BY DEF IInv, BufferOK
  <2>2. Rearranges(Append(samples, v), Append(pushed, v))
    BY <1>2, <2>1, RearrangesAppend
  <2>3. Rearranges(samples, pushed)'
    BY <2>2
  <2>4. Len(pushed') <= Size
    BY <1>3, <1>4
  <2>5. samples_sorted' \in BOOLEAN /\ ~samples_sorted'
    OBVIOUS
  <2> QED
    BY <1>3, <2>3, <2>4, <2>5, Zenon DEF BufferOK
<1>6. FreshOK'
  <2>1. min' \in TMin..TMax /\ max' \in TMin..TMax
    BY <1>2 DEF IInv, FreshOK
  <2>2. total' \in [value : TMin..TMax, overflow : BOOLEAN]
    BY <1>2 DEF IInv, FreshOK, AddWithOverflow
  <2> QED
    BY <1>3, <2>1, <2>2 DEF FreshOK
<1>7. /\ \A k \in 1..n : min <= pushed[k] /\ pushed[k] <= max /\ pushed[k] \in Int
      /\ n > 0 => {min, max} \subseteq Range(pushed)
      /\ n = 0 => min = TMax /\ max = TMin
      /\ min \in Int /\ max \in Int
  <2>1. \A k \in 1..n : pushed[k] \in Int
    BY <1>1, <1>2, TypesAre, ElementOfSeq
  <2>2. /\ Len(pushed) = 0 => min = TMax /\ max = TMin
        /\ min \in Int /\ max \in Int
    BY <1>2 DEF IInv, FreshOK
  <2>3. /\ \A k \in DOMAIN pushed : min <= pushed[k] /\ pushed[k] <= max
        /\ Len(samples) > 0 => {min, max} \subseteq Range(pushed)
    BY DEF IInv, SummaryIsExact, count
  <2> QED
    BY <1>1, <1>3, <2>1, <2>2, <2>3
<1>8. {min, max}' \subseteq Range(pushed')
  <2>1. v \in Range(pushed')
    <3>1. n + 1 \in DOMAIN pushed'
      BY <1>3
    <3> QED
      BY <1>3, <3>1 DEF Range
  <2>2. Range(pushed) \subseteq Range(pushed')
    BY <1>3 DEF Range
  <2>3. CASE n > 0
    BY <1>7, <2>1, <2>2, <2>3
  <2>4. CASE n = 0
    BY <1>2, <1>7, <2>1, <2>4
  <2> QED
    BY <2>3, <2>4
<1>9. \A k \in DOMAIN pushed' : min' <= pushed'[k] /\ pushed'[k] <= max'
  BY <1>2, <1>3, <1>7
<1>10. /\ \A k \in 0..n : Sums(pushed')[k] = Sums(pushed)[k] /\ Sums(pushed)[k] \in Int
       /\ Sums(pushed')[n + 1] = Sums(pushed)[n] + v
       /\ Sums(pushed)[0] = 0
  <2>1. pushed \in Seq(Int) /\ pushed' = Append(pushed, v)
    BY <1>2, TypesAre, WiderSeq
  <2>2. Sums(pushed)[0] = 0
    BY <2>1, SumsAre DEF SumsUpTo, Adds
  <2>3. /\ \A k \in 0..Len(pushed) : /\ Sums(Append(pushed, v))[k] = Sums(pushed)[k]
                                     /\ Sums(pushed)[k] \in Int
        /\ Sums(Append(pushed, v))[Len(pushed) + 1] = Sums(pushed)[Len(pushed)] + v
    BY <1>2, <2>1, SumsAppend
  <2> QED
    BY <1>1, <2>1, <2>2, <2>3
<1>11. /\ total.overflow <=> \E k \in 1..n : Sums(pushed)[k] \notin TMin..TMax
       /\ ~total.overflow => total.value = Sums(pushed)[n]
       /\ total.overflow \in BOOLEAN
  BY <1>1, <1>3 DEF IInv, FreshOK, SummaryIsExact, Exact
<1>12. /\ total'.overflow <=> \E k \in 1..(n + 1) : Sums(pushed')[k] \notin TMin..TMax
       /\ ~total'.overflow => total'.value = Sums(pushed')[n + 1]
  <2>1. CASE total.overflow
    BY <1>10, <1>11, <2>1
  <2>2. CASE ~total.overflow
    <3>1. \A k \in 1..n : Sums(pushed')[k] \in TMin..TMax
      BY <1>10, <1>11, <2>2
    <3>2. total' = AddWithOverflow(Sums(pushed)[n], v)
      BY <1>11, <2>2
    <3>3. /\ total'.overflow <=> Sums(pushed')[n + 1] \notin TMin..TMax
          /\ ~total'.overflow => total'.value = Sums(pushed')[n + 1]
      BY <1>10, <3>2 DEF AddWithOverflow
    <3>4. n + 1 \in 1..(n + 1) /\ \A k \in 1..(n + 1) : k = n + 1 \/ k \in 1..n
      OBVIOUS
    <3> QED
      BY <3>1, <3>3, <3>4
  <2> QED
    BY <2>1, <2>2
<1>13. SummaryIsExact'
  <2>1. count' = Len(pushed') /\ count' <= Size
    BY <1>3, <1>4 DEF count
  <2>2. total'.overflow <=> \E k \in DOMAIN pushed' : Exact(k)' \notin TMin..TMax
    BY <1>3, <1>12 DEF Exact
  <2>3. ~total'.overflow => total'.value = Exact(Len(pushed))'
    BY <1>3, <1>12 DEF Exact
  <2> HIDE DEF Push
  <2> QED
    BY <1>8, <1>9, <2>1, <2>2, <2>3 DEF SummaryIsExact
<1> QED
  BY <1>5, <1>6, <1>13 DEF IInv

LEMMA SortSamplesIInv ==
    ASSUME IInv, SortSamples
    PROVE  IInv'
<1> USE DEF SortSamples
<1>1. samples' = Ascending(samples) /\ samples \in Seq(Values)
  BY DEF Sorted, IInv, BufferOK
<1>2. /\ Ascending(samples) \in Seq(Values) /\ InOrder(Ascending(samples))
      /\ Rearranges(Ascending(samples), samples)
  BY <1>1, TypesAre, AscendingIs
<1>3. Rearranges(Ascending(samples), pushed)
  <2>1. Rearranges(samples, pushed)
    BY DEF IInv, BufferOK
  <2> QED
    BY <1>2, <2>1, RearrangesTransitive
<1>4. /\ samples' \in Seq(Values) /\ InOrder(samples') /\ Rearranges(samples', pushed')
      /\ Len(samples') = Len(samples)
  BY <1>1, <1>2, <1>3 DEF Rearranges
<1>5. BufferOK'
  BY <1>4 DEF IInv, BufferOK
<1>6. FreshOK'
  BY DEF IInv, FreshOK
<1>7. SummaryIsExact'
  BY <1>4 DEF IInv, SummaryIsExact, Exact, count
<1> QED
  BY <1>5, <1>6, <1>7 DEF IInv

THEOREM Invariant == Spec => []IInv
<1>1. Init => IInv
  BY InitIInv
<1>2. IInv /\ [Next]_vars => IInv'
  <2> SUFFICES ASSUME IInv, [Next]_vars PROVE IInv'
    OBVIOUS
  <2>1. ASSUME NEW v \in Values, Push(v) PROVE IInv'
    BY <2>1, PushIInv
  <2>2. CASE SortSamples
    BY <2>2, SortSamplesIInv
  <2>3. CASE UNCHANGED vars
    BY <2>3 DEF vars, IInv, BufferOK, FreshOK, SummaryIsExact, Exact, count
  <2> QED
    BY <2>1, <2>2, <2>3 DEF Next
<1> QED
  BY <1>1, <1>2, PTL DEF Spec

\* min, max and total are those of everything pushed, and a total that left T on
\* the way is reported, whatever T and however many samples.
THEOREM SummariesAreExact == Spec => []SummaryIsExact
<1>1. IInv => SummaryIsExact
  BY DEF IInv
<1> QED
  BY <1>1, Invariant, PTL

LEMMA RanksFollow == IInv => PercentileIsRank
<1> SUFFICES ASSUME IInv, count > 0, NEW k \in 0..PercentileSteps
             PROVE  LET Below(x) == {i \in DOMAIN pushed : pushed[i] < x}
                        UpTo(x) == {i \in DOMAIN pushed : pushed[i] <= x}
                    IN  /\ Cardinality(Below(Percentile(k))) <= PercentileIndex(k)
                        /\ PercentileIndex(k) < Cardinality(UpTo(Percentile(k)))
  BY DEF PercentileIsRank
<1>1. PICK n \in Nat \ {0} : n = Len(pushed) /\ n = count
  <2>1. Len(pushed) \in Nat /\ Len(samples) = Len(pushed)
    BY LenProperties DEF IInv, BufferOK, Rearranges
  <2> QED
    BY <2>1 DEF count
<1>2. PICK m \in 0..(n - 1) : m = PercentileIndex(k)
  <2>1. (k * (n - 1)) \div PercentileSteps \in 0..(n - 1)
    <3>1. n - 1 \in Nat
      BY <1>1
    <3> QED
      BY <3>1, IndexInside
  <2> QED
    BY <1>1, <2>1 DEF PercentileIndex
<1>3. /\ Sorted \in Seq(Values) /\ InOrder(Sorted) /\ Rearranges(Sorted, pushed)
      /\ pushed \in Seq(Values)
  <2>1. /\ samples \in Seq(Values) /\ Rearranges(samples, pushed)
        /\ pushed \in Seq(Values)
        /\ samples_sorted => InOrder(samples)
    BY DEF IInv, BufferOK
  <2>2. /\ Ascending(samples) \in Seq(Values) /\ InOrder(Ascending(samples))
        /\ Rearranges(Ascending(samples), samples)
    BY <2>1, TypesAre, AscendingIs
  <2>3. Rearranges(Ascending(samples), pushed)
    BY <2>1, <2>2, RearrangesTransitive
  <2>4. CASE samples_sorted
    BY <2>1, <2>4 DEF Sorted
  <2>5. CASE ~samples_sorted
    BY <2>1, <2>2, <2>3, <2>5 DEF Sorted
  <2> QED
    BY <2>4, <2>5
<1>4. PICK t : t = Sorted
  OBVIOUS
<1>5. t \in Seq(Int) /\ pushed \in Seq(Int) /\ Len(t) = n
  BY <1>1, <1>3, <1>4, TypesAre, WiderSeq DEF Rearranges
<1>6. m + 1 \in 1..Len(t)
  BY <1>2, <1>5
<1>7. /\ Cardinality({j \in DOMAIN pushed : pushed[j] < t[m + 1]}) <= m + 1 - 1
      /\ m + 1 <= Cardinality({j \in DOMAIN pushed : pushed[j] <= t[m + 1]})
  <2>1. InOrder(t) /\ Rearranges(t, pushed)
    BY <1>3, <1>4
  <2> DEFINE i == m + 1
  <2>2. i \in 1..Len(t)
    BY <1>6
  <2> HIDE DEF i
  <2>3. /\ Cardinality({j \in DOMAIN pushed : pushed[j] < t[i]}) <= i - 1
        /\ i <= Cardinality({j \in DOMAIN pushed : pushed[j] <= t[i]})
    BY <1>5, <2>1, <2>2, RankOf
  <2> QED
    BY <2>3 DEF i
<1>8. Cardinality({j \in DOMAIN pushed : pushed[j] <= t[m + 1]}) \in Int
  <2>1. IsFiniteSet(DOMAIN pushed)
    BY <1>5, LenProperties, FirstNumbers
  <2>2. IsFiniteSet({j \in DOMAIN pushed : pushed[j] <= t[m + 1]})
    BY <2>1, FS_Subset
  <2> QED
    BY <2>2, FS_CardinalityType
<1>9. Percentile(k) = t[m + 1]
  BY <1>2, <1>4 DEF Percentile
<1>10. PICK c : c = Cardinality({j \in DOMAIN pushed : pushed[j] <= t[m + 1]})
  OBVIOUS
<1>11. m < c
  BY <1>7, <1>8, <1>10
<1> QED
  BY <1>2, <1>7, <1>9, <1>10, <1>11

\* percentile returns the sample of its rank among everything pushed, however
\* pushes and percentiles alternate: the sorted flag is never stale and sorting in
\* place neither loses nor repeats a sample.
THEOREM PercentilesAreRanks == Spec => []PercentileIsRank
BY Invariant, RanksFollow, PTL

-----------------------------------------------------------------------------
(* The mean *)

\* What adds up as the sums of s do is the sums of s.
LEMMA SumsUnique ==
    ASSUME NEW s \in Seq(Int), NEW g, Adds(s, Len(s), g)
    PROVE  \A n \in 0..Len(s) : Sums(s)[n] = g[n]
<1> DEFINE f == Sums(s)
<1>1. Len(s) \in Nat /\ Adds(s, Len(s), f)
  BY LenProperties, SumsAre DEF SumsUpTo
<1> HIDE DEF f
<1>2. \A n \in 0..Len(s) : f[n] = g[n]
  BY <1>1, SumsAgree
<1> QED
  BY <1>2 DEF f

\* The sums of s from the one of its first b elements on.
LEMMA SumsOfRest ==
    ASSUME NEW s \in Seq(Int), NEW b \in 0..Len(s)
    PROVE  LET rest == SubSeq(s, b + 1, Len(s))
           IN  /\ rest \in Seq(Int) /\ Len(rest) = Len(s) - b
               /\ Sum(rest) = Sum(s) - Sums(s)[b]
<1>1. PICK n \in Nat : n = Len(s)
  BY LenProperties
<1>2. PICK f : f = Sums(s)
  OBVIOUS
<1>3. f \in [0..n -> Int] /\ \A k \in 1..n : f[k] = f[k - 1] + s[k]
  BY <1>1, <1>2, SumsAre DEF SumsUpTo, Adds
<1>4. PICK m \in Nat : m = n - b /\ b \in 0..n
  <2>1. b \in 0..n
    BY <1>1
  <2>2. n - b \in Nat
    BY <2>1
  <2> QED
    BY <2>1, <2>2
<1> DEFINE rest == SubSeq(s, b + 1, n)
<1>5. rest \in Seq(Int) /\ Len(rest) = m /\ \A k \in 1..m : rest[k] = s[b + k]
  <2>1. \A k \in 1..n : s[k] \in Int
    BY <1>1, ElementOfSeq
  <2>2. rest = [k \in 1..m |-> s[b + k]]
    BY <1>1, <1>4
  <2>3. \A k \in 1..m : b + k \in 1..n
    BY <1>1, <1>4
  <2>4. rest \in [1..m -> Int]
    BY <2>1, <2>2, <2>3
  <2> HIDE DEF rest
  <2>5. rest \in Seq(Int)
    BY <2>4, SeqDef
  <2>6. Len(rest) = m
    BY <2>4, <2>5, LenProperties
  <2> QED
    BY <2>2, <2>5, <2>6
<1> HIDE DEF rest
<1> DEFINE g == [k \in 0..m |-> f[b + k] - f[b]]
<1>6. Adds(rest, m, g)
  <2>1. ASSUME NEW k \in 1..m PROVE g[k] = g[k - 1] + rest[k]
    <3>1. b + k \in 1..n /\ b \in 0..n /\ k \in 0..m /\ k - 1 \in 0..m /\ b + (k - 1) = b + k - 1
      BY <1>1, <1>4
    <3>2. PICK x \in 1..n : x = b + k /\ x - 1 \in 0..n
      BY <3>1
    <3>3. f[x] = f[x - 1] + s[x] /\ rest[k] = s[x]
      BY <1>3, <1>5, <3>2
    <3>4. f[x - 1] \in Int /\ f[b] \in Int
      BY <1>3, <3>1, <3>2
    <3>5. s[x] \in Int
      BY <1>1, ElementOfSeq
    <3>6. g[k] = f[x] - f[b] /\ g[k - 1] = f[x - 1] - f[b]
      BY <3>1, <3>2
    <3> HIDE DEF g
    <3> QED
      BY <3>3, <3>4, <3>5, <3>6
  <2>2. g[0] = 0
    <3>1. 0 \in 0..m /\ b \in 0..n /\ b + 0 = b
      BY <1>1, <1>4
    <3> QED
      BY <1>3, <3>1
  <2> HIDE DEF g
  <2> QED
    BY <2>1, <2>2 DEF Adds
<1> HIDE DEF g
<1>7. Sums(rest)[m] = g[m]
  <2>1. Adds(rest, Len(rest), g) /\ m \in 0..Len(rest)
    BY <1>5, <1>6
  <2> QED
    BY <1>5, <2>1, SumsUnique
<1>8. g[m] = f[n] - f[b]
  BY <1>1, <1>4 DEF g
<1> QED
  BY <1>1, <1>2, <1>4, <1>5, <1>7, <1>8 DEF Sum, rest

\* The sum of neighbours added in pairs, if no pair wraps.
LEMMA SumOfPairs ==
    ASSUME NEW s \in Seq(Int), NEW m \in Nat, 2 * m <= Len(s), NEW pairs,
           pairs = [k \in 1..m |-> s[2 * k - 1] + s[2 * k]]
    PROVE  Sum(pairs) = Sums(s)[2 * m]
<1>1. PICK n \in Nat : n = Len(s)
  BY LenProperties
<1>2. PICK f : f = Sums(s)
  OBVIOUS
<1>3. f[0] = 0 /\ f \in [0..n -> Int] /\ \A k \in 1..n : f[k] = f[k - 1] + s[k]
  BY <1>1, <1>2, SumsAre DEF SumsUpTo, Adds
<1>4. \A k \in 1..n : s[k] \in Int
  BY <1>1, ElementOfSeq
<1>5. \A k \in 1..m : 2 * k - 1 \in 1..n /\ 2 * k \in 1..n /\ 2 * k - 2 \in 0..n
  BY <1>1
<1>6. pairs \in Seq(Int) /\ Len(pairs) = m
  <2>1. pairs \in [1..m -> Int]
    <3>1. ASSUME NEW k \in 1..m PROVE s[2 * k - 1] + s[2 * k] \in Int
      <4>1. PICK x \in Int, y \in Int : x = s[2 * k - 1] /\ y = s[2 * k]
        BY <1>4, <1>5
      <4>2. x + y \in Int
        OBVIOUS
      <4> QED
        BY <4>1, <4>2
    <3> QED
      BY <3>1
  <2>2. pairs \in Seq(Int)
    BY <2>1, SeqDef
  <2> QED
    BY <2>1, <2>2, LenProperties
<1> DEFINE g == [k \in 0..m |-> f[2 * k]]
<1>7. Adds(pairs, m, g)
  <2>1. ASSUME NEW k \in 1..m PROVE g[k] = g[k - 1] + pairs[k]
    <3>1. k \in 0..m /\ k - 1 \in 0..m /\ 2 * (k - 1) = 2 * k - 2 /\ (2 * k) - 1 - 1 = 2 * k - 2
      OBVIOUS
    <3>2. f[2 * k] = f[2 * k - 1] + s[2 * k] /\ f[2 * k - 1] = f[2 * k - 2] + s[2 * k - 1]
      BY <1>3, <1>5, <3>1
    <3>3. f[2 * k - 2] \in Int /\ s[2 * k] \in Int /\ s[2 * k - 1] \in Int
      BY <1>3, <1>4, <1>5
    <3>4. g[k] = f[2 * k] /\ g[k - 1] = f[2 * k - 2]
      BY <3>1
    <3>5. pairs[k] = s[2 * k - 1] + s[2 * k]
      OBVIOUS
    <3> HIDE DEF g
    <3>6. PICK x \in Int, y \in Int, z \in Int :
             x = f[2 * k - 2] /\ y = s[2 * k - 1] /\ z = s[2 * k]
      BY <3>3
    <3>7. g[k] = (x + y) + z /\ g[k - 1] = x /\ pairs[k] = y + z
      BY <3>2, <3>4, <3>5, <3>6
    <3> QED
      BY <3>7
  <2>2. g[0] = 0
    BY <1>3
  <2> HIDE DEF g
  <2> QED
    BY <2>1, <2>2 DEF Adds
<1> HIDE DEF g
<1>8. Sums(pairs)[m] = g[m]
  <2>1. Adds(pairs, Len(pairs), g) /\ m \in 0..Len(pairs)
    BY <1>6, <1>7
  <2> QED
    BY <1>6, <2>1, SumsUnique
<1> QED
  BY <1>2, <1>6, <1>8 DEF Sum, g

\* f is the sums of s, g those of t, up to the m-th elements, and of these only the
\* j-th ones differ, by d.
SumsDiffer(m, s, f, t, g, j, d) ==
    /\ m \in Nat /\ j \in 1..m /\ d \in Int
    /\ SumsUpTo(s, m, f) /\ Adds(t, m, g)
    /\ \A n \in 1..m : s[n] \in Int /\ t[n] = s[n] + (IF n = j THEN d ELSE 0)

\* What changing the j-th element does to the sum.
LEMMA SumsOfChange ==
    ASSUME NEW m, NEW s, NEW f, NEW t, NEW g, NEW j, NEW d,
           SumsDiffer(m, s, f, t, g, j, d)
    PROVE  g[m] = f[m] + d
<1> USE DEF SumsDiffer, SumsUpTo
<1> DEFINE h == [n \in 0..m |-> f[n] + IF n >= j THEN d ELSE 0]
<1>1. Adds(t, m, h)
  <2>1. ASSUME NEW n \in 1..m PROVE h[n] = h[n - 1] + t[n]
    <3>1. n \in 0..m /\ n - 1 \in 0..m
      OBVIOUS
    <3>2. h[n] = f[n] + (IF n >= j THEN d ELSE 0)
      BY <3>1
    <3>3. h[n - 1] = f[n - 1] + (IF n - 1 >= j THEN d ELSE 0)
      BY <3>1
    <3> HIDE DEF h
    <3>4. f[n] = f[n - 1] + s[n] /\ f[n - 1] \in Int
      BY <3>1 DEF Adds
    <3>5. s[n] \in Int /\ t[n] = s[n] + (IF n = j THEN d ELSE 0)
      OBVIOUS
    <3> QED
      BY <3>2, <3>3, <3>4, <3>5
  <2>2. h[0] = 0
    BY DEF Adds
  <2> HIDE DEF h
  <2> QED
    BY <2>1, <2>2 DEF Adds
<1>2. h[m] = f[m] + d
  OBVIOUS
<1> HIDE DEF h
<1>3. g[m] = h[m]
  <2>1. \A n \in 0..m : g[n] = h[n]
    BY <1>1, SumsAgree
  <2> QED
    BY <2>1
<1> QED
  BY <1>2, <1>3

\* The order of the elements makes no difference to their sum.
LEMMA SumRearranged ==
    ASSUME NEW a \in Seq(Int), NEW b \in Seq(Int), Rearranges(b, a)
    PROVE  Sum(b) = Sum(a)
<1> DEFINE Differ(n, s, t) == Len(s) = n /\ Rearranges(t, s) /\ Sum(t) # Sum(s)
           T == {n \in Nat : \E s, t \in Seq(Int) : Differ(n, s, t)}
<1> SUFFICES ASSUME T # {} PROVE FALSE
  <2>1. Len(a) \in Nat
    BY LenProperties
  <2> QED
    BY <2>1
<1>1. PICK n \in T : \A k \in T : n <= k
  <2>1. T \in SUBSET Nat
    OBVIOUS
  <2> HIDE DEF T
  <2> QED
    BY <2>1, LeastNatural
<1>2. n \in Nat /\ T \subseteq Nat
  OBVIOUS
<1>3. PICK s \in Seq(Int), t \in Seq(Int) : Differ(n, s, t)
  OBVIOUS
<1> HIDE DEF T, Differ
<1>4. /\ Len(s) = n /\ Len(t) = n
      /\ \A k \in 1..n : s[k] \in Int /\ t[k] \in Int
  BY <1>3, ElementOfSeq DEF Rearranges, Differ
<1>5. PICK p \in Bijection(1..n, 1..n) : \A k \in 1..n : t[k] = s[p[k]]
  BY <1>3 DEF Rearranges, Differ
<1>6. /\ p \in [1..n -> 1..n]
      /\ \A c, d \in 1..n : p[c] = p[d] => c = d
      /\ \A d \in 1..n : \E k \in 1..n : p[k] = d
  BY <1>5 DEF Bijection, Injection, Surjection, IsInjective
<1>7. PICK f, g : f = Sums(s) /\ g = Sums(t)
  OBVIOUS
<1>8. /\ Adds(s, n, f) /\ Adds(t, n, g) /\ f \in [0..n -> Int] /\ g \in [0..n -> Int]
      /\ g[n] # f[n]
  <2>1. SumsUpTo(s, Len(s), Sums(s)) /\ SumsUpTo(t, Len(t), Sums(t))
    BY SumsAre
  <2>2. Sum(s) = f[n] /\ Sum(t) = g[n]
    BY <1>4, <1>7 DEF Sum
  <2> QED
    BY <1>3, <1>4, <1>7, <2>1, <2>2 DEF SumsUpTo, Differ
<1>9. n # 0
  BY <1>8 DEF Adds
<1>10. PICK m \in Nat : n = m + 1
  <2>1. n - 1 \in Nat /\ n = (n - 1) + 1
    BY <1>2, <1>9
  <2> QED
    BY <2>1
<1>11. PICK j \in 1..n : j = p[n]
  BY <1>6, <1>10
\* The last element of t is the j-th of s: leave it out of both, the last of s in
\* its place.
<1> DEFINE s2 == [k \in 1..m |-> IF k = j THEN s[n] ELSE s[k]]
           t2 == [k \in 1..m |-> t[k]]
           q == [k \in 1..m |-> IF p[k] = n THEN j ELSE p[k]]
<1>12. /\ \A k \in 1..m : k \in 1..n /\ k # n
       /\ \A k \in 1..n : k # n => k \in 1..m
       /\ n \in 1..n
  BY <1>10
<1>13. /\ s2 \in Seq(Int) /\ t2 \in Seq(Int) /\ Len(s2) = m /\ Len(t2) = m
  <2>1. s2 \in [1..m -> Int] /\ t2 \in [1..m -> Int]
    BY <1>4, <1>12
  <2> HIDE DEF s2, t2
  <2>2. s2 \in Seq(Int) /\ t2 \in Seq(Int)
    BY <2>1, SeqDef
  <2> QED
    BY <2>1, <2>2, LenProperties
<1>14. Rearranges(t2, s2)
  <2> DEFINE M == 1..m
             N == 1..n
  <2>1. /\ \A k \in M : k \in N /\ k # n
        /\ \A k \in N : k # n => k \in M
        /\ n \in N /\ j \in N
    BY <1>12
  <2>2. /\ p \in [N -> N]
        /\ \A c, d \in N : p[c] = p[d] => c = d
        /\ \A d \in N : \E k \in N : p[k] = d
        /\ \A k \in N : t[k] = s[p[k]]
    BY <1>5, <1>6
  <2>3. /\ q = [k \in M |-> IF p[k] = n THEN j ELSE p[k]]
        /\ s2 = [k \in M |-> IF k = j THEN s[n] ELSE s[k]]
        /\ t2 = [k \in M |-> t[k]]
    OBVIOUS
  <2> HIDE DEF q, s2, t2, M, N
  <2>4. ASSUME NEW k \in M PROVE p[k] # j /\ q[k] \in M
    <3>1. k \in N /\ n \in N /\ k # n /\ p[k] \in N
      BY <2>1, <2>2
    <3>2. p[k] # p[n]
      BY <2>2, <3>1
    <3>3. p[k] # j
      BY <1>11, <3>2
    <3>4. q[k] = IF p[k] = n THEN j ELSE p[k]
      BY <2>3
    <3>5. CASE p[k] = n
      <4>1. j # n
        BY <3>3, <3>5
      <4> QED
        BY <2>1, <3>3, <3>4, <3>5, <4>1
    <3>6. CASE p[k] # n
      BY <2>1, <3>1, <3>3, <3>4, <3>6
    <3> QED
      BY <3>5, <3>6
  <2>5. q \in [M -> M]
    BY <2>3, <2>4
  <2>6. \A c, d \in M : q[c] = q[d] => c = d
    <3> SUFFICES ASSUME NEW c \in M, NEW d \in M, q[c] = q[d] PROVE c = d
      OBVIOUS
    <3>1. /\ q[c] = IF p[c] = n THEN j ELSE p[c]
          /\ q[d] = IF p[d] = n THEN j ELSE p[d]
          /\ p[c] # j /\ p[d] # j
      BY <2>3, <2>4
    <3>2. p[c] = p[d]
      BY <3>1
    <3> QED
      BY <2>1, <2>2, <3>2
  <2>7. ASSUME NEW d \in M PROVE \E k \in M : q[k] = d
    <3>1. CASE d = j
      <4>1. PICK k \in N : p[k] = n
        BY <2>1, <2>2
      <4>2. k # n
        BY <1>11, <2>1, <3>1, <4>1
      <4> QED
        BY <2>1, <2>3, <3>1, <4>1, <4>2
    <3>2. CASE d # j
      <4>1. PICK k \in N : p[k] = d
        BY <2>1, <2>2
      <4> QED
        BY <1>11, <2>1, <2>3, <3>2, <4>1
    <3> QED
      BY <3>1, <3>2
  <2>8. q \in Bijection(M, M)
    BY <2>5, <2>6, <2>7, Fun_IsBij
  <2>9. ASSUME NEW k \in M PROVE t2[k] = s2[q[k]]
    <3>1. t2[k] = s[p[k]] /\ q[k] \in M
      BY <2>1, <2>2, <2>3, <2>4
    <3>2. CASE p[k] = n
      BY <2>3, <2>4, <3>1, <3>2
    <3>3. CASE p[k] # n
      BY <2>3, <2>4, <3>1, <3>3
    <3> QED
      BY <3>2, <3>3
  <2> QED
    BY <1>13, <2>8, <2>9 DEF Rearranges, M
<1> HIDE DEF q
<1>15. m \notin T
  BY <1>1, <1>10
<1>16. Sum(t2) = Sum(s2)
  <2> HIDE DEF s2, t2
  <2> QED
    BY <1>13, <1>14, <1>15 DEF T, Differ
<1>17. PICK f2, g2 : f2 = Sums(s2) /\ g2 = Sums(t2)
  OBVIOUS
<1>18. \A k \in 1..m : t2[k] = t[k] /\ s2[k] = s[k] + (IF k = j THEN s[n] - s[j] ELSE 0)
  <2> TAKE k \in 1..m
  <2>1. s[k] \in Int /\ s[n] \in Int
    BY <1>4, <1>12
  <2> QED
    BY <2>1
<1> HIDE DEF s2, t2
<1>19. Adds(s2, m, f2) /\ Adds(t2, m, g2) /\ g2[m] = f2[m]
  <2>1. SumsUpTo(s2, Len(s2), Sums(s2)) /\ SumsUpTo(t2, Len(t2), Sums(t2))
    BY <1>13, SumsAre
  <2> QED
    BY <1>13, <1>16, <1>17, <2>1 DEF SumsUpTo, Sum
<1>20. Adds(s, m, f) /\ Adds(t, m, g) /\ f \in [0..n -> Int]
  BY <1>8, <1>12 DEF Adds
<1>21. f[n] = f[m] + s[n] /\ g[n] = g[m] + t[n] /\ f[m] \in Int
  <2>1. n \in 1..n /\ n - 1 = m /\ m \in 0..n
    BY <1>10
  <2> QED
    BY <1>8, <2>1 DEF Adds
<1>22. g2[m] = g[m]
  <2>1. m \in 0..m
    OBVIOUS
  <2>2. \A k \in 1..m : t2[k] = t[k]
    BY <1>18
  <2>3. \A k \in 0..m : g2[k] = g[k]
    <3>1. Adds(t2, m, g2)
      BY <1>19
    <3>2. Adds(t, m, g)
      BY <1>20
    <3> QED
      BY <2>2, <3>1, <3>2, SumsAgree
  <2> QED
    BY <2>1, <2>3
<1>23. t[n] = s[j] /\ s[j] \in Int /\ s[n] \in Int
  BY <1>4, <1>5, <1>11, <1>12
<1>24. CASE j = n
  <2>1. \A k \in 1..m : s2[k] = s[k]
    <3> TAKE k \in 1..m
    <3>1. k # j /\ s[k] \in Int
      BY <1>4, <1>12, <1>24
    <3>2. s2[k] = s[k] + 0
      BY <1>18, <3>1
    <3> QED
      BY <3>1, <3>2
  <2>2. \A k \in 0..m : f2[k] = f[k]
    <3>1. Adds(s2, m, f2)
      BY <1>19
    <3>2. Adds(s, m, f)
      BY <1>20
    <3> QED
      BY <2>1, <3>1, <3>2, SumsAgree
  <2>3. f2[m] = f[m]
    BY <2>2
  <2> QED
    BY <1>8, <1>19, <1>21, <1>22, <1>23, <1>24, <2>3
<1>25. CASE j # n
  <2> DEFINE d == s[n] - s[j]
             h == [k \in 0..m |-> f[k]]
  <2>1. j \in 1..m /\ d \in Int
    <3>1. j \in 1..m
      BY <1>12, <1>25
    <3>2. d \in Int
      BY <1>23
    <3> QED
      BY <3>1, <3>2
  <2>2. Adds(s, m, h) /\ h \in [0..m -> Int] /\ h[m] = f[m]
    <3>1. \A k \in 1..m : k \in 0..m /\ k - 1 \in 0..m
      OBVIOUS
    <3>2. \A k \in 0..m : h[k] = f[k] /\ f[k] \in Int
      BY <1>10, <1>20
    <3>3. h \in [0..m -> Int]
      BY <3>2
    <3>4. f[0] = 0 /\ \A k \in 1..m : f[k] = f[k - 1] + s[k]
      BY <1>20 DEF Adds
    <3>5. 0 \in 0..m /\ m \in 0..m
      OBVIOUS
    <3> HIDE DEF h
    <3>6. h[0] = 0 /\ h[m] = f[m] /\ \A k \in 1..m : h[k] = h[k - 1] + s[k]
      BY <3>1, <3>2, <3>4, <3>5
    <3> QED
      BY <3>3, <3>6 DEF Adds
  <2>3. \A k \in 1..m : s[k] \in Int /\ s2[k] = s[k] + (IF k = j THEN d ELSE 0)
    BY <1>4, <1>12, <1>18
  <2> HIDE DEF d, h
  <2>4. f2[m] = h[m] + d
    <3>1. Adds(s2, m, f2)
      BY <1>19
    <3>2. Adds(s, m, h)
      BY <2>2
    <3>3. h \in [0..m -> Int]
      BY <2>2
    <3>4. d \in Int
      BY <2>1
    <3>5. j \in 1..m
      BY <2>1
    <3>6. SumsDiffer(m, s, h, s2, f2, j, d)
      BY <2>3, <3>1, <3>2, <3>3, <3>4, <3>5 DEF SumsDiffer, SumsUpTo
    <3> QED
      BY <3>6, SumsOfChange
  <2>5. PICK x \in Int, y \in Int, z \in Int : x = f[m] /\ y = s[j] /\ z = s[n]
    BY <1>21, <1>23
  <2>6. f2[m] = x + (z - y)
    BY <2>2, <2>4, <2>5 DEF d
  <2>7. g[n] = (x + (z - y)) + y /\ f[n] = x + z
    BY <1>19, <1>21, <1>22, <1>23, <2>5, <2>6
  <2>8. g[n] = f[n]
    BY <2>7
  <2> QED
    BY <1>8, <2>8
<1> QED
  BY <1>24, <1>25

\* T is narrower than the type two of its values are added in, so that no pair wraps.
TIsNarrow == PMin <= 2 * TMin /\ 2 * TMax <= PMax

\* A value the type has is not changed by wrapping.
LEMMA WrapInside ==
    ASSUME NEW lo \in Int, NEW hi \in Int, NEW v \in lo..hi
    PROVE  Wrap(v, lo, hi) = v
<1>1. PICK a \in Nat, b \in Nat : a = v - lo /\ b = hi - lo + 1 /\ a < b
  <2>1. v - lo \in Nat /\ hi - lo + 1 \in Nat /\ v - lo < hi - lo + 1
    OBVIOUS
  <2> QED
    BY <2>1
<1>2. a % b = a
  BY <1>1
<1> QED
  BY <1>1, <1>2 DEF Wrap

\* What std::reduce returns, if T is narrow and the sum is a C.
LEMMA ReduceIsSum ==
    ASSUME TIsNarrow, NEW s \in Seq(TMin..TMax), Sum(s) \in CMin..CMax
    PROVE  Reduce(s) = Sum(s)
<1>1. /\ TMin \in Int /\ TMax \in Int /\ PMin \in Int /\ PMax \in Int
      /\ CMin \in Int /\ CMax \in Int
  BY TypesAssumption
<1>2. s \in Seq(Int)
  BY <1>1, SeqMonotonic
<1>3. PICK n \in Nat : n = Len(s)
  BY LenProperties
<1>4. PICK d \in Nat : d = n \div 4 /\ 4 * d <= n
  BY <1>3
<1>5. PICK m \in Nat : m = 2 * d /\ 4 * d = 2 * m /\ (4 * d) \div 2 = m /\ 2 * m <= n
  BY <1>4
<1> DEFINE pairs == [k \in 1..m |-> Wrap(s[2 * k - 1] + s[2 * k], PMin, PMax)]
           rest == SubSeq(s, 2 * m + 1, n)
<1>6. pairs = [k \in 1..m |-> s[2 * k - 1] + s[2 * k]]
  <2>1. ASSUME NEW k \in 1..m
        PROVE  Wrap(s[2 * k - 1] + s[2 * k], PMin, PMax) = s[2 * k - 1] + s[2 * k]
    <3>1. 2 * k - 1 \in 1..Len(s) /\ 2 * k \in 1..Len(s)
      BY <1>3, <1>5
    <3>2. PICK x \in TMin..TMax, y \in TMin..TMax : x = s[2 * k - 1] /\ y = s[2 * k]
      BY <3>1, ElementOfSeq
    <3>3. x + y \in PMin..PMax
      BY <1>1 DEF TIsNarrow
    <3>4. Wrap(x + y, PMin, PMax) = x + y
      BY <1>1, <3>3, WrapInside
    <3> QED
      BY <3>2, <3>4
  <2> QED
    BY <2>1
<1> HIDE DEF pairs
<1>7. Sum(pairs) = Sums(s)[2 * m]
  BY <1>2, <1>3, <1>5, <1>6, SumOfPairs
<1>8. PICK b \in 0..Len(s) : b = 2 * m
  BY <1>3, <1>5
<1>9. Sum(SubSeq(s, b + 1, Len(s))) = Sum(s) - Sums(s)[b]
  BY <1>2, SumsOfRest
<1>10. Sums(s)[b] \in Int /\ Sum(s) \in Int
  <2>1. Sums(s) \in [0..Len(s) -> Int]
    BY <1>2, SumsAre DEF SumsUpTo
  <2> QED
    BY <1>1, <2>1
<1>11. Sum(pairs) + Sum(rest) = Sum(s)
  <2>1. PICK x \in Int, y \in Int : x = Sums(s)[b] /\ y = Sum(s)
    BY <1>10
  <2>2. Sum(pairs) = x /\ Sum(rest) = y - x
    BY <1>3, <1>7, <1>8, <1>9, <2>1
  <2>3. x + (y - x) = y
    OBVIOUS
  <2> QED
    BY <2>1, <2>2, <2>3
<1>12. Reduce(s) = Wrap(Sum(pairs) + Sum(rest), CMin, CMax)
  BY <1>3, <1>4, <1>5, Zenon DEF Reduce, pairs
<1> QED
  BY <1>1, <1>11, <1>12, WrapInside

\* What avg divides and what it divides by.
LEMMA MeanFollows == IInv /\ TIsNarrow => AvgRecovers
<1> SUFFICES ASSUME IInv, TIsNarrow, count > 0, Sum(pushed) \in CMin..CMax, Len(pushed) \in CMin..CMax
             PROVE  Avg = MeanOfPushed
  BY DEF AvgRecovers
<1>1. /\ CMin \in Int /\ CMax \in Int /\ TMin..TMax \subseteq Int
      /\ Values \subseteq TMin..TMax
  BY TypesAssumption
<1>2. /\ samples \in Seq(Values) /\ pushed \in Seq(Values)
      /\ Rearranges(samples, pushed) /\ count = Len(pushed)
  BY DEF IInv, BufferOK, SummaryIsExact
<1>3. /\ samples \in Seq(TMin..TMax) /\ samples \in Seq(Int) /\ pushed \in Seq(Int)
  <2>1. samples \in Seq(TMin..TMax) /\ pushed \in Seq(TMin..TMax)
    BY <1>1, <1>2, SeqMonotonic
  <2> QED
    BY <1>1, <2>1, SeqMonotonic
<1>4. Wrap(count, CMin, CMax) = Len(pushed)
  BY <1>1, <1>2, WrapInside
<1>5. Sum(samples) = Sum(pushed)
  BY <1>2, <1>3, SumRearranged
<1>6. CASE total.overflow
  <2>1. Reduce(samples) = Sum(pushed)
    BY <1>3, <1>5, ReduceIsSum
  <2> QED
    BY <1>4, <1>6, <2>1 DEF Avg, MeanOfPushed
<1>7. CASE ~total.overflow
  <2>1. total.value = Sum(pushed)
    BY <1>7 DEF IInv, SummaryIsExact, Exact, Sum
  <2> QED
    BY <1>4, <1>7, <2>1 DEF Avg, MeanOfPushed
<1> QED
  BY <1>6, <1>7

\* avg is the mean of everything pushed, also after total has overflowed, if T is
\* narrower than the type its values are promoted to.  For a T as wide as that type
\* std::reduce may lose a carry, and there the property fails.
THEOREM MeanIsRecovered == TIsNarrow => (Spec => []AvgRecovers)
<1> SUFFICES ASSUME TIsNarrow PROVE Spec => []AvgRecovers
  OBVIOUS
<1>1. IInv => AvgRecovers
  BY MeanFollows
<1> QED
  BY <1>1, Invariant, PTL
=============================================================================
