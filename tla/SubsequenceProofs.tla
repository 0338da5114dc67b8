------------------------- MODULE SubsequenceProofs -------------------------
(***************************************************************************)
(* Induction along a sequence, and what filtering it by position returns.  *)
(***************************************************************************)
EXTENDS Subsequences, WellFoundedInduction, SequenceTheorems, TLAPS

\* A set of numbers that is not empty has a least one.
LEMMA LeastNumber ==
  ASSUME NEW S \in SUBSET Nat, S # {}
  PROVE  \E k \in S : \A j \in S : k <= j
<1>1. PICK k \in S : \A j \in S : ~(<<j, k>> \in OpToRel(<, Nat))
  BY NatLessThanWellFounded, WFMin
<1>2. \A j \in S : ~(j < k)
  BY <1>1 DEF OpToRel
<1> QED
  BY <1>2

\* Induction over an initial segment of the natural numbers, for a property
\* given by the set of the numbers that have it.
LEMMA SegmentInduction ==
  ASSUME NEW n \in Nat, NEW S, 0 \in S, \A k \in 0..n - 1 : k \in S => k + 1 \in S
  PROVE  \A k \in 0..n : k \in S
<1> SUFFICES ASSUME NEW k0 \in 0..n, k0 \notin S
             PROVE  FALSE
  OBVIOUS
<1> DEFINE bad == {k \in 0..n : k \notin S}
<1>1. PICK k \in bad : \A j \in bad : k <= j
  <2>1. bad \in SUBSET Nat /\ bad # {}
    OBVIOUS
  <2> QED
    BY <2>1, LeastNumber
<1>2. k # 0 /\ k - 1 \in 0..n - 1
  BY <1>1
<1>3. k - 1 \in S
  BY <1>1, <1>2
<1> QED
  BY <1>1, <1>2, <1>3

\* A step, a function of a position and a value, that keeps to the values of T, and a
\* function that goes from its first value by such steps.
Keeps(step, n, T) == \A k \in 1..n : \A v \in T : step[k][v] \in T
GoesBy(f, n, base, step) == f[0] = base /\ \A k \in 1..n : f[k] = step[k][f[k - 1]]

\* A function may be defined on an initial segment of the numbers by a first value and
\* a step from each value to the next one.
LEMMA SegmentRecursion ==
  ASSUME NEW n \in Nat, NEW T, NEW base \in T, NEW step, Keeps(step, n, T)
  PROVE  \E f \in [0..n -> T] : GoesBy(f, n, base, step)
<1> DEFINE Upto(m, f) == GoesBy(f, m, base, step)
           S == {m \in 0..n : \E f \in [0..n -> T] : Upto(m, f)}
<1>1. 0 \in S
  <2> DEFINE f == [k \in 0..n |-> base]
  <2>1. f \in [0..n -> T] /\ f[0] = base
    OBVIOUS
  <2>2. Upto(0, f)
    BY <2>1 DEF GoesBy
  <2> HIDE DEF f, Upto
  <2> QED
    BY <2>1, <2>2
<1>2. ASSUME NEW m \in 0..n - 1, m \in S
      PROVE  m + 1 \in S
  <2>1. PICK f \in [0..n -> T] : Upto(m, f)
    BY <1>2
  <2> DEFINE g == [f EXCEPT ![m + 1] = step[m + 1][f[m]]]
  <2>2. m + 1 \in 1..n /\ m \in 0..n
    OBVIOUS
  <2>3. step[m + 1][f[m]] \in T
    BY <2>2 DEF Keeps
  <2>4. g \in [0..n -> T]
    BY <2>3
  <2>5. g[0] = base
    BY <2>1 DEF GoesBy
  <2>6. ASSUME NEW k \in 1..m + 1
        PROVE  g[k] = step[k][g[k - 1]]
    <3>1. k \in 0..n /\ k - 1 \in 0..n /\ k - 1 # m + 1
      BY <2>2
    <3>2. g[k - 1] = f[k - 1]
      BY <3>1
    <3>3. CASE k = m + 1
      BY <3>1, <3>2, <3>3
    <3>4. CASE k # m + 1
      <4>1. k \in 1..m
        BY <3>4
      <4>2. f[k] = step[k][f[k - 1]]
        BY <4>1, <2>1 DEF GoesBy
      <4>3. g[k] = f[k]
        BY <3>4, <3>1
      <4> QED
        BY <4>2, <4>3, <3>2
    <3> QED
      BY <3>3, <3>4
  <2>7. Upto(m + 1, g)
    BY <2>5, <2>6 DEF GoesBy
  <2> HIDE DEF g, Upto
  <2> QED
    BY <2>2, <2>4, <2>7
<1>3. \A m \in 0..n : m \in S
  <2> HIDE DEF S
  <2> QED
    BY <1>1, <1>2, SegmentInduction
<1>4. n \in S
  <2> HIDE DEF S
  <2> QED
    BY <1>3
<1> QED
  BY <1>4

\* The results of filtering the first k elements, for each k, step by step.
Filters(upto, s, I) ==
  /\ upto[0] = <<>>
  /\ \A k \in 1..Len(s) : upto[k] = IF k \in I THEN Append(upto[k - 1], s[k]) ELSE upto[k - 1]

\* They exist, and the last of them is the result.
LEMMA ChosenSteps ==
  ASSUME NEW V, NEW s \in Seq(V), NEW I
  PROVE  \E upto : Filters(upto, s, I) /\ Chosen(s, I) = upto[Len(s)]
<1> DEFINE n == Len(s)
           X == {s[i] : i \in I \intersect (1..n)}
           Eq(f) == f = [k \in 0..n |->
                           IF k = 0 THEN <<>>
                           ELSE IF k \in I THEN Append(f[k - 1], s[k]) ELSE f[k - 1]]
           upto == CHOOSE f : Eq(f)
<1>1. n \in Nat
  OBVIOUS
<1>2. \E f : Eq(f)
  <2> DEFINE step == [k \in 1..n |-> [q \in Seq(X) |->
                        IF k \in I THEN Append(q, s[k]) ELSE q]]
  <2>1. Keeps(step, n, Seq(X))
    BY DEF Keeps
  <2>2. <<>> \in Seq(X)
    OBVIOUS
  <2>3. PICK f \in [0..n -> Seq(X)] : GoesBy(f, n, <<>>, step)
    <3> HIDE DEF step, X, n
    <3> QED
      BY <1>1, <2>1, <2>2, SegmentRecursion
  <2>4. ASSUME NEW k \in 1..n
        PROVE  f[k] = IF k \in I THEN Append(f[k - 1], s[k]) ELSE f[k - 1]
    <3>1. f[k - 1] \in Seq(X)
      OBVIOUS
    <3>2. f[k] = step[k][f[k - 1]]
      BY <2>3 DEF GoesBy
    <3> QED
      BY <3>1, <3>2
  <2>5. Eq(f)
    <3> DEFINE g == [k \in 0..n |->
                       IF k = 0 THEN <<>>
                       ELSE IF k \in I THEN Append(f[k - 1], s[k]) ELSE f[k - 1]]
    <3>1. DOMAIN g = 0..n /\ DOMAIN f = 0..n
      OBVIOUS
    <3>2. ASSUME NEW k \in 0..n
          PROVE  f[k] = g[k]
      <4>1. CASE k = 0
        BY <4>1, <2>3 DEF GoesBy
      <4>2. CASE k # 0
        <5>1. k \in 1..n
          BY <4>2
        <5>2. g[k] = IF k \in I THEN Append(f[k - 1], s[k]) ELSE f[k - 1]
          BY <4>2
        <5> QED
          BY <5>1, <5>2, <2>4
      <4> QED
        BY <4>1, <4>2
    <3>3. f = [k \in 0..n |-> f[k]] /\ g = [k \in 0..n |-> g[k]]
      OBVIOUS
    <3>4. f = g
      <4> HIDE DEF g
      <4> QED
        BY <3>2, <3>3
    <3> QED
      BY <3>4
  <2> QED
    BY <2>5
<1>3. Eq(upto)
  <2> HIDE DEF Eq
  <2> QED
    BY <1>2
<1>4. Chosen(s, I) = upto[n]
  BY DEF Chosen
<1> HIDE DEF upto
<1>5. upto[0] = <<>>
  BY <1>3, <1>1
<1>6. ASSUME NEW k \in 1..n
      PROVE  upto[k] = IF k \in I THEN Append(upto[k - 1], s[k]) ELSE upto[k - 1]
  <2>1. k \in 0..n /\ k # 0
    BY <1>1
  <2> QED
    BY <1>3, <2>1
<1> HIDE DEF Eq
<1>7. Filters(upto, s, I)
  BY <1>5, <1>6 DEF Filters
<1> QED
  BY <1>4, <1>7

\* Filtering a sequence of values gives a sequence of those at the chosen positions, and
\* each of them is in it.
LEMMA ChosenElements ==
  ASSUME NEW V, NEW s \in Seq(V), NEW I
  PROVE  /\ Chosen(s, I) \in Seq({s[i] : i \in I \intersect (1..Len(s))})
         /\ Chosen(s, I) \in Seq(V)
         /\ \A i \in I \intersect (1..Len(s)) :
              \E j \in 1..Len(Chosen(s, I)) : Chosen(s, I)[j] = s[i]
<1> DEFINE n == Len(s)
           X == {s[i] : i \in I \intersect (1..n)}
<1>1. n \in Nat
  OBVIOUS
<1>2. PICK upto : Filters(upto, s, I) /\ Chosen(s, I) = upto[n]
  BY ChosenSteps
<1>4. Chosen(s, I) = upto[n]
  BY <1>2
<1>5. upto[0] = <<>>
  BY <1>2 DEF Filters
<1>6. ASSUME NEW k \in 1..n
      PROVE  upto[k] = IF k \in I THEN Append(upto[k - 1], s[k]) ELSE upto[k - 1]
  BY <1>2 DEF Filters
<1> DEFINE S == {k \in 0..n : /\ upto[k] \in Seq(X)
                              /\ \A i \in I \intersect (1..k) :
                                   \E j \in 1..Len(upto[k]) : upto[k][j] = s[i]}
<1>7. 0 \in S
  <2>1. upto[0] \in Seq(X) /\ 0 \in 0..n /\ I \intersect (1..0) = {}
    BY <1>1, <1>5
  <2> QED
    BY <2>1
<1>8. ASSUME NEW k \in 0..n - 1, k \in S
      PROVE  k + 1 \in S
  <2>1. k + 1 \in 1..n /\ (k + 1) - 1 = k
    BY <1>1
  <2>2. CASE k + 1 \in I
    <3>1. upto[k + 1] = Append(upto[k], s[k + 1])
      BY <2>1, <2>2, <1>6
    <3>2. s[k + 1] \in X
      BY <2>1, <2>2
    <3>3. upto[k + 1] \in Seq(X)
      <4> HIDE DEF X
      <4> QED
        BY <3>1, <3>2, <1>8
    <3>4. ASSUME NEW i \in I \intersect (1..k + 1)
          PROVE  \E j \in 1..Len(upto[k + 1]) : upto[k + 1][j] = s[i]
      <4>1. upto[k] \in Seq(X)
        BY <1>8
      <4>2. Len(upto[k + 1]) = Len(upto[k]) + 1 /\ upto[k + 1][Len(upto[k]) + 1] = s[k + 1]
        <5> HIDE DEF X
        <5> QED
          BY <4>1, <3>1, <3>2, AppendProperties
      <4>3. CASE i = k + 1
        <5>1. Len(upto[k]) \in Nat
          BY <4>1
        <5> QED
          BY <4>2, <4>3, <5>1
      <4>4. CASE i # k + 1
        <5>1. PICK j \in 1..Len(upto[k]) : upto[k][j] = s[i]
          BY <4>4, <1>8
        <5>2. j \in 1..Len(upto[k + 1]) /\ upto[k + 1][j] = upto[k][j]
          <6> HIDE DEF X
          <6> QED
            BY <4>1, <4>2, <3>1, <3>2, AppendProperties
        <5> QED
          BY <5>1, <5>2
      <4> QED
        BY <4>3, <4>4
    <3> QED
      BY <2>1, <3>3, <3>4
  <2>3. CASE k + 1 \notin I
    <3>1. upto[k + 1] = upto[k]
      BY <2>1, <2>3, <1>6
    <3>2. I \intersect (1..k + 1) = I \intersect (1..k)
      BY <2>3
    <3>3. upto[k + 1] \in Seq(X) /\ k + 1 \in 0..n
      BY <2>1, <3>1, <1>8
    <3>4. \A i \in I \intersect (1..k + 1) : \E j \in 1..Len(upto[k + 1]) : upto[k + 1][j] = s[i]
      BY <3>1, <3>2, <1>8
    <3> QED
      BY <3>3, <3>4
  <2> QED
    BY <2>2, <2>3
<1>9. n \in S
  <2> HIDE DEF S, n
  <2>1. \A k \in 0..n : k \in S
    BY <1>1, <1>7, <1>8, SegmentInduction
  <2> QED
    BY <2>1, <1>1
<1>10. X \subseteq V
  OBVIOUS
<1>11. upto[n] \in Seq(X)
  BY <1>9
<1>12. upto[n] \in Seq(V)
  <2> HIDE DEF X
  <2> QED
    BY <1>10, <1>11
<1> QED
  BY <1>4, <1>9, <1>11, <1>12

\* Filtering keeps the order: what holds of any two chosen elements, the earlier one
\* first, holds of any two elements of the result.  R[x] is what may come after x.
LEMMA ChosenInOrder ==
  ASSUME NEW V, NEW s \in Seq(V), NEW I, NEW R,
         \A i, j \in I \intersect (1..Len(s)) : i < j => s[j] \in R[s[i]]
  PROVE  \A p, q \in 1..Len(Chosen(s, I)) : p < q => Chosen(s, I)[q] \in R[Chosen(s, I)[p]]
<1> DEFINE n == Len(s)
<1>1. n \in Nat
  OBVIOUS
<1>2. PICK upto : Filters(upto, s, I) /\ Chosen(s, I) = upto[n]
  BY ChosenSteps
<1> DEFINE Ordered(c) == \A p, q \in 1..Len(c) : p < q => c[q] \in R[c[p]]
           From(c, k) == \A p \in 1..Len(c) : \E i \in I \intersect (1..k) : c[p] = s[i]
           S == {k \in 0..n : /\ upto[k] \in Seq(V)
                              /\ From(upto[k], k)
                              /\ Ordered(upto[k])}
<1>3. 0 \in S
  <2>1. upto[0] = <<>> /\ 0 \in 0..n /\ <<>> \in Seq(V) /\ 1..Len(<<>>) = {}
    BY <1>1, <1>2 DEF Filters
  <2>2. From(<<>>, 0) /\ Ordered(<<>>)
    BY <2>1
  <2> HIDE DEF From, Ordered
  <2> QED
    BY <2>1, <2>2
<1>4. ASSUME NEW k \in 0..n - 1, k \in S
      PROVE  k + 1 \in S
  <2>1. k + 1 \in 1..n /\ (k + 1) - 1 = k /\ k \in Nat /\ s[k + 1] \in V
    BY <1>1
  <2>2. upto[k] \in Seq(V) /\ From(upto[k], k) /\ Ordered(upto[k])
    BY <1>4
  <2>3. upto[k + 1] = IF k + 1 \in I THEN Append(upto[k], s[k + 1]) ELSE upto[k]
    BY <2>1, <1>2 DEF Filters
  <2> DEFINE c == upto[k]
             b == upto[k + 1]
  <2>4. CASE k + 1 \in I
    <3>1. /\ b \in Seq(V) /\ Len(c) \in Nat /\ Len(b) = Len(c) + 1
          /\ b[Len(c) + 1] = s[k + 1]
          /\ \A p \in 1..Len(c) : b[p] = c[p]
      BY <2>1, <2>2, <2>3, <2>4, AppendProperties
    <3> HIDE DEF b, c
    <3>2. From(b, k + 1)
      <4> SUFFICES ASSUME NEW p \in 1..Len(b)
                   PROVE  \E i \in I \intersect (1..k + 1) : b[p] = s[i]
        OBVIOUS
      <4>1. CASE p = Len(c) + 1
        BY <4>1, <3>1, <2>1, <2>4
      <4>2. CASE p \in 1..Len(c)
        <5>1. PICK i \in I \intersect (1..k) : c[p] = s[i]
          BY <4>2, <2>2 DEF c
        <5>2. i \in I \intersect (1..k + 1)
          BY <2>1
        <5> QED
          BY <5>1, <5>2, <4>2, <3>1
      <4> QED
        BY <4>1, <4>2, <3>1
    <3>3. Ordered(b)
      <4> SUFFICES ASSUME NEW p \in 1..Len(b), NEW q \in 1..Len(b), p < q
                   PROVE  b[q] \in R[b[p]]
        OBVIOUS
      <4>1. p \in 1..Len(c)
        BY <3>1
      <4>2. CASE q = Len(c) + 1
        <5>1. PICK i \in I \intersect (1..k) : c[p] = s[i]
          BY <4>1, <2>2 DEF c
        <5>2. i < k + 1 /\ i \in I \intersect (1..n) /\ k + 1 \in I \intersect (1..n)
          BY <2>1, <2>4, <1>1
        <5>3. s[k + 1] \in R[s[i]]
          BY <5>2
        <5> QED
          BY <5>1, <5>3, <4>1, <4>2, <3>1
      <4>3. CASE q \in 1..Len(c)
        <5>1. c[q] \in R[c[p]]
          BY <4>1, <4>3, <2>2 DEF c
        <5> QED
          BY <5>1, <4>1, <4>3, <3>1
      <4> QED
        BY <4>2, <4>3, <3>1
    <3> QED
      BY <3>1, <3>2, <3>3, <2>1 DEF b
  <2>5. CASE k + 1 \notin I
    <3>1. b = c
      BY <2>3, <2>5
    <3>2. From(c, k + 1)
      BY <2>2, <2>1
    <3> HIDE DEF From, Ordered
    <3> QED
      BY <3>1, <3>2, <2>1, <2>2
  <2> QED
    BY <2>4, <2>5
<1>5. n \in S
  <2> HIDE DEF S, n
  <2>1. \A k \in 0..n : k \in S
    BY <1>1, <1>3, <1>4, SegmentInduction
  <2> QED
    BY <2>1, <1>1
<1> QED
  BY <1>2, <1>5

\* A nonempty set of bounded natural numbers has a greatest element.
LEMMA GreatestNumber ==
  ASSUME NEW n \in Nat, NEW S \in SUBSET (0..n), S # {}
  PROVE  \E k \in S : \A j \in S : j <= k
<1> DEFINE T == {n - k : k \in S}
<1>1. T \in SUBSET Nat /\ T # {}
  <2>1. \A k \in S : n - k \in Nat
    OBVIOUS
  <2>2. T \in SUBSET Nat
    BY <2>1
  <2>3. PICK k : k \in S
    OBVIOUS
  <2>4. n - k \in T
    BY <2>3
  <2> QED
    BY <2>2, <2>4
<1>2. PICK m \in T : \A j \in T : m <= j
  <2> HIDE DEF T
  <2> QED
    BY <1>1, LeastNumber
<1>3. PICK k \in S : m = n - k
  OBVIOUS
<1>4. ASSUME NEW j \in S
      PROVE  j <= k
  <2>1. m <= n - j
    BY <1>2
  <2>2. j \in 0..n /\ k \in 0..n
    OBVIOUS
  <2> QED
    BY <2>1, <2>2, <1>3
<1> QED
  BY <1>4
=============================================================================
