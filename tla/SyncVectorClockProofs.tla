------------------------ MODULE SyncVectorClockProofs ------------------------
(***************************************************************************)
(* Lemmas about the vector clock algorithms, for every set of clients and  *)
(* every maximal clock size.                                               *)
(***************************************************************************)
EXTENDS SyncVectorClock, FiniteSetTheorems, TLAPS

-----------------------------------------------------------------------------
(* Comparison *)

\* compareVectorClocks answers GREATER_THAN exactly for a clock that dominates a
\* different one.
LEMMA GreaterIsStrictDominance ==
  ASSUME NEW a \in Clock, NEW b \in Clock
  PROVE  CompareClocks(a, b) = "GREATER_THAN" <=> Dominates(a, b) /\ a # b
  BY DEF CompareClocks, Dominates, Clock

\* compareVectorClocks answers EQUAL for nothing but the same clock.
LEMMA EqualIsIdentity ==
  ASSUME NEW a \in Clock, NEW b \in Clock
  PROVE  CompareClocks(a, b) = "EQUAL" <=> a = b
  BY DEF CompareClocks, Clock

\* The server's and a client's verdicts on the same two clocks mirror each other: what
\* one side takes for a successor, the other takes for a predecessor.
THEOREM CompareIsAntisymmetric ==
  ASSUME NEW a \in Clock, NEW b \in Clock
  PROVE  /\ CompareClocks(a, b) = "GREATER_THAN" <=> CompareClocks(b, a) = "LESS_THAN"
         /\ CompareClocks(a, b) = "CONCURRENT" <=> CompareClocks(b, a) = "CONCURRENT"
  BY DEF CompareClocks, Clock

\* Dominance is transitive: a successor of a successor is a successor.
LEMMA DominanceIsTransitive ==
  ASSUME NEW a \in Clock, NEW b \in Clock, NEW c \in Clock,
         Dominates(a, b), Dominates(b, c)
  PROVE  Dominates(a, c)
  BY DEF Dominates, Clock

-----------------------------------------------------------------------------
(* Merge and increment *)

\* mergeVectorClocks and incrementVectorClock return clocks.
LEMMA MergeType ==
  ASSUME NEW a \in Clock, NEW b \in Clock
  PROVE  MergeClocks(a, b) \in Clock
  BY DEF MergeClocks, Clock

\* ... and so is an incremented one.
LEMMA IncrementType ==
  ASSUME NEW a \in Clock, NEW c \in Clients
  PROVE  IncrementClock(a, c) \in Clock
  BY DEF IncrementClock, Clock

\* mergeVectorClocks is the least clock that dominates both.
THEOREM MergeIsLeastUpperBound ==
  ASSUME NEW a \in Clock, NEW b \in Clock
  PROVE  /\ Dominates(MergeClocks(a, b), a)
         /\ Dominates(MergeClocks(a, b), b)
         /\ \A c \in Clock : Dominates(c, a) /\ Dominates(c, b)
                               => Dominates(c, MergeClocks(a, b))
  BY DEF MergeClocks, Dominates, Clock

\* The clock that a device gives the operation with which it settles a conflict, both
\* clocks merged and its own counter raised, succeeds both sides.
THEOREM SettlingClockSucceedsBoth ==
  ASSUME NEW a \in Clock, NEW b \in Clock, NEW c \in Clients
  PROVE  LET settled == IncrementClock(MergeClocks(a, b), c)
         IN  /\ CompareClocks(settled, a) = "GREATER_THAN"
             /\ CompareClocks(settled, b) = "GREATER_THAN"
<1> DEFINE merged == MergeClocks(a, b)
           settled == IncrementClock(merged, c)
<1>1. merged \in Clock /\ settled \in Clock
  BY MergeType, IncrementType
<1>2. Dominates(settled, merged) /\ settled[c] > merged[c]
  BY <1>1 DEF IncrementClock, Dominates, Clock
<1>3. Dominates(merged, a) /\ Dominates(merged, b)
  BY MergeIsLeastUpperBound
<1>4. Dominates(settled, a) /\ Dominates(settled, b)
  BY <1>1, <1>2, <1>3, DominanceIsTransitive
<1>5. settled # a /\ settled # b
  BY <1>1, <1>2, <1>3 DEF Dominates, Clock
<1> QED
  BY <1>1, <1>4, <1>5, GreaterIsStrictDominance

-----------------------------------------------------------------------------
(* Pruning *)

\* limitVectorClockSize returns a clock.
LEMMA LimitType ==
  ASSUME NEW a \in Clock, NEW preserve
  PROVE  LimitClock(a, preserve) \in Clock
  BY DEF LimitClock, Clock

\* limitVectorClockSize never raises a counter, ...
LEMMA LimitOnlyDrops ==
  ASSUME NEW a \in Clock, NEW preserve
  PROVE  Dominates(a, LimitClock(a, preserve))
  BY DEF LimitClock, Dominates, Clock

\* ... and keeps the counters of the ids it is asked to preserve.
LEMMA LimitKeepsPreserved ==
  ASSUME NEW a \in Clock, NEW preserve, NEW c \in preserve \cap Clients
  PROVE  LimitClock(a, preserve)[c] = a[c]
  BY DEF LimitClock, KeptEntries, Entries, Clock

\* A successor stays a successor of the clock the server stored: pruning the older
\* clock loses no verdict, which is why the server prunes after the comparison.
THEOREM PruningKeepsSuccessors ==
  ASSUME NEW new \in Clock, NEW old \in Clock, NEW preserve,
         CompareClocks(new, old) = "GREATER_THAN"
  PROVE  CompareClocks(new, LimitClock(old, preserve)) = "GREATER_THAN"
<1> DEFINE kept == LimitClock(old, preserve)
<1>1. kept \in Clock /\ Dominates(old, kept)
  BY LimitType, LimitOnlyDrops
<1>2. Dominates(new, old) /\ new # old
  BY GreaterIsStrictDominance
<1>3. Dominates(new, kept)
  BY <1>1, <1>2, DominanceIsTransitive
<1>4. new # kept
  BY <1>1, <1>2 DEF Dominates, Clock
<1> QED
  BY <1>1, <1>3, <1>4, GreaterIsStrictDominance

\* The survival order is a strict total order, so that every client and the server prune
\* a clock to the same ids.
LEMMA KeptBeforeIsTotal ==
  ASSUME NEW a \in Clock
  PROVE  /\ \A c \in Clients : ~KeptBefore(a, c, c)
         /\ \A c, d \in Clients : c # d => KeptBefore(a, c, d) \/ KeptBefore(a, d, c)
         /\ \A c, d, e \in Clients :
              KeptBefore(a, c, d) /\ KeptBefore(a, d, e) => KeptBefore(a, c, e)
  BY ClientsAreOrdered DEF KeptBefore, Clock

\* At most n elements of a finite set of ids have fewer than n ids before them.
LEMMA FewAreFirst ==
  ASSUME NEW a \in Clock, NEW others \in SUBSET Clients, IsFiniteSet(others), NEW n \in Nat
  PROVE  LET top == {c \in others : Cardinality({d \in others : KeptBefore(a, d, c)}) < n}
         IN  IsFiniteSet(top) /\ Cardinality(top) <= n
<1> DEFINE before(c) == {d \in others : KeptBefore(a, d, c)}
           top == {c \in others : Cardinality(before(c)) < n}
           rank == [c \in top |-> Cardinality(before(c))]
<1>1. \A c \in others : IsFiniteSet(before(c)) /\ Cardinality(before(c)) \in Nat
  <2> SUFFICES ASSUME NEW c \in others
               PROVE  IsFiniteSet(before(c)) /\ Cardinality(before(c)) \in Nat
    OBVIOUS
  <2>1. IsFiniteSet(before(c))
    BY FS_Subset
  <2> QED
    BY <2>1, FS_CardinalityType
<1>2. ASSUME NEW c \in others, NEW d \in others, KeptBefore(a, c, d)
      PROVE  Cardinality(before(c)) < Cardinality(before(d))
  <2>1. before(c) \subseteq before(d) /\ c \in before(d) /\ c \notin before(c)
    BY <1>2, KeptBeforeIsTotal
  <2>2. /\ Cardinality(before(c)) <= Cardinality(before(d))
        /\ Cardinality(before(d)) = Cardinality(before(c)) => before(d) = before(c)
    BY <1>1, <2>1, FS_Subset
  <2> QED
    BY <1>1, <2>1, <2>2
<1>3. rank \in [top -> 0..(n - 1)]
  BY <1>1
<1>4. \A c, d \in top : rank[c] = rank[d] => c = d
  <2> SUFFICES ASSUME NEW c \in top, NEW d \in top, c # d
               PROVE  Cardinality(before(c)) # Cardinality(before(d))
    OBVIOUS
  <2>1. KeptBefore(a, c, d) \/ KeptBefore(a, d, c)
    BY KeptBeforeIsTotal
  <2>2. Cardinality(before(c)) < Cardinality(before(d))
          \/ Cardinality(before(d)) < Cardinality(before(c))
    BY <1>2, <2>1
  <2> HIDE DEF before
  <2> QED
    BY <1>1, <2>2
<1>5. rank \in Injection(top, 0..(n - 1))
  BY <1>3, <1>4 DEF Injection, IsInjective
<1>6. IsFiniteSet(0..(n - 1)) /\ Cardinality(0..(n - 1)) = n
  BY FS_Interval
<1> HIDE DEF rank, top
<1>7. IsFiniteSet(top) /\ Cardinality(top) <= n
  BY <1>5, <1>6, FS_Injection
<1> QED
  BY <1>7 DEF top

\* limitVectorClockSize returns at most MAX_VECTOR_CLOCK_SIZE entries when it is asked to
\* preserve no more than that, as its callers are.
THEOREM LimitedClockFits ==
  ASSUME NEW a \in Clock, IsFiniteSet(Clients), NEW preserve,
         Cardinality(preserve \cap Entries(a)) <= MaxClockSize
  PROVE  Cardinality(Entries(LimitClock(a, preserve))) <= MaxClockSize
<1> DEFINE preserved == preserve \cap Entries(a)
           others == Entries(a) \ preserved
           room == MaxClockSize - Cardinality(preserved)
           top == {c \in others : Cardinality({d \in others : KeptBefore(a, d, c)}) < room}
<1>1. IsFiniteSet(Entries(a)) /\ IsFiniteSet(preserved) /\ IsFiniteSet(others)
  BY FS_Subset DEF Entries
<1>2. Cardinality(preserved) \in Nat /\ MaxClockSize \in Nat /\ room \in Nat
  BY <1>1, FS_CardinalityType, MaxClockSizePositive
<1>3. CASE Cardinality(Entries(a)) <= MaxClockSize
  BY <1>3 DEF LimitClock
<1>4. CASE ~(Cardinality(Entries(a)) <= MaxClockSize)
  <2>1. others \in SUBSET Clients
    BY DEF Entries
  <2>2. IsFiniteSet(top) /\ Cardinality(top) <= room
    BY <1>1, <1>2, <2>1, FewAreFirst
  <2>3. preserved \cap top = {}
    OBVIOUS
  <2>4. KeptEntries(a, preserve) = preserved \union top
    BY DEF KeptEntries
  <2> HIDE DEF top, others, room, preserved
  <2>5. /\ IsFiniteSet(preserved \union top)
        /\ Cardinality(preserved \union top) = Cardinality(preserved) + Cardinality(top)
    <3>1. Cardinality(preserved \cap top) = 0
      BY <2>3, FS_EmptySet
    <3>2. /\ IsFiniteSet(preserved \union top)
          /\ Cardinality(preserved \union top)
               = Cardinality(preserved) + Cardinality(top) - Cardinality(preserved \cap top)
      BY <1>1, <2>2, FS_Union
    <3>3. Cardinality(preserved) \in Nat /\ Cardinality(top) \in Nat
      BY <1>1, <2>2, FS_CardinalityType
    <3> QED
      BY <3>1, <3>2, <3>3
  <2>6. Cardinality(preserved \union top) <= MaxClockSize
    BY <1>2, <2>2, <2>5, FS_CardinalityType DEF room
  <2>7. Entries(LimitClock(a, preserve)) \subseteq preserved \union top
    BY <1>4, <2>4 DEF LimitClock, Entries
  <2>8. /\ Cardinality(Entries(LimitClock(a, preserve))) <= Cardinality(preserved \union top)
        /\ Cardinality(Entries(LimitClock(a, preserve))) \in Nat
        /\ Cardinality(preserved \union top) \in Nat
    BY <2>5, <2>7, FS_Subset, FS_CardinalityType
  <2> QED
    BY <1>2, <2>6, <2>8
<1> QED
  BY <1>3, <1>4

-----------------------------------------------------------------------------
(* The aggregate over stored clocks *)

\* A finite set of numbers has a greatest one.
LEMMA FiniteSetHasMax ==
  ASSUME NEW S \in SUBSET Nat, IsFiniteSet(S), S # {}
  PROVE  \E m \in S : \A n \in S : m >= n
<1> DEFINE HasMax(X) == \E m \in X : \A n \in X : m >= n
           bad == {X \in FiniteSubsetsOf(Nat) : X # {} /\ ~HasMax(X)}
<1> SUFFICES ASSUME ~HasMax(S) PROVE FALSE
  OBVIOUS
<1>1. S \in bad /\ bad \subseteq FiniteSubsetsOf(Nat)
  BY DEF FiniteSubsetsOf
<1>2. PICK X \in bad : \A Y \in bad : ~(<<Y, X>> \in StrictSubsetOrdering(Nat))
  <2> HIDE DEF bad
  <2> QED
    BY <1>1, FS_StrictSubsetOrderingWellFounded, WFMin
<1>3. X \subseteq Nat /\ IsFiniteSet(X) /\ X # {} /\ ~HasMax(X)
  BY DEF FiniteSubsetsOf
<1>4. PICK x \in X : TRUE
  BY <1>3
<1>5. CASE X \ {x} = {}
  BY <1>3, <1>4, <1>5
<1>6. CASE X \ {x} # {}
  <2>1. X \ {x} \in FiniteSubsetsOf(Nat)
    BY <1>3, FS_RemoveElement DEF FiniteSubsetsOf
  <2>2. <<X \ {x}, X>> \in StrictSubsetOrdering(Nat)
    BY <1>3, <1>4 DEF StrictSubsetOrdering
  <2>3. HasMax(X \ {x})
    BY <1>2, <1>6, <2>1, <2>2
  <2> QED
    BY <1>3, <1>4, <2>3
<1> QED
  BY <1>5, <1>6

\* For every client some clock of a finite set has the greatest counter.
LEMMA SomeClockIsHighest ==
  ASSUME NEW clocks \in SUBSET Clock, IsFiniteSet(clocks), clocks # {}, NEW c \in Clients
  PROVE  \E k \in clocks : \A j \in clocks : k[c] >= j[c]
<1> DEFINE counters == {k[c] : k \in clocks}
           counter == [k \in clocks |-> k[c]]
<1>1. counter \in Surjection(clocks, counters)
  BY DEF Surjection
<1>2. IsFiniteSet(counters)
  <2> HIDE DEF counter, counters
  <2> QED
    BY <1>1, FS_Surjection
<1>3. counters \in SUBSET Nat /\ counters # {}
  BY DEF Clock
<1>4. \E m \in counters : \A n \in counters : m >= n
  BY <1>2, <1>3, FiniteSetHasMax
<1> QED
  BY <1>4

\* _aggregatePriorVectorClock returns a clock that dominates every clock it is made from.
THEOREM AggregateDominates ==
  ASSUME NEW clocks \in SUBSET Clock, IsFiniteSet(clocks)
  PROVE  /\ MaxOverClocks(clocks) \in Clock
         /\ \A k \in clocks : Dominates(MaxOverClocks(clocks), k)
<1>1. CASE clocks = {}
  BY <1>1 DEF MaxOverClocks, MaxCounter, Clock
<1>2. CASE clocks # {}
  <2>1. ASSUME NEW c \in Clients
        PROVE  MaxCounter(clocks, c) \in Nat /\ \A k \in clocks : MaxCounter(clocks, c) >= k[c]
    <3> DEFINE top == CHOOSE k \in clocks : \A j \in clocks : k[c] >= j[c]
    <3>1. top \in clocks /\ \A j \in clocks : top[c] >= j[c]
      BY <1>2, <2>1, SomeClockIsHighest
    <3>2. MaxCounter(clocks, c) = top[c]
      BY <1>2 DEF MaxCounter
    <3> HIDE DEF top
    <3> QED
      BY <3>1, <3>2 DEF Clock
  <2> QED
    BY <2>1 DEF MaxOverClocks, Dominates, Clock
<1> QED
  BY <1>1, <1>2
=============================================================================
