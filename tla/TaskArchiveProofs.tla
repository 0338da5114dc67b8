--------------------------- MODULE TaskArchiveProofs ---------------------------
(***************************************************************************)
(* Two facts about the archives, for any number of devices, tasks and      *)
(* operations, and however the jobs of a device overlap: the types, and    *)
(* that the store shows what a restart would show.  For the second, the    *)
(* reducers of a sequence of operations come first, then the invariant     *)
(* ShownInv, which says why a retry comes last, with a lemma for each kind *)
(* of step.  What the archives hold is left to the model checker.          *)
(***************************************************************************)
EXTENDS TaskArchive, SubsequenceProofs

\* Operations are only added.
OpsGrow == DOMAIN ops \subseteq DOMAIN ops' /\ \A i \in DOMAIN ops : ops'[i] = ops[i]


LEMMA NumbersOfAppend ==
  ASSUME NEW V, NEW s \in Seq(V), NEW x \in V
  PROVE  NumbersOf(Append(s, x)) = NumbersOf(s) \union {x}
<1>1. /\ Append(s, x) \in Seq(V) /\ Len(s) \in Nat
      /\ DOMAIN Append(s, x) = 1..Len(s) + 1 /\ DOMAIN s = 1..Len(s)
      /\ Append(s, x)[Len(s) + 1] = x
      /\ \A i \in 1..Len(s) : Append(s, x)[i] = s[i]
  BY AppendProperties
<1> DEFINE b == Append(s, x)
<1> HIDE DEF b
<1>2. /\ DOMAIN b = 1..Len(s) + 1
      /\ b[Len(s) + 1] = x
      /\ \A i \in 1..Len(s) : b[i] = s[i]
  BY <1>1 DEF b
<1>3. NumbersOf(b) = NumbersOf(s) \union {x}
  <2>1. ASSUME NEW v \in NumbersOf(b)
        PROVE  v \in NumbersOf(s) \union {x}
    <3>1. PICK k \in 1..Len(s) + 1 : v = b[k]
      BY <1>2 DEF NumbersOf
    <3> QED
      BY <3>1, <1>1, <1>2 DEF NumbersOf
  <2>2. ASSUME NEW v \in NumbersOf(s)
        PROVE  v \in NumbersOf(b)
    <3>1. PICK k \in 1..Len(s) : v = s[k]
      BY <1>1 DEF NumbersOf
    <3>2. k \in 1..Len(s) + 1 /\ b[k] = v
      BY <3>1, <1>1, <1>2
    <3> QED
      BY <3>2, <1>2 DEF NumbersOf
  <2>3. x \in NumbersOf(b)
    <3>1. Len(s) + 1 \in 1..Len(s) + 1
      BY <1>1
    <3> QED
      BY <3>1, <1>2 DEF NumbersOf
  <2> QED
    BY <2>1, <2>2, <2>3
<1> QED
  BY <1>3 DEF b

LEMMA NumbersOfConcat ==
  ASSUME NEW V, NEW s \in Seq(V), NEW r \in Seq(V)
  PROVE  NumbersOf(s \o r) = NumbersOf(s) \union NumbersOf(r)
<1> DEFINE b == s \o r
           n == Len(s)
           m == Len(r)
<1>1. /\ b \in Seq(V) /\ n \in Nat /\ m \in Nat
      /\ DOMAIN b = 1..n + m /\ DOMAIN s = 1..n /\ DOMAIN r = 1..m
      /\ \A i \in 1..n : b[i] = s[i]
      /\ \A i \in 1..m : b[n + i] = r[i]
  BY ConcatProperties
<1> HIDE DEF b, n, m
<1>2. ASSUME NEW v \in NumbersOf(b)
      PROVE  v \in NumbersOf(s) \union NumbersOf(r)
  <2>1. PICK k \in 1..n + m : v = b[k]
    BY <1>1 DEF NumbersOf
  <2>2. CASE k \in 1..n
    BY <2>1, <2>2, <1>1 DEF NumbersOf
  <2>3. CASE k \notin 1..n
    <3>1. k - n \in 1..m /\ n + (k - n) = k
      BY <2>3, <1>1
    <3>2. r[k - n] = v
      BY <3>1, <2>1, <1>1
    <3> QED
      BY <3>1, <3>2, <1>1 DEF NumbersOf
  <2> QED
    BY <2>2, <2>3
<1>3. ASSUME NEW v \in NumbersOf(s)
      PROVE  v \in NumbersOf(b)
  <2>1. PICK k \in 1..n : v = s[k]
    BY <1>1 DEF NumbersOf
  <2>2. k \in 1..n + m /\ b[k] = v
    BY <2>1, <1>1
  <2> QED
    BY <2>2, <1>1 DEF NumbersOf
<1>4. ASSUME NEW v \in NumbersOf(r)
      PROVE  v \in NumbersOf(b)
  <2>1. PICK k \in 1..m : v = r[k]
    BY <1>1 DEF NumbersOf
  <2>2. n + k \in 1..n + m /\ b[n + k] = v
    BY <2>1, <1>1
  <2> QED
    BY <2>2, <1>1 DEF NumbersOf
<1>5. NumbersOf(b) = NumbersOf(s) \union NumbersOf(r)
  BY <1>2, <1>3, <1>4
<1> QED
  BY <1>5 DEF b

\* The rest of a sequence, by position.
LEMMA TailPositions ==
  ASSUME NEW V, NEW s \in Seq(V), s # <<>>
  PROVE  /\ Tail(s) \in Seq(V) /\ Head(s) \in V /\ Head(s) = s[1] /\ 1 \in DOMAIN s
         /\ \A k \in DOMAIN Tail(s) : k + 1 \in DOMAIN s /\ Tail(s)[k] = s[k + 1]
         /\ \A k \in DOMAIN s : k # 1 => k - 1 \in DOMAIN Tail(s) /\ Tail(s)[k - 1] = s[k]
<1>1. /\ Tail(s) \in Seq(V) /\ Head(s) \in V /\ Head(s) = s[1]
      /\ Len(s) \in Nat \ {0} /\ Len(Tail(s)) = Len(s) - 1
      /\ \A i \in 1..Len(s) - 1 : Tail(s)[i] = s[i + 1]
  BY HeadTailProperties, EmptySeq
<1>2. DOMAIN s = 1..Len(s)
  OBVIOUS
<1> DEFINE r == Tail(s)
<1>3. DOMAIN r = 1..Len(s) - 1
  <2>1. r \in Seq(V) /\ Len(r) = Len(s) - 1
    BY <1>1
  <2> HIDE DEF r
  <2> QED
    BY <2>1
<1> HIDE DEF r
<1>4. \A i \in 1..Len(s) - 1 : r[i] = s[i + 1]
  BY <1>1 DEF r
<1>5. \A k \in DOMAIN r : k + 1 \in DOMAIN s /\ r[k] = s[k + 1]
  BY <1>1, <1>2, <1>3, <1>4
<1>6. ASSUME NEW k \in DOMAIN s, k # 1
      PROVE  k - 1 \in DOMAIN r /\ r[k - 1] = s[k]
  <2>1. k - 1 \in 1..Len(s) - 1 /\ (k - 1) + 1 = k
    BY <1>1, <1>2, <1>6
  <2> QED
    BY <2>1, <1>3, <1>4
<1>7. 1 \in DOMAIN s
  BY <1>1, <1>2
<1> QED
  BY <1>1, <1>5, <1>6, <1>7 DEF r

LEMMA NumbersOfTail ==
  ASSUME NEW V, NEW s \in Seq(V), s # <<>>
  PROVE  NumbersOf(s) = {Head(s)} \union NumbersOf(Tail(s))
<1>1. ASSUME NEW k \in DOMAIN s
      PROVE  s[k] \in {Head(s)} \union NumbersOf(Tail(s))
  <2>1. Head(s) = s[1] /\ (k # 1 => k - 1 \in DOMAIN Tail(s) /\ Tail(s)[k - 1] = s[k])
    BY TailPositions
  <2> QED
    BY <2>1 DEF NumbersOf
<1>2. {Head(s)} \union NumbersOf(Tail(s)) \subseteq NumbersOf(s)
  BY TailPositions DEF NumbersOf
<1> QED
  BY <1>1, <1>2 DEF NumbersOf

LEMMA NumbersInDomain ==
  ASSUME NEW V, NEW s \in Seq(V)
  PROVE  NumbersOf(s) \subseteq V
BY DEF NumbersOf

LEMMA NoNumbers == NumbersOf(<<>>) = {}
BY DEF NumbersOf

LEMMA SomeNumbers ==
  ASSUME NEW V, NEW s \in Seq(V), NumbersOf(s) = {}
  PROVE  s = <<>>
<1>1. CASE s # <<>>
  BY <1>1, TailPositions DEF NumbersOf
<1> QED
  BY <1>1
-----------------------------------------------------------------------------
(* The reducers of a sequence of operations *)

\* The stores after the first operations of a sequence, step by step.
Runs(after, shown, run) ==
  /\ after[0] = shown
  /\ \A k \in 0..Len(run) : after[k] \in SUBSET Tasks
  /\ \A k \in 1..Len(run) : after[k] = Reduced(after[k - 1], run[k])

LEMMA ReducedType ==
  ASSUME NEW shown \in SUBSET Tasks, NEW op \in Ops
  PROVE  Reduced(shown, op) \in SUBSET Tasks
BY DEF Reduced, Ops

LEMMA RunSteps ==
  ASSUME NEW shown \in SUBSET Tasks, NEW run \in Seq(Ops)
  PROVE  /\ ReducedAll(shown, run) \in SUBSET Tasks
         /\ \E after : Runs(after, shown, run) /\ ReducedAll(shown, run) = after[Len(run)]
<1> DEFINE n == Len(run)
           Eq(f) == f = [k \in 0..n |-> IF k = 0 THEN shown ELSE Reduced(f[k - 1], run[k])]
           after == CHOOSE f : Eq(f)
<1>1. n \in Nat /\ \A k \in 1..n : run[k] \in Ops
  BY ElementOfSeq
<1>2. PICK f : f \in [0..n -> SUBSET Tasks] /\ Eq(f)
  <2> DEFINE step == [k \in 1..n |-> [v \in SUBSET Tasks |-> Reduced(v, run[k])]]
  <2>1. Keeps(step, n, SUBSET Tasks)
    BY <1>1, ReducedType DEF Keeps
  <2>2. PICK f \in [0..n -> SUBSET Tasks] : GoesBy(f, n, shown, step)
    <3> HIDE DEF step, n
    <3> QED
      BY <1>1, <2>1, SegmentRecursion
  <2> DEFINE g == [k \in 0..n |-> IF k = 0 THEN shown ELSE Reduced(f[k - 1], run[k])]
  <2>3. ASSUME NEW k \in 0..n
        PROVE  f[k] = g[k]
    <3>1. CASE k = 0
      BY <3>1, <2>2, <1>1 DEF GoesBy
    <3>2. CASE k # 0
      <4>1. k \in 1..n /\ k - 1 \in 0..n
        BY <3>2, <1>1
      <4>2. f[k] = step[k][f[k - 1]] /\ f[k - 1] \in SUBSET Tasks
        BY <4>1, <2>2 DEF GoesBy
      <4>3. g[k] = Reduced(f[k - 1], run[k])
        BY <3>2
      <4> QED
        BY <4>1, <4>2, <4>3
    <3> QED
      BY <3>1, <3>2
  <2>4. f = [k \in 0..n |-> f[k]] /\ g = [k \in 0..n |-> g[k]]
    OBVIOUS
  <2>5. f = g
    <3> HIDE DEF g
    <3> QED
      BY <2>3, <2>4
  <2> QED
    BY <2>5
<1>3. Eq(after)
  <2> HIDE DEF Eq
  <2> QED
    BY <1>2
<1>4. ReducedAll(shown, run) = after[n]
  BY DEF ReducedAll
<1> HIDE DEF after
<1> DEFINE S == {k \in 0..n : after[k] = f[k]}
<1>5. 0 \in S
  BY <1>1, <1>2, <1>3
<1>6. ASSUME NEW k \in 0..n - 1, k \in S
      PROVE  k + 1 \in S
  <2>1. k + 1 \in 0..n /\ k + 1 # 0 /\ (k + 1) - 1 = k
    BY <1>1
  <2> QED
    BY <2>1, <1>2, <1>3, <1>6
<1>7. \A k \in 0..n : k \in S
  <2> HIDE DEF S, n
  <2> QED
    BY <1>1, <1>5, <1>6, SegmentInduction
<1>8. \A k \in 0..n : after[k] \in SUBSET Tasks
  BY <1>2, <1>7
<1>9. after[0] = shown
  BY <1>1, <1>3
<1>10. ASSUME NEW k \in 1..n
       PROVE  after[k] = Reduced(after[k - 1], run[k])
  <2>1. k \in 0..n /\ k # 0
    BY <1>1
  <2> QED
    BY <2>1, <1>3
<1>11. Runs(after, shown, run)
  BY <1>8, <1>9, <1>10 DEF Runs
<1>12. n \in 0..n
  BY <1>1
<1> QED
  BY <1>4, <1>8, <1>11, <1>12

\* There is one way to go through a sequence.
LEMMA RunGives ==
  ASSUME NEW shown \in SUBSET Tasks, NEW run \in Seq(Ops), NEW after, Runs(after, shown, run)
  PROVE  ReducedAll(shown, run) = after[Len(run)]
<1> DEFINE n == Len(run)
<1>1. n \in Nat
  OBVIOUS
<1>2. PICK f : Runs(f, shown, run) /\ ReducedAll(shown, run) = f[n]
  BY RunSteps
<1> DEFINE S == {k \in 0..n : f[k] = after[k]}
<1>3. 0 \in S
  BY <1>1, <1>2 DEF Runs
<1>4. ASSUME NEW k \in 0..n - 1, k \in S
      PROVE  k + 1 \in S
  <2>1. k + 1 \in 1..n /\ (k + 1) - 1 = k /\ k + 1 \in 0..n
    BY <1>1
  <2> QED
    BY <2>1, <1>2, <1>4 DEF Runs
<1>5. \A k \in 0..n : k \in S
  <2> HIDE DEF S, n
  <2> QED
    BY <1>1, <1>3, <1>4, SegmentInduction
<1>6. n \in 0..n
  BY <1>1
<1> QED
  BY <1>2, <1>5, <1>6

LEMMA RunOfNone ==
  ASSUME NEW shown \in SUBSET Tasks
  PROVE  ReducedAll(shown, <<>>) = shown
<1>1. PICK after : Runs(after, shown, <<>>) /\ ReducedAll(shown, <<>>) = after[Len(<<>>)]
  <2>1. <<>> \in Seq(Ops)
    OBVIOUS
  <2> QED
    BY <2>1, RunSteps
<1> QED
  BY <1>1 DEF Runs

\* One operation more, or one sequence after another.
LEMMA RunOfAppend ==
  ASSUME NEW shown \in SUBSET Tasks, NEW run \in Seq(Ops), NEW op \in Ops
  PROVE  ReducedAll(shown, Append(run, op)) = Reduced(ReducedAll(shown, run), op)
<1> DEFINE more == Append(run, op)
           n == Len(run)
<1>1. /\ more \in Seq(Ops) /\ Len(more) = n + 1 /\ n \in Nat /\ more[n + 1] = op
      /\ \A i \in 1..n : more[i] = run[i]
  BY AppendProperties
<1> HIDE DEF more
<1>2. PICK after : Runs(after, shown, more) /\ ReducedAll(shown, more) = after[Len(more)]
  BY <1>1, RunSteps
<1>3. Runs(after, shown, run)
  <2>1. \A k \in 0..n : k \in 0..n + 1
    BY <1>1
  <2>2. \A k \in 1..n : k \in 1..n + 1
    BY <1>1
  <2> QED
    BY <1>1, <1>2, <2>1, <2>2 DEF Runs
<1>4. ReducedAll(shown, run) = after[n]
  BY <1>3, RunGives
<1>5. n + 1 \in 1..n + 1 /\ (n + 1) - 1 = n
  BY <1>1
<1>6. after[n + 1] = Reduced(after[n], op)
  BY <1>1, <1>2, <1>5 DEF Runs
<1> QED
  BY <1>2, <1>4, <1>6 DEF more

LEMMA RunOfConcat ==
  ASSUME NEW shown \in SUBSET Tasks, NEW run \in Seq(Ops), NEW next \in Seq(Ops)
  PROVE  ReducedAll(shown, run \o next) = ReducedAll(ReducedAll(shown, run), next)
<1> DEFINE both == run \o next
           n == Len(run)
           m == Len(next)
<1>1. /\ both \in Seq(Ops) /\ n \in Nat /\ m \in Nat /\ Len(both) = n + m
      /\ \A i \in 1..n : both[i] = run[i]
      /\ \A i \in 1..m : both[n + i] = next[i]
  BY ConcatProperties
<1> HIDE DEF both, n, m
<1>2. PICK after : Runs(after, shown, both) /\ ReducedAll(shown, both) = after[Len(both)]
  BY <1>1, RunSteps
<1>3. ReducedAll(shown, run) = after[n] /\ after[n] \in SUBSET Tasks
  <2>1. Runs(after, shown, run)
    <3>1. \A k \in 0..n : k \in 0..n + m
      BY <1>1
    <3>2. \A k \in 1..n : k \in 1..n + m
      BY <1>1
    <3> QED
      BY <1>1, <1>2, <3>1, <3>2 DEF Runs, n
  <2>2. n \in 0..n + m
    BY <1>1
  <2> QED
    BY <2>1, <2>2, <1>1, <1>2, RunGives DEF Runs, n
<1> DEFINE rest == [k \in 0..m |-> after[n + k]]
<1>4. Runs(rest, after[n], next)
  <2>1. rest[0] = after[n]
    BY <1>1
  <2>2. \A k \in 0..m : rest[k] \in SUBSET Tasks
    <3>1. \A k \in 0..m : n + k \in 0..n + m
      BY <1>1
    <3> QED
      BY <3>1, <1>1, <1>2 DEF Runs
  <2>3. ASSUME NEW k \in 1..m
        PROVE  rest[k] = Reduced(rest[k - 1], next[k])
    <3>1. n + k \in 1..n + m /\ (n + k) - 1 = n + (k - 1) /\ k \in 0..m /\ k - 1 \in 0..m
      BY <1>1
    <3>2. after[n + k] = Reduced(after[(n + k) - 1], both[n + k])
      BY <3>1, <1>1, <1>2 DEF Runs
    <3> QED
      BY <3>1, <3>2, <1>1
  <2> HIDE DEF rest
  <2> QED
    BY <2>1, <2>2, <2>3 DEF Runs, m
<1>5. m \in 0..m /\ rest[m] = after[n + m]
  BY <1>1
<1> HIDE DEF rest
<1>6. ReducedAll(after[n], next) = rest[m]
  BY <1>3, <1>4, RunGives DEF m
<1>7. ReducedAll(shown, both) = after[n + m]
  BY <1>1, <1>2
<1> QED
  BY <1>3, <1>5, <1>6, <1>7 DEF both

LEMMA RunOfRest ==
  ASSUME NEW shown \in SUBSET Tasks, NEW run \in Seq(Ops), run # <<>>
  PROVE  /\ Head(run) \in Ops /\ Tail(run) \in Seq(Ops)
         /\ ReducedAll(shown, run) = ReducedAll(Reduced(shown, Head(run)), Tail(run))
<1> DEFINE first == <<Head(run)>>
<1>1. Head(run) \in Ops /\ Tail(run) \in Seq(Ops) /\ run = first \o Tail(run)
  BY HeadTailProperties
<1>2. first \in Seq(Ops) /\ first = Append(<<>>, Head(run)) /\ <<>> \in Seq(Ops)
  BY <1>1
<1> HIDE DEF first
<1>3. ReducedAll(shown, first) = Reduced(shown, Head(run))
  <2>1. ReducedAll(shown, Append(<<>>, Head(run))) = Reduced(ReducedAll(shown, <<>>), Head(run))
    BY <1>1, <1>2, RunOfAppend
  <2> QED
    BY <1>2, <2>1, RunOfNone
<1>4. ReducedAll(shown, first \o Tail(run)) = ReducedAll(ReducedAll(shown, first), Tail(run))
  BY <1>1, <1>2, RunOfConcat
<1> QED
  BY <1>1, <1>3, <1>4

\* The operations that change what the store shows of a task.
Moves(op, t) == op.kind # "flush" /\ t \in op.tasks

\* A sequence shows a task as the last operation on it says.
LEMMA RunShows ==
  ASSUME NEW shown \in SUBSET Tasks, NEW run \in Seq(Ops), NEW t \in Tasks
  PROVE  /\ (\A k \in DOMAIN run : ~Moves(run[k], t)) =>
              (t \in ReducedAll(shown, run) <=> t \in shown)
         /\ \A j \in DOMAIN run :
              Moves(run[j], t) /\ (\A k \in DOMAIN run : Moves(run[k], t) => k <= j) =>
                (t \in ReducedAll(shown, run) <=> run[j].kind # "archive")
<1> DEFINE n == Len(run)
           Is(j, k) == \A m \in 1..k : Moves(run[m], t) => m <= j
<1>1. n \in Nat /\ DOMAIN run = 1..n /\ \A k \in 1..n : run[k] \in Ops
  BY ElementOfSeq
<1>2. PICK after : Runs(after, shown, run) /\ ReducedAll(shown, run) = after[n]
  BY RunSteps
<1> DEFINE S == {k \in 0..n :
                   /\ (\A j \in 1..k : ~Moves(run[j], t)) => (t \in after[k] <=> t \in shown)
                   /\ \A j \in 1..k : Moves(run[j], t) /\ Is(j, k) =>
                        (t \in after[k] <=> run[j].kind # "archive")}
<1>3. 0 \in S
  BY <1>1, <1>2 DEF Runs
<1>4. ASSUME NEW k \in 0..n - 1, k \in S
      PROVE  k + 1 \in S
  <2>1. k + 1 \in 1..n /\ (k + 1) - 1 = k /\ k + 1 \in 0..n /\ k \in 0..n /\ k \in Nat
    BY <1>1
  <2> DEFINE op == run[k + 1]
  <2>2. op \in Ops /\ after[k] \in SUBSET Tasks /\ after[k + 1] = Reduced(after[k], op)
    BY <2>1, <1>1, <1>2 DEF Runs
  <2>3. /\ ~Moves(op, t) => (t \in after[k + 1] <=> t \in after[k])
        /\ Moves(op, t) => (t \in after[k + 1] <=> op.kind # "archive")
    <3> HIDE DEF op
    <3> QED
      BY <2>2 DEF Reduced, Ops, Moves
  <2>4. ASSUME \A j \in 1..k + 1 : ~Moves(run[j], t)
        PROVE  t \in after[k + 1] <=> t \in shown
    <3>1. ~Moves(op, t)
      BY <2>4, <2>1
    <3>2. \A j \in 1..k : ~Moves(run[j], t)
      BY <2>4, <2>1
    <3> QED
      BY <3>1, <3>2, <2>3, <1>4
  <2>5. ASSUME NEW j \in 1..k + 1, Moves(run[j], t), Is(j, k + 1)
        PROVE  t \in after[k + 1] <=> run[j].kind # "archive"
    <3>1. CASE j = k + 1
      BY <3>1, <2>3, <2>5
    <3>2. CASE j # k + 1
      <4>1. j \in 1..k /\ k + 1 \in 1..k + 1 /\ ~(k + 1 <= j)
        BY <3>2, <2>1
      <4>2. ~Moves(op, t)
        BY <4>1, <2>5
      <4>3. Is(j, k)
        BY <2>5, <2>1
      <4>4. t \in after[k] <=> run[j].kind # "archive"
        BY <4>1, <4>3, <2>5, <1>4
      <4> QED
        BY <4>2, <4>4, <2>3
    <3> QED
      BY <3>1, <3>2
  <2> QED
    BY <2>1, <2>4, <2>5
<1>5. n \in S
  <2> HIDE DEF S, n
  <2>1. \A k \in 0..n : k \in S
    BY <1>1, <1>3, <1>4, SegmentInduction
  <2> QED
    BY <2>1, <1>1
<1> QED
  BY <1>1, <1>2, <1>5

\* The last position of an operation on a task.
LEMMA LastMove ==
  ASSUME NEW run \in Seq(Ops), NEW t, NEW i \in DOMAIN run, Moves(run[i], t)
  PROVE  \E j \in DOMAIN run :
           Moves(run[j], t) /\ \A k \in DOMAIN run : Moves(run[k], t) => k <= j
<1> DEFINE S == {k \in DOMAIN run : Moves(run[k], t)}
<1>1. Len(run) \in Nat /\ DOMAIN run = 1..Len(run)
  OBVIOUS
<1>2. S \in SUBSET (0..Len(run)) /\ i \in S
  BY <1>1
<1>3. PICK j \in S : \A k \in S : k <= j
  <2> HIDE DEF S
  <2> QED
    BY <1>1, <1>2, GreatestNumber
<1> QED
  BY <1>3

\* Stores that agree on a task do so after the same operations.
LEMMA RunAgrees ==
  ASSUME NEW shown \in SUBSET Tasks, NEW other \in SUBSET Tasks, NEW run \in Seq(Ops),
         NEW t \in Tasks, t \in shown <=> t \in other
  PROVE  t \in ReducedAll(shown, run) <=> t \in ReducedAll(other, run)
<1>1. CASE \A k \in DOMAIN run : ~Moves(run[k], t)
  BY <1>1, RunShows
<1>2. CASE \E k \in DOMAIN run : Moves(run[k], t)
  <2>1. PICK j \in DOMAIN run :
          Moves(run[j], t) /\ \A k \in DOMAIN run : Moves(run[k], t) => k <= j
    BY <1>2, LastMove
  <2> QED
    BY <2>1, RunShows
<1> QED
  BY <1>1, <1>2

-----------------------------------------------------------------------------
(* The operations that a log lacks, and those that are tried again *)

\* No number twice.
Distinct(s) == \A p, q \in DOMAIN s : s[p] = s[q] => p = q

\* The numbers of r come in the order they have in s.
InOrder(r, s) ==
  \A i, j \in DOMAIN r : i < j =>
    \A p, q \in DOMAIN s : s[p] = r[i] /\ s[q] = r[j] => p < q

LEMMA MissingNumbers ==
  ASSUME TypeOK, NEW d \in Devices
  PROVE  /\ Missing(d) \in Seq(DOMAIN ops)
         /\ NumbersOf(Missing(d)) = DOMAIN ops \ NumbersOf(log[d])
         /\ \A p, q \in DOMAIN Missing(d) : p < q => Missing(d)[p] < Missing(d)[q]
<1> DEFINE all == [i \in DOMAIN ops |-> i]
           I == DOMAIN ops \ NumbersOf(log[d])
<1>1. ops \in Seq(Ops)
  BY DEF TypeOK
<1>2. DOMAIN ops = 1..Len(ops) /\ Len(ops) \in Nat
  BY <1>1
<1>3. all \in Seq(DOMAIN ops) /\ Len(all) = Len(ops)
  BY <1>2
<1>4. \A i \in 1..Len(ops) : all[i] = i
  BY <1>2
<1>5. I \intersect (1..Len(all)) = I
  BY <1>2, <1>3
<1>6. Missing(d) = Chosen(all, I)
  BY DEF Missing
<1> HIDE DEF all, I
<1> DEFINE R == [x \in DOMAIN ops |-> {y \in Nat : x < y}]
<1>7. \A i, j \in I \intersect (1..Len(all)) : i < j => all[j] \in R[all[i]]
  BY <1>2, <1>3, <1>4
<1>8. \A p, q \in 1..Len(Chosen(all, I)) : p < q => Chosen(all, I)[q] \in R[Chosen(all, I)[p]]
  <2> HIDE DEF R
  <2> QED
    BY <1>3, <1>7, ChosenInOrder
<1>9. /\ Chosen(all, I) \in Seq({all[i] : i \in I \intersect (1..Len(all))})
      /\ Chosen(all, I) \in Seq(DOMAIN ops)
      /\ \A i \in I \intersect (1..Len(all)) :
           \E j \in 1..Len(Chosen(all, I)) : Chosen(all, I)[j] = all[i]
  <2>1. all \in Seq(DOMAIN ops)
    BY <1>3
  <2> QED
    BY <2>1, ChosenElements
<1>10. {all[i] : i \in I \intersect (1..Len(all))} = I
  <2>1. \A i \in I : i \in 1..Len(ops)
    BY <1>5, <1>3
  <2> QED
    BY <2>1, <1>4, <1>5
<1> DEFINE c == Chosen(all, I)
<1>11. DOMAIN c = 1..Len(c)
  BY <1>9
<1> HIDE DEF c
<1>12. NumbersOf(c) = I
  <2>1. \A k \in DOMAIN c : c[k] \in I
    BY <1>9, <1>10, <1>11, ElementOfSeq DEF c
  <2>2. \A i \in I : \E k \in DOMAIN c : c[k] = i
    <3>1. \A i \in I : i \in I \intersect (1..Len(all)) /\ all[i] = i
      BY <1>5, <1>3, <1>4
    <3> QED
      BY <3>1, <1>9, <1>11 DEF c
  <2> QED
    BY <2>1, <2>2 DEF NumbersOf
<1>13. \A p, q \in DOMAIN c : p < q => c[p] < c[q]
  <2>1. \A p \in DOMAIN c : c[p] \in DOMAIN ops
    BY <1>9, <1>11, ElementOfSeq DEF c
  <2>2. \A p, q \in DOMAIN c : p < q => c[q] \in R[c[p]]
    BY <1>8, <1>11 DEF c
  <2> QED
    BY <2>1, <2>2
<1> QED
  BY <1>6, <1>9, <1>12, <1>13 DEF c, I

LEMMA RetriedNumbers ==
  ASSUME TypeOK, NEW d \in Devices
  PROVE  /\ Retried(d) \in Seq(DOMAIN ops)
         /\ NumbersOf(Retried(d)) = failed[d]
         /\ Distinct(log[d]) => InOrder(Retried(d), log[d])
<1> DEFINE s == log[d]
           I == {k \in DOMAIN log[d] : log[d][k] \in failed[d]}
           c == Chosen(s, I)
<1>1. s \in Seq(DOMAIN ops) /\ failed[d] \subseteq NumbersOf(s)
  BY DEF TypeOK
<1>2. DOMAIN s = 1..Len(s) /\ Len(s) \in Nat
  BY <1>1
<1>3. I \intersect (1..Len(s)) = I
  BY <1>2
<1>4. Retried(d) = c
  BY DEF Retried
<1>5. /\ c \in Seq({s[i] : i \in I \intersect (1..Len(s))})
      /\ c \in Seq(DOMAIN ops)
      /\ \A i \in I \intersect (1..Len(s)) : \E j \in 1..Len(c) : c[j] = s[i]
  <2> HIDE DEF s, I
  <2> QED
    BY <1>1, ChosenElements
<1>6. {s[i] : i \in I \intersect (1..Len(s))} = failed[d]
  <2>1. {s[i] : i \in I} \subseteq failed[d]
    OBVIOUS
  <2>2. ASSUME NEW x \in failed[d]
        PROVE  x \in {s[i] : i \in I}
    BY <1>1 DEF NumbersOf
  <2>3. {s[i] : i \in I} = failed[d]
    BY <2>1, <2>2
  <2> HIDE DEF s, I
  <2> QED
    BY <1>3, <2>3
<1>7. ASSUME Distinct(s)
      PROVE  InOrder(c, s)
  <2> DEFINE R == [x \in DOMAIN ops |->
                    {y \in DOMAIN ops : \A p, q \in DOMAIN s : s[p] = x /\ s[q] = y => p < q}]
  <2>1. \A i, j \in I \intersect (1..Len(s)) : i < j => s[j] \in R[s[i]]
    <3> SUFFICES ASSUME NEW i \in I, NEW j \in I, i < j
                 PROVE  s[j] \in R[s[i]]
      OBVIOUS
    <3>1. s[i] \in DOMAIN ops /\ s[j] \in DOMAIN ops /\ i \in DOMAIN s /\ j \in DOMAIN s
      BY <1>1, <1>2, ElementOfSeq
    <3>2. \A p, q \in DOMAIN s : s[p] = s[i] /\ s[q] = s[j] => p < q
      BY <3>1, <1>7 DEF Distinct
    <3>3. s[j] \in {y \in DOMAIN ops : \A p, q \in DOMAIN s : s[p] = s[i] /\ s[q] = y => p < q}
      BY <3>1, <3>2
    <3> QED
      BY <3>1, <3>3
  <2>2. \A p, q \in 1..Len(c) : p < q => c[q] \in R[c[p]]
    <3> HIDE DEF s, I, R
    <3> QED
      BY <1>1, <2>1, ChosenInOrder
  <2>3. DOMAIN c = 1..Len(c)
    <3> HIDE DEF c
    <3> QED
      BY <1>5
  <2>4. \A p \in DOMAIN c : c[p] \in DOMAIN ops
    <3> HIDE DEF c
    <3> QED
      BY <1>5, <2>3, ElementOfSeq
  <2> HIDE DEF c, s
  <2> QED
    BY <2>2, <2>3, <2>4 DEF InOrder
<1>8. NumbersOf(c) = failed[d]
  <2> HIDE DEF c
  <2>1. DOMAIN c = 1..Len(c)
    BY <1>5
  <2>2. c \in Seq(failed[d])
    <3> HIDE DEF s, I
    <3> QED
      BY <1>5, <1>6
  <2>3. NumbersOf(c) \subseteq failed[d]
    BY <2>2, NumbersInDomain
  <2>4. ASSUME NEW x \in failed[d]
        PROVE  x \in NumbersOf(c)
    <3>1. x \in {s[i] : i \in I \intersect (1..Len(s))}
      <4> HIDE DEF s, I
      <4> QED
        BY <1>6
    <3>2. PICK i \in I \intersect (1..Len(s)) : x = s[i]
      BY <3>1
    <3>3. PICK j \in 1..Len(c) : c[j] = s[i]
      BY <1>5
    <3> QED
      BY <3>2, <3>3, <2>1 DEF NumbersOf
  <2> QED
    BY <2>3, <2>4
<1> QED
  BY <1>4, <1>5, <1>7, <1>8

-----------------------------------------------------------------------------
(* The types: TypeOK, and what makes it inductive *)

TypeInv ==
  /\ TypeOK
  /\ \A d \in Devices : NumbersOf(batch[d].left) \subseteq NumbersOf(log[d])
  /\ \A d \in Devices : job[d]["replay"] # Idle => batch[d].left # <<>>
  /\ \A d \in Devices, a \in Jobs : job[d][a].kind = "none" => job[d][a].pc = "rest"

LogsOK ==
  /\ ops \in Seq(Ops) /\ log \in [Devices -> Seq(DOMAIN ops)]

WaitingOK == waiting \in [Devices -> Seq(Ops)]

FailedOK ==
  /\ failed \in [Devices -> SUBSET DOMAIN ops]
  /\ \A d \in Devices : failed[d] \subseteq NumbersOf(log[d])

SetsOK ==
  /\ live \in [Devices -> SUBSET Tasks] /\ young \in [Devices -> SUBSET Tasks]
  /\ old \in [Devices -> SUBSET Tasks] /\ exposed \in [Devices -> SUBSET Tasks]

JobsOK ==
  /\ job \in [Devices -> [Jobs -> JobStates]]
  /\ \A d \in Devices, a \in Jobs : job[d][a].kind = "none" => job[d][a].pc = "rest"

QueuesOK == queue \in [Devices -> Seq(Tasks)]

Batches(n) == [all : Seq(n), left : Seq(n)]

BatchesOK ==
  /\ batch \in [Devices -> Batches(DOMAIN ops)]
  /\ \A d \in Devices : NumbersOf(batch[d].left) \subseteq NumbersOf(log[d])

ReplayOK == \A d \in Devices : job[d]["replay"] # Idle => batch[d].left # <<>>

SpentOK ==
  spent \in [made : 0..MaxOps, restarts : 0..MaxRestarts, failures : 0..MaxFailures]

LEMMA TypeParts ==
  TypeInv <=> /\ LogsOK /\ WaitingOK /\ FailedOK /\ SetsOK /\ JobsOK /\ QueuesOK
              /\ BatchesOK /\ ReplayOK /\ SpentOK
BY DEF TypeInv, TypeOK, LogsOK, WaitingOK, FailedOK, SetsOK, JobsOK, QueuesOK, BatchesOK, ReplayOK, SpentOK,
       Batches

LEMMA DeviceTypes ==
  ASSUME TypeInv, NEW d \in Devices
  PROVE  /\ live[d] \in SUBSET Tasks /\ young[d] \in SUBSET Tasks
         /\ old[d] \in SUBSET Tasks /\ exposed[d] \in SUBSET Tasks
         /\ log[d] \in Seq(DOMAIN ops) /\ waiting[d] \in Seq(Ops) /\ queue[d] \in Seq(Tasks)
         /\ batch[d].all \in Seq(DOMAIN ops) /\ batch[d].left \in Seq(DOMAIN ops)
         /\ batch[d] = [all |-> batch[d].all, left |-> batch[d].left]
         /\ \A a \in Jobs : job[d][a] \in JobStates
         /\ failed[d] \subseteq NumbersOf(log[d]) /\ NumbersOf(batch[d].left) \subseteq NumbersOf(log[d])
<1>1. batch[d] \in Batches(DOMAIN ops)
  BY TypeParts DEF BatchesOK
<1>2. /\ batch[d].all \in Seq(DOMAIN ops) /\ batch[d].left \in Seq(DOMAIN ops)
      /\ batch[d] = [all |-> batch[d].all, left |-> batch[d].left]
  BY <1>1 DEF Batches
<1> QED
  BY <1>2, TypeParts DEF LogsOK, WaitingOK, FailedOK, SetsOK, JobsOK, QueuesOK, BatchesOK

LEMMA OpTypes ==
  ASSUME LogsOK
  PROVE  /\ DOMAIN ops = 1..Len(ops) /\ Len(ops) \in Nat
         /\ \A i \in DOMAIN ops : ops[i] \in Ops
<1>1. ops \in Seq(Ops)
  BY DEF LogsOK
<1>2. DOMAIN ops = 1..Len(ops) /\ Len(ops) \in Nat
  BY <1>1
<1> QED
  BY <1>1, <1>2, ElementOfSeq

\* A row gets the next number.
Row(d, op) == ops' = Append(ops, op) /\ log' = [log EXCEPT ![d] = Append(@, Len(ops'))]

LEMMA RowTypes ==
  ASSUME LogsOK, NEW d \in Devices, NEW op \in Ops, Row(d, op)
  PROVE  /\ LogsOK' /\ OpsGrow
         /\ Len(ops) + 1 \in Nat /\ Len(ops) + 1 \notin DOMAIN ops
         /\ DOMAIN ops' = DOMAIN ops \union {Len(ops) + 1}
         /\ ops'[Len(ops) + 1] = op
         /\ log'[d] = Append(log[d], Len(ops) + 1)
         /\ \A e \in Devices : /\ e # d => log'[e] = log[e]
                               /\ NumbersOf(log[e]) \subseteq NumbersOf(log'[e])
<1>1. ops \in Seq(Ops) /\ log \in [Devices -> Seq(DOMAIN ops)]
  BY DEF LogsOK
<1>2. DOMAIN ops = 1..Len(ops) /\ Len(ops) \in Nat
  BY <1>1
<1>3. ops' = Append(ops, op) /\ log' = [log EXCEPT ![d] = Append(@, Len(ops'))]
  BY DEF Row
<1>4. /\ Append(ops, op) \in Seq(Ops) /\ Len(Append(ops, op)) = Len(ops) + 1
      /\ Append(ops, op)[Len(ops) + 1] = op
      /\ \A i \in 1..Len(ops) : Append(ops, op)[i] = ops[i]
      /\ DOMAIN Append(ops, op) = 1..Len(ops) + 1
  BY <1>1, AppendProperties
<1> DEFINE n == Len(ops) + 1
<1>5. /\ ops' \in Seq(Ops) /\ Len(ops') = n /\ ops'[n] = op
      /\ \A i \in 1..Len(ops) : ops'[i] = ops[i]
      /\ DOMAIN ops' = 1..n
  BY <1>3, <1>4
<1>6. /\ n \in Nat /\ n \notin DOMAIN ops /\ DOMAIN ops' = DOMAIN ops \union {n}
      /\ n \in DOMAIN ops'
  BY <1>2, <1>5
<1>7. OpsGrow
  BY <1>2, <1>5, <1>6 DEF OpsGrow
<1> DEFINE N == DOMAIN ops'
<1>8. \A e \in Devices : log[e] \in Seq(N)
  <2>1. DOMAIN ops \subseteq N
    BY <1>6
  <2>2. \A e \in Devices : log[e] \in Seq(DOMAIN ops)
    BY <1>1
  <2> HIDE DEF N
  <2> QED
    BY <2>1, <2>2
<1>9. log'[d] = Append(log[d], n) /\ \A e \in Devices : e # d => log'[e] = log[e]
  BY <1>1, <1>3, <1>5
<1>10. log' \in [Devices -> Seq(N)] /\ NumbersOf(log[d]) \subseteq NumbersOf(log'[d])
  <2>1. n \in N
    BY <1>6
  <2> HIDE DEF N, n
  <2>2. Append(log[d], n) \in Seq(N)
    BY <2>1, <1>8
  <2>3. log' = [log EXCEPT ![d] = Append(log[d], n)]
    BY <1>3, <1>5
  <2>4. NumbersOf(Append(log[d], n)) = NumbersOf(log[d]) \union {n}
    BY <2>1, <1>8, NumbersOfAppend
  <2> QED
    BY <1>1, <1>8, <1>9, <2>2, <2>3, <2>4
<1>11. LogsOK'
  BY <1>5, <1>10 DEF LogsOK
<1> QED
  BY <1>5, <1>6, <1>7, <1>9, <1>10, <1>11

\* What depends on the operations only through their numbers.
LEMMA GrowTypes ==
  ASSUME TypeInv, OpsGrow,
         \A e \in Devices : NumbersOf(log[e]) \subseteq NumbersOf(log'[e])
  PROVE  /\ failed' = failed => FailedOK'
         /\ batch' = batch => BatchesOK'
         /\ batch' = batch /\ job' = job => ReplayOK'
<1>1. FailedOK /\ BatchesOK /\ ReplayOK
  BY TypeParts
<1>2. DOMAIN ops \subseteq DOMAIN ops'
  BY DEF OpsGrow
<1>3. ASSUME failed' = failed
      PROVE  FailedOK'
  BY <1>1, <1>2, <1>3 DEF FailedOK
<1>4. ASSUME batch' = batch
      PROVE  BatchesOK'
  <2> DEFINE N == DOMAIN ops'
  <2>1. Seq(DOMAIN ops) \subseteq Seq(N)
    <3> HIDE DEF N
    <3> QED
      BY <1>2 DEF N
  <2>2. Batches(DOMAIN ops) \subseteq Batches(N)
    <3> HIDE DEF N
    <3> QED
      BY <2>1 DEF Batches
  <2>3. batch \in [Devices -> Batches(N)]
    <3> HIDE DEF N
    <3> QED
      BY <1>1, <2>2 DEF BatchesOK
  <2> QED
    BY <1>1, <1>4, <2>3 DEF BatchesOK
<1>5. batch' = batch /\ job' = job => ReplayOK'
  BY <1>1 DEF ReplayOK
<1> QED
  BY <1>3, <1>4, <1>5

LEMMA IdleType == Idle \in JobStates
BY DEF Idle, JobStates

LEMMA StartedType ==
  ASSUME NEW kind \in {"archive", "delete", "flush"}, NEW tasks \in SUBSET Tasks
  PROVE  Started(kind, tasks) \in JobStates /\ Started(kind, tasks).kind # "none"
BY DEF Started, JobStates

\* One job of a device changes.
OnlyJob(d, a, j) ==
  /\ job'[d][a] = j
  /\ \A b \in Jobs : b # a => job'[d][b] = job[d][b]
  /\ \A e \in Devices : e # d => job'[e] = job[e]

LEMMA JobChange ==
  ASSUME JobsOK, NEW d \in Devices, NEW a \in Jobs, NEW j \in JobStates,
         j.kind = "none" => j.pc = "rest",
         job' = [job EXCEPT ![d][a] = j]
  PROVE  JobsOK' /\ OnlyJob(d, a, j)
<1>1. job \in [Devices -> [Jobs -> JobStates]]
  BY DEF JobsOK
<1>2. job' \in [Devices -> [Jobs -> JobStates]]
  BY <1>1
<1>3. /\ job'[d][a] = j
      /\ \A b \in Jobs : b # a => job'[d][b] = job[d][b]
      /\ \A e \in Devices : e # d => job'[e] = job[e]
  BY <1>1
<1> QED
  BY <1>2, <1>3 DEF JobsOK, OnlyJob

\* A job ends.
LEMMA LeaveTypes ==
  ASSUME TypeInv, NEW d \in Devices, NEW a \in Jobs, NEW left \in Seq(DOMAIN ops),
         NumbersOf(left) \subseteq NumbersOf(log[d]), Leave(d, a, left), OpsGrow,
         \A e \in Devices : NumbersOf(log[e]) \subseteq NumbersOf(log'[e])
  PROVE  JobsOK' /\ BatchesOK' /\ FailedOK' /\ ReplayOK'
<1>1. LogsOK /\ FailedOK /\ JobsOK /\ BatchesOK /\ ReplayOK
  BY TypeParts
<1>2. job' = [job EXCEPT ![d][a] = Idle]
  BY DEF Leave
<1>3. Idle \in JobStates /\ (Idle.kind = "none" => Idle.pc = "rest")
  BY IdleType DEF Idle
<1>4. /\ JobsOK' /\ job'[d][a] = Idle
      /\ \A b \in Jobs : b # a => job'[d][b] = job[d][b]
      /\ \A e \in Devices : e # d => job'[e] = job[e]
  <2>1. JobsOK' /\ OnlyJob(d, a, Idle)
    BY <1>1, <1>2, <1>3, JobChange
  <2> QED
    BY <2>1 DEF OnlyJob
<1>5. "replay" \in Jobs
  BY DEF Jobs
<1>6. \A e \in Devices : job'[e]["replay"] # Idle => job'[e]["replay"] = job[e]["replay"]
  BY <1>4, <1>5
<1>7. DOMAIN ops \subseteq DOMAIN ops'
  BY DEF OpsGrow
<1> DEFINE N == DOMAIN ops'
<1>8. Seq(DOMAIN ops) \subseteq Seq(N)
  <2> HIDE DEF N
  <2> QED
    BY <1>7 DEF N
<1>9. Batches(DOMAIN ops) \subseteq Batches(N)
  <2> HIDE DEF N
  <2> QED
    BY <1>8 DEF Batches
<1>10. CASE a # "replay"
  <2>1. UNCHANGED <<batch, failed>>
    BY <1>10 DEF Leave
  <2> QED
    BY <1>1, <1>4, <1>6, <2>1, GrowTypes DEF ReplayOK
<1>11. CASE a = "replay" /\ left # <<>>
  <2>1. batch' = [batch EXCEPT ![d].left = left] /\ failed' = failed
    BY <1>11 DEF Leave
  <2>2. batch \in [Devices -> Batches(DOMAIN ops)]
    BY <1>1 DEF BatchesOK
  <2> DEFINE b == [batch[d] EXCEPT !.left = left]
  <2>3. b \in Batches(DOMAIN ops) /\ b.left = left
    BY <2>2 DEF Batches
  <2>4. batch' = [batch EXCEPT ![d] = b]
    BY <2>1
  <2> HIDE DEF b, N
  <2>5. batch' \in [Devices -> Batches(N)] /\ batch'[d] = b
        /\ \A e \in Devices : e # d => batch'[e] = batch[e]
    BY <1>9, <2>2, <2>3, <2>4
  <2>6. BatchesOK'
    BY <1>1, <2>3, <2>5 DEF BatchesOK, N
  <2>7. ReplayOK'
    BY <1>1, <1>6, <1>11, <2>3, <2>5 DEF ReplayOK
  <2> QED
    BY <1>4, <2>1, <2>6, <2>7, GrowTypes
<1>12. CASE a = "replay" /\ left = <<>>
  <2>1. /\ batch' = [batch EXCEPT ![d] = NoBatch]
        /\ failed' = [failed EXCEPT ![d] = @ \ NumbersOf(batch[d].all)]
    BY <1>12 DEF Leave
  <2>2. NoBatch \in Batches(N) /\ NumbersOf(NoBatch.left) = {}
    BY NoNumbers DEF NoBatch, Batches
  <2>3. batch \in [Devices -> Batches(N)]
    <3> HIDE DEF N
    <3> QED
      BY <1>1, <1>9 DEF BatchesOK
  <2> HIDE DEF N
  <2>4. batch' \in [Devices -> Batches(N)] /\ batch'[d] = NoBatch
        /\ \A e \in Devices : e # d => batch'[e] = batch[e]
    BY <2>1, <2>2, <2>3
  <2>5. BatchesOK'
    BY <1>1, <2>2, <2>4 DEF BatchesOK, N
  <2>6. \A e \in Devices : failed'[e] \subseteq failed[e]
    BY <1>1, <2>1 DEF FailedOK
  <2>7. FailedOK'
    BY <1>1, <1>7, <2>1, <2>6 DEF FailedOK
  <2>8. ReplayOK'
    BY <1>1, <1>4, <1>6, <1>12, <2>4 DEF ReplayOK
  <2> QED
    BY <1>4, <2>5, <2>7, <2>8
<1> QED
  BY <1>10, <1>11, <1>12

-----------------------------------------------------------------------------
(* Every action keeps the types *)

\* Steps that leave the operations and logs alone.
LEMMA SameOps ==
  ASSUME ops' = ops, log' = log
  PROVE  OpsGrow /\ \A e \in Devices : NumbersOf(log[e]) \subseteq NumbersOf(log'[e])
BY DEF OpsGrow

LEMMA SameLogs ==
  ASSUME TypeInv, ops' = ops, log' = log
  PROVE  LogsOK'
BY TypeParts DEF LogsOK

\* What a step exposes.
LEMMA ExposingTypes ==
  ASSUME SetsOK, NEW d \in Devices, NEW here \in SUBSET Tasks, NEW everywhere \in SUBSET Tasks,
         Exposing(d, here, everywhere)
  PROVE  /\ exposed' \in [Devices -> SUBSET Tasks]
         /\ here \subseteq exposed'[d]
         /\ \A e \in Devices : exposed[e] \subseteq exposed'[e]
BY DEF SetsOK, Exposing

\* An operation is dispatched.
LEMMA DispatchedTypes ==
  ASSUME TypeInv, NEW d \in Devices, NEW op \in Ops, Dispatched(d, op)
  PROVE  /\ LogsOK' /\ WaitingOK' /\ SpentOK'
         /\ waiting'[d] = Append(waiting[d], op)
         /\ \A e \in Devices : e # d => waiting'[e] = waiting[e]
         /\ exposed' \in [Devices -> SUBSET Tasks]
         /\ Contested(d, op.tasks) \subseteq exposed'[d]
         /\ \A e \in Devices : exposed[e] \subseteq exposed'[e]
<1>1. /\ spent.made < MaxOps /\ spent' = [spent EXCEPT !.made = @ + 1]
      /\ waiting' = [waiting EXCEPT ![d] = Append(@, op)]
      /\ Exposing(d, Contested(d, op.tasks), op.tasks \intersect Strayed(d))
      /\ ops' = ops /\ log' = log
  BY DEF Dispatched
<1>2. op.tasks \in SUBSET Tasks
  BY DEF Ops
<1>3. Contested(d, op.tasks) \in SUBSET Tasks /\ op.tasks \intersect Strayed(d) \in SUBSET Tasks
  BY <1>2 DEF Contested
<1>4. SetsOK
  BY TypeParts
<1>5. /\ exposed' \in [Devices -> SUBSET Tasks]
      /\ Contested(d, op.tasks) \subseteq exposed'[d]
      /\ \A e \in Devices : exposed[e] \subseteq exposed'[e]
  BY <1>1, <1>3, <1>4, ExposingTypes
<1>6. LogsOK'
  BY <1>1, SameLogs
<1>7. SpentOK'
  <2>1. spent \in [made : 0..MaxOps, restarts : 0..MaxRestarts, failures : 0..MaxFailures]
    BY TypeParts DEF SpentOK
  <2>2. spent.made + 1 \in 0..MaxOps
    BY <1>1, <2>1, BoundsAssumption
  <2> QED
    BY <1>1, <2>1, <2>2 DEF SpentOK
<1>8. waiting \in [Devices -> Seq(Ops)]
  BY TypeParts DEF WaitingOK
<1>9. Append(waiting[d], op) \in Seq(Ops)
  BY <1>8
<1>10. /\ WaitingOK' /\ waiting'[d] = Append(waiting[d], op)
       /\ \A e \in Devices : e # d => waiting'[e] = waiting[e]
  BY <1>1, <1>8, <1>9 DEF WaitingOK
<1> QED
  BY <1>5, <1>6, <1>7, <1>10

\* The first operation that waits is done with, and no failure beyond the bound.
LEMMA TakenTypes ==
  ASSUME TypeInv, NEW d \in Devices, waiting[d] # <<>>,
         waiting' = [waiting EXCEPT ![d] = Tail(@)]
  PROVE  /\ WaitingOK' /\ Head(waiting[d]) \in Ops /\ waiting'[d] = Tail(waiting[d])
         /\ \A e \in Devices : e # d => waiting'[e] = waiting[e]
<1>1. waiting \in [Devices -> Seq(Ops)]
  BY TypeParts DEF WaitingOK
<1>2. Head(waiting[d]) \in Ops /\ Tail(waiting[d]) \in Seq(Ops)
  BY <1>1, TailPositions
<1> QED
  BY <1>1, <1>2 DEF WaitingOK

LEMMA FailureTypes ==
  ASSUME TypeInv, spent.failures < MaxFailures, spent' = [spent EXCEPT !.failures = @ + 1]
  PROVE  SpentOK'
<1>1. MaxFailures \in Nat /\ MaxRestarts \in Nat /\ MaxOps \in Nat
  BY BoundsAssumption
<1>2. spent \in [made : 0..MaxOps, restarts : 0..MaxRestarts, failures : 0..MaxFailures]
  BY TypeParts DEF SpentOK
<1>3. spent.failures + 1 \in 0..MaxFailures
  BY <1>1, <1>2
<1> QED
  BY <1>2, <1>3 DEF SpentOK

LEMMA CreateType ==
  ASSUME TypeInv, NEW d \in Devices, NEW t \in Tasks, Create(d, t)
  PROVE  TypeInv'
<1> DEFINE op == [kind |-> "create", tasks |-> {t}]
<1>1. op \in Ops
  BY DEF Ops
<1>2. /\ Dispatched(d, op) /\ live' = [live EXCEPT ![d] = @ \union {t}]
      /\ UNCHANGED <<failed, young, old, job, queue, batch>>
  BY DEF Create
<1>3. ops' = ops /\ log' = log
  BY <1>2 DEF Dispatched
<1> HIDE DEF op
<1>4. LogsOK' /\ WaitingOK' /\ SpentOK' /\ exposed' \in [Devices -> SUBSET Tasks]
  BY <1>1, <1>2, DispatchedTypes
<1>5. FailedOK' /\ BatchesOK' /\ ReplayOK'
  BY <1>2, <1>3, SameOps, GrowTypes
<1>6. SetsOK'
  BY <1>2, <1>4, TypeParts DEF SetsOK
<1>7. JobsOK' /\ QueuesOK'
  BY <1>2, TypeParts DEF JobsOK, QueuesOK
<1> QED
  BY <1>4, <1>5, <1>6, <1>7, TypeParts, PTL

LEMMA RestoreTaskType ==
  ASSUME TypeInv, NEW d \in Devices, NEW t \in Tasks, RestoreTask(d, t)
  PROVE  TypeInv'
<1> DEFINE op == [kind |-> "restore", tasks |-> {t}]
<1>1. op \in Ops
  BY DEF Ops
<1>2. /\ Dispatched(d, op) /\ live' = [live EXCEPT ![d] = @ \union {t}]
      /\ queue' = [queue EXCEPT ![d] = Append(@, t)]
      /\ UNCHANGED <<failed, young, old, job, batch>>
  BY DEF RestoreTask
<1>3. ops' = ops /\ log' = log
  BY <1>2 DEF Dispatched
<1> HIDE DEF op
<1>4. LogsOK' /\ WaitingOK' /\ SpentOK' /\ exposed' \in [Devices -> SUBSET Tasks]
  BY <1>1, <1>2, DispatchedTypes
<1>5. FailedOK' /\ BatchesOK' /\ ReplayOK'
  BY <1>2, <1>3, SameOps, GrowTypes
<1>6. SetsOK'
  BY <1>2, <1>4, TypeParts DEF SetsOK
<1>7. JobsOK'
  BY <1>2, TypeParts DEF JobsOK
<1>8. QueuesOK'
  <2>1. queue \in [Devices -> Seq(Tasks)]
    BY TypeParts DEF QueuesOK
  <2>2. Append(queue[d], t) \in Seq(Tasks)
    BY <2>1
  <2> QED
    BY <1>2, <2>1, <2>2 DEF QueuesOK
<1> QED
  BY <1>4, <1>5, <1>6, <1>7, <1>8, TypeParts, PTL

LEMMA MoveToArchiveType ==
  ASSUME TypeInv, NEW d \in Devices, NEW tasks \in SUBSET Tasks, MoveToArchive(d, tasks)
  PROVE  TypeInv'
<1> DEFINE op == [kind |-> "archive", tasks |-> tasks]
           j == Started("archive", tasks)
<1>1. op \in Ops
  BY DEF Ops
<1>2. /\ Dispatched(d, op) /\ live' = [live EXCEPT ![d] = @ \ tasks]
      /\ job' = [job EXCEPT ![d]["service"] = j]
      /\ UNCHANGED <<failed, young, old, queue, batch>>
  BY DEF MoveToArchive
<1>3. j \in JobStates /\ (j.kind = "none" => j.pc = "rest") /\ "service" \in Jobs
  BY StartedType DEF Jobs
<1>4. ops' = ops /\ log' = log
  BY <1>2 DEF Dispatched
<1> HIDE DEF op, j
<1>5. LogsOK' /\ WaitingOK' /\ SpentOK' /\ exposed' \in [Devices -> SUBSET Tasks]
  BY <1>1, <1>2, DispatchedTypes
<1>6. FailedOK' /\ BatchesOK'
  BY <1>2, <1>4, SameOps, GrowTypes
<1>7. SetsOK'
  BY <1>2, <1>5, TypeParts DEF SetsOK
<1>8. QueuesOK'
  BY <1>2, TypeParts DEF QueuesOK
<1>9. JobsOK' /\ OnlyJob(d, "service", j)
  BY <1>2, <1>3, JobChange, TypeParts
<1>10. ReplayOK'
  <2>1. \A e \in Devices : job'[e]["replay"] = job[e]["replay"]
    BY <1>9 DEF OnlyJob, Jobs
  <2> QED
    BY <2>1, <1>2, TypeParts DEF ReplayOK
<1> QED
  BY <1>5, <1>6, <1>7, <1>8, <1>9, <1>10, TypeParts, PTL

LEMMA WriteRowType ==
  ASSUME TypeInv, NEW d \in Devices, WriteRow(d)
  PROVE  TypeInv'
<1> DEFINE op == Head(waiting[d])
<1>1. /\ waiting[d] # <<>> /\ waiting' = [waiting EXCEPT ![d] = Tail(@)] /\ Row(d, op)
      /\ UNCHANGED <<failed, live, young, old, job, queue, batch, spent, exposed>>
  BY DEF WriteRow, Row
<1>2. WaitingOK' /\ op \in Ops
  BY <1>1, TakenTypes
<1> HIDE DEF op
<1>3. LogsOK' /\ OpsGrow /\ \A e \in Devices : NumbersOf(log[e]) \subseteq NumbersOf(log'[e])
  BY <1>1, <1>2, RowTypes, TypeParts
<1>4. FailedOK' /\ BatchesOK' /\ ReplayOK'
  BY <1>1, <1>3, GrowTypes
<1>5. SetsOK' /\ JobsOK' /\ QueuesOK' /\ SpentOK'
  BY <1>1, TypeParts DEF SetsOK, JobsOK, QueuesOK, SpentOK
<1> QED
  BY <1>2, <1>3, <1>4, <1>5, TypeParts, PTL

LEMMA RowFailsType ==
  ASSUME TypeInv, NEW d \in Devices, RowFails(d)
  PROVE  TypeInv'
<1> DEFINE lost == Head(waiting[d]).tasks
           twice == lost \intersect TasksOf(Tail(waiting[d]))
<1>1. /\ waiting[d] # <<>> /\ waiting' = [waiting EXCEPT ![d] = Tail(@)]
      /\ spent.failures < MaxFailures /\ spent' = [spent EXCEPT !.failures = @ + 1]
      /\ Exposing(d, lost, twice)
      /\ UNCHANGED <<ops, log, failed, live, young, old, job, queue, batch>>
  BY DEF RowFails
<1>2. WaitingOK' /\ Head(waiting[d]) \in Ops
  BY <1>1, TakenTypes
<1>3. lost \in SUBSET Tasks /\ twice \in SUBSET Tasks
  BY <1>2 DEF Ops
<1> HIDE DEF lost, twice
<1>4. exposed' \in [Devices -> SUBSET Tasks]
  BY <1>1, <1>3, ExposingTypes, TypeParts
<1>5. SetsOK'
  BY <1>1, <1>4, TypeParts DEF SetsOK
<1>6. SpentOK'
  BY <1>1, FailureTypes
<1>7. LogsOK' /\ FailedOK' /\ JobsOK' /\ QueuesOK' /\ BatchesOK' /\ ReplayOK'
  BY <1>1, TypeParts DEF LogsOK, FailedOK, JobsOK, QueuesOK, BatchesOK, ReplayOK
<1> QED
  BY <1>2, <1>5, <1>6, <1>7, TypeParts, PTL

LEMMA StartEffectType ==
  ASSUME TypeInv, NEW d \in Devices, StartEffect(d)
  PROVE  TypeInv'
<1> DEFINE j == Started("delete", {Head(queue[d])})
<1>1. /\ queue[d] # <<>> /\ job' = [job EXCEPT ![d]["effect"] = j]
      /\ queue' = [queue EXCEPT ![d] = Tail(@)]
      /\ UNCHANGED <<ops, waiting, log, failed, live, young, old, batch, spent, exposed>>
  BY DEF StartEffect
<1>2. queue \in [Devices -> Seq(Tasks)]
  BY TypeParts DEF QueuesOK
<1>3. Head(queue[d]) \in Tasks /\ Tail(queue[d]) \in Seq(Tasks)
  BY <1>1, <1>2, TailPositions
<1>4. j \in JobStates /\ (j.kind = "none" => j.pc = "rest") /\ "effect" \in Jobs
  BY <1>3, StartedType DEF Jobs
<1> HIDE DEF j
<1>5. JobsOK' /\ OnlyJob(d, "effect", j)
  BY <1>1, <1>4, JobChange, TypeParts
<1>6. ReplayOK'
  <2>1. \A e \in Devices : job'[e]["replay"] = job[e]["replay"]
    BY <1>5 DEF OnlyJob, Jobs
  <2> QED
    BY <2>1, <1>1, TypeParts DEF ReplayOK
<1>7. QueuesOK'
  BY <1>1, <1>2, <1>3 DEF QueuesOK
<1>8. LogsOK' /\ WaitingOK' /\ FailedOK' /\ SetsOK' /\ BatchesOK' /\ SpentOK'
  BY <1>1, TypeParts DEF LogsOK, WaitingOK, FailedOK, SetsOK, BatchesOK, SpentOK
<1> QED
  BY <1>5, <1>6, <1>7, <1>8, TypeParts, PTL

\* The next step of a job: what it holds changes, and perhaps the archives.
LEMMA ContinuedType ==
  ASSUME TypeInv, NEW d \in Devices, NEW a \in Jobs, NEW j \in JobStates, j.kind # "none",
         Continued(d, a, j), a = "replay" => batch[d].left # <<>>,
         young' \in [Devices -> SUBSET Tasks], old' \in [Devices -> SUBSET Tasks],
         exposed' \in [Devices -> SUBSET Tasks]
  PROVE  TypeInv'
<1>1. /\ job' = [job EXCEPT ![d][a] = j]
      /\ UNCHANGED <<ops, waiting, log, failed, live, queue, batch, spent>>
  BY DEF Continued
<1>2. JobsOK' /\ OnlyJob(d, a, j)
  BY <1>1, JobChange, TypeParts
<1>3. ReplayOK'
  <2>1. \A e \in Devices : e # d => job'[e]["replay"] = job[e]["replay"]
    BY <1>2 DEF OnlyJob
  <2>2. a # "replay" => job'[d]["replay"] = job[d]["replay"]
    BY <1>2 DEF OnlyJob, Jobs
  <2> QED
    BY <2>1, <2>2, <1>1, TypeParts DEF ReplayOK
<1>4. SetsOK'
  BY <1>1, TypeParts DEF SetsOK
<1>5. LogsOK' /\ WaitingOK' /\ FailedOK' /\ QueuesOK' /\ BatchesOK' /\ SpentOK'
  BY <1>1, TypeParts DEF LogsOK, WaitingOK, FailedOK, QueuesOK, BatchesOK, SpentOK
<1> QED
  BY <1>2, <1>3, <1>4, <1>5, TypeParts, PTL

LEMMA EndedType ==
  ASSUME TypeInv, NEW d \in Devices, NEW a \in Jobs,
         Ended(d, a), a = "replay" => batch[d].left # <<>>,
         young' \in [Devices -> SUBSET Tasks], old' \in [Devices -> SUBSET Tasks],
         exposed' \in [Devices -> SUBSET Tasks]
  PROVE  TypeInv'
<1> DEFINE left == IF a = "replay" THEN Tail(batch[d].left) ELSE <<>>
<1>1. Leave(d, a, left) /\ UNCHANGED <<ops, waiting, log, live, queue, spent>>
  BY DEF Ended
<1>2. left \in Seq(DOMAIN ops) /\ NumbersOf(left) \subseteq NumbersOf(log[d])
  <2>1. batch[d].left \in Seq(DOMAIN ops) /\ NumbersOf(batch[d].left) \subseteq NumbersOf(log[d])
    BY DeviceTypes
  <2>2. CASE a = "replay"
    <3>1. batch[d].left # <<>>
      BY <2>2
    <3>2. Tail(batch[d].left) \in Seq(DOMAIN ops)
      BY <2>1, <3>1, TailPositions
    <3>3. NumbersOf(Tail(batch[d].left)) \subseteq NumbersOf(batch[d].left)
      BY <2>1, <3>1, NumbersOfTail
    <3> QED
      BY <2>1, <2>2, <3>2, <3>3
  <2>3. CASE a # "replay"
    BY <2>3, NoNumbers
  <2> QED
    BY <2>2, <2>3
<1> HIDE DEF left
<1>3. JobsOK' /\ BatchesOK' /\ FailedOK' /\ ReplayOK'
  BY <1>1, <1>2, LeaveTypes, SameOps
<1>4. SetsOK'
  BY <1>1, TypeParts DEF SetsOK
<1>5. LogsOK' /\ WaitingOK' /\ QueuesOK' /\ SpentOK'
  BY <1>1, TypeParts DEF LogsOK, WaitingOK, QueuesOK, SpentOK
<1> QED
  BY <1>3, <1>4, <1>5, TypeParts, PTL

LEMMA ArchiveTypes ==
  ASSUME TypeInv
  PROVE  /\ young \in [Devices -> SUBSET Tasks] /\ old \in [Devices -> SUBSET Tasks]
         /\ exposed \in [Devices -> SUBSET Tasks]
BY TypeParts DEF SetsOK

LEMMA WroteType ==
  ASSUME TypeInv, NEW d \in Devices, NEW a, NEW tasks \in SUBSET Tasks, Wrote(d, a, tasks)
  PROVE  exposed' \in [Devices -> SUBSET Tasks]
<1>1. Overwritten(d, a, tasks) \in SUBSET Tasks /\ {} \in SUBSET Tasks
  BY DEF Overwritten
<1> QED
  BY <1>1, ExposingTypes, TypeParts DEF Wrote

\* A job at a step has read operations and copies of the archives.
LEMMA JobTypes ==
  ASSUME TypeInv, NEW d \in Devices, NEW a \in Jobs
  PROVE  /\ job[d][a] \in JobStates
         /\ job[d][a].tasks \in SUBSET Tasks
         /\ job[d][a].young \in SUBSET Tasks /\ job[d][a].old \in SUBSET Tasks
         /\ job[d][a].pc # "rest" => /\ job[d][a].kind \in {"archive", "delete", "flush"}
                                     /\ a = "replay" => batch[d].left # <<>>
<1>1. job[d][a] \in JobStates /\ (job[d][a].kind = "none" => job[d][a].pc = "rest")
  BY TypeParts DEF JobsOK
<1>2. job[d][a].pc # "rest" => job[d][a] # Idle
  BY DEF Idle
<1> QED
  BY <1>1, <1>2, TypeParts DEF JobStates, ReplayOK

LEMMA StartSideEffectType ==
  ASSUME TypeInv, NEW d \in Devices, StartSideEffect(d)
  PROVE  TypeInv'
<1> DEFINE op == ops[Head(batch[d].left)]
<1>1. /\ batch[d].left # <<>> /\ UNCHANGED <<young, old, exposed>>
      /\ IF op.kind = "create" THEN Ended(d, "replay")
         ELSE Continued(d, "replay", Started(SideEffect[op.kind], op.tasks))
  BY DEF StartSideEffect
<1>2. /\ "replay" \in Jobs
      /\ young' \in [Devices -> SUBSET Tasks] /\ old' \in [Devices -> SUBSET Tasks]
      /\ exposed' \in [Devices -> SUBSET Tasks]
  BY <1>1, ArchiveTypes DEF Jobs
<1>3. op \in Ops
  <2>1. Head(batch[d].left) \in DOMAIN ops
    BY <1>1, DeviceTypes, TailPositions
  <2> QED
    BY <2>1, OpTypes, TypeParts
<1> HIDE DEF op
<1>4. CASE op.kind = "create"
  BY <1>1, <1>2, <1>4, EndedType
<1>5. CASE op.kind # "create"
  <2>1. op.kind \in {"archive", "restore", "flush"} /\ op.tasks \in SUBSET Tasks
    BY <1>3, <1>5 DEF Ops
  <2>2. SideEffect[op.kind] \in {"archive", "delete", "flush"}
    BY <2>1 DEF SideEffect
  <2>3. /\ Started(SideEffect[op.kind], op.tasks) \in JobStates
        /\ Started(SideEffect[op.kind], op.tasks).kind # "none"
    BY <2>1, <2>2, StartedType
  <2> QED
    BY <1>1, <1>2, <1>5, <2>3, ContinuedType
<1> QED
  BY <1>4, <1>5

LEMMA LoadYoungType ==
  ASSUME TypeInv, NEW d \in Devices, NEW a \in Jobs, LoadYoung(d, a)
  PROVE  TypeInv'
<1> DEFINE j == job[d][a]
           k == [j EXCEPT !.young = young[d], !.pc = AfterYoung(j, young[d])]
<1>1. j.pc = "loadYoung" /\ Continued(d, a, k) /\ UNCHANGED <<young, old, exposed>>
  BY DEF LoadYoung
<1>2. j \in JobStates /\ j.kind \in {"archive", "delete", "flush"} /\ young[d] \in SUBSET Tasks
  BY <1>1, JobTypes, DeviceTypes
<1>3. AfterYoung(j, young[d]) \in {"saveYoung", "loadOld"}
  <2> HIDE DEF j
  <2> QED
    BY <1>2 DEF AfterYoung
<1>4. k \in JobStates /\ k.kind # "none"
  <2> HIDE DEF j
  <2> QED
    BY <1>2, <1>3 DEF JobStates
<1>5. a = "replay" => batch[d].left # <<>>
  BY <1>1, JobTypes
<1> HIDE DEF j, k
<1> QED
  BY <1>1, <1>4, <1>5, ContinuedType, ArchiveTypes

LEMMA AddToYoungType ==
  ASSUME TypeInv, NEW d \in Devices, NEW a \in Jobs, AddToYoung(d, a)
  PROVE  TypeInv'
<1> DEFINE j == job[d][a]
           added == j.young \union j.tasks
           k == [j EXCEPT !.young = added, !.pc = "loadOld"]
<1>1. /\ j.pc = "saveYoung" /\ young' = [young EXCEPT ![d] = added] /\ old' = old
      /\ IF a = "service" THEN Continued(d, a, k) ELSE Ended(d, a)
      /\ Wrote(d, a, j.tasks)
  BY DEF AddToYoung, At
<1>2. /\ j \in JobStates /\ j.kind \in {"archive", "delete", "flush"}
      /\ added \in SUBSET Tasks /\ j.tasks \in SUBSET Tasks
      /\ (a = "replay" => batch[d].left # <<>>)
  BY <1>1, JobTypes
<1>3. k \in JobStates /\ k.kind # "none"
  <2> HIDE DEF j, added
  <2> QED
    BY <1>2 DEF JobStates
<1> HIDE DEF j, k, added
<1>4. /\ young' \in [Devices -> SUBSET Tasks] /\ old' \in [Devices -> SUBSET Tasks]
      /\ exposed' \in [Devices -> SUBSET Tasks]
  BY <1>1, <1>2, ArchiveTypes, WroteType
<1> QED
  BY <1>1, <1>2, <1>3, <1>4, ContinuedType, EndedType

LEMMA DeleteFromYoungType ==
  ASSUME TypeInv, NEW d \in Devices, NEW a \in Jobs, DeleteFromYoung(d, a)
  PROVE  TypeInv'
<1>1. /\ job[d][a].pc = "saveYoung" /\ old' = old /\ Ended(d, a)
      /\ young' = [young EXCEPT ![d] = job[d][a].young \ job[d][a].tasks]
      /\ Wrote(d, a, job[d][a].tasks)
  BY DEF DeleteFromYoung, At
<1>2. /\ job[d][a].young \in SUBSET Tasks /\ job[d][a].tasks \in SUBSET Tasks
      /\ (a = "replay" => batch[d].left # <<>>)
  BY <1>1, JobTypes
<1>3. /\ young' \in [Devices -> SUBSET Tasks] /\ old' \in [Devices -> SUBSET Tasks]
      /\ exposed' \in [Devices -> SUBSET Tasks]
  BY <1>1, <1>2, ArchiveTypes, WroteType
<1> QED
  BY <1>1, <1>2, <1>3, EndedType

LEMMA DeleteFromOldType ==
  ASSUME TypeInv, NEW d \in Devices, NEW a \in Jobs, DeleteFromOld(d, a)
  PROVE  TypeInv'
<1>1. /\ job[d][a].pc = "saveOld" /\ young' = young /\ Ended(d, a)
      /\ old' = [old EXCEPT ![d] = job[d][a].old \ job[d][a].tasks]
      /\ Wrote(d, a, job[d][a].tasks)
  BY DEF DeleteFromOld, At
<1>2. /\ job[d][a].old \in SUBSET Tasks /\ job[d][a].tasks \in SUBSET Tasks
      /\ (a = "replay" => batch[d].left # <<>>)
  BY <1>1, JobTypes
<1>3. /\ young' \in [Devices -> SUBSET Tasks] /\ old' \in [Devices -> SUBSET Tasks]
      /\ exposed' \in [Devices -> SUBSET Tasks]
  BY <1>1, <1>2, ArchiveTypes, WroteType
<1> QED
  BY <1>1, <1>2, <1>3, EndedType

LEMMA LoadOldType ==
  ASSUME TypeInv, NEW d \in Devices, NEW a \in Jobs, LoadOld(d, a)
  PROVE  TypeInv'
<1> DEFINE j == job[d][a]
           read(pc) == [j EXCEPT !.old = old[d], !.pc = pc]
<1>1. /\ j.pc = "loadOld" /\ UNCHANGED <<young, old, exposed>>
      /\ CASE j.kind = "archive" -> Ended(d, a) \/ Continued(d, a, read("flushYoung"))
           [] j.kind = "delete" -> Continued(d, a, read("saveOld"))
           [] j.kind = "flush" -> Continued(d, a, read("saveBoth"))
  BY DEF LoadOld
<1>2. /\ j \in JobStates /\ j.kind \in {"archive", "delete", "flush"}
      /\ old[d] \in SUBSET Tasks /\ (a = "replay" => batch[d].left # <<>>)
  BY <1>1, JobTypes, DeviceTypes
<1>3. \A pc \in {"flushYoung", "saveOld", "saveBoth"} :
        read(pc) \in JobStates /\ read(pc).kind # "none"
  <2> HIDE DEF j
  <2> QED
    BY <1>2 DEF JobStates
<1> HIDE DEF j, read
<1>4. /\ young' \in [Devices -> SUBSET Tasks] /\ old' \in [Devices -> SUBSET Tasks]
      /\ exposed' \in [Devices -> SUBSET Tasks]
  BY <1>1, ArchiveTypes
<1>5. CASE j.kind = "archive"
  <2>1. Ended(d, a) \/ Continued(d, a, read("flushYoung"))
    BY <1>1, <1>5
  <2> QED
    BY <2>1, <1>2, <1>3, <1>4, ContinuedType, EndedType
<1>6. CASE j.kind = "delete"
  <2>1. Continued(d, a, read("saveOld"))
    BY <1>1, <1>6
  <2> QED
    BY <2>1, <1>2, <1>3, <1>4, ContinuedType
<1>7. CASE j.kind = "flush"
  <2>1. Continued(d, a, read("saveBoth"))
    BY <1>1, <1>7
  <2> QED
    BY <2>1, <1>2, <1>3, <1>4, ContinuedType
<1> QED
  BY <1>2, <1>5, <1>6, <1>7

LEMMA FlushBothType ==
  ASSUME TypeInv, NEW d \in Devices, NEW a \in Jobs, FlushBoth(d, a)
  PROVE  TypeInv'
<1>1. /\ job[d][a].pc = "saveBoth" /\ Ended(d, a)
      /\ young' = [young EXCEPT ![d] = FlushedYoung(job[d][a])]
      /\ old' = [old EXCEPT ![d] = FlushedOld(job[d][a])]
      /\ Wrote(d, a, job[d][a].young \intersect Old)
  BY DEF FlushBoth, At
<1>2. /\ FlushedYoung(job[d][a]) \in SUBSET Tasks /\ FlushedOld(job[d][a]) \in SUBSET Tasks
      /\ job[d][a].young \intersect Old \in SUBSET Tasks
      /\ a = "replay" => batch[d].left # <<>>
  BY <1>1, JobTypes DEF FlushedYoung, FlushedOld
<1>3. /\ young' \in [Devices -> SUBSET Tasks] /\ old' \in [Devices -> SUBSET Tasks]
      /\ exposed' \in [Devices -> SUBSET Tasks]
  BY <1>1, <1>2, ArchiveTypes, WroteType
<1> QED
  BY <1>1, <1>2, <1>3, EndedType

LEMMA FlushYoungType ==
  ASSUME TypeInv, NEW d \in Devices, FlushYoung(d)
  PROVE  TypeInv'
<1> DEFINE j == job[d]["service"]
           k == [j EXCEPT !.pc = "flushOld"]
<1>1. /\ j.pc = "flushYoung" /\ old' = old /\ Continued(d, "service", k)
      /\ young' = [young EXCEPT ![d] = FlushedYoung(j)]
      /\ Wrote(d, "service", j.young \intersect Old)
  BY DEF FlushYoung, At
<1>2. "service" \in Jobs
  BY DEF Jobs
<1>3. /\ j \in JobStates /\ j.kind \in {"archive", "delete", "flush"} /\ FlushedYoung(j) \in SUBSET Tasks
      /\ j.young \intersect Old \in SUBSET Tasks
  BY <1>1, <1>2, JobTypes DEF FlushedYoung
<1>4. k \in JobStates /\ k.kind # "none"
  <2> HIDE DEF j
  <2> QED
    BY <1>3 DEF JobStates
<1> HIDE DEF j, k
<1>5. /\ young' \in [Devices -> SUBSET Tasks] /\ old' \in [Devices -> SUBSET Tasks]
      /\ exposed' \in [Devices -> SUBSET Tasks]
  BY <1>1, <1>3, ArchiveTypes, WroteType
<1> QED
  BY <1>1, <1>2, <1>4, <1>5, ContinuedType

LEMMA FlushOldType ==
  ASSUME TypeInv, NEW d \in Devices, FlushOld(d)
  PROVE  TypeInv'
<1> DEFINE j == job[d]["service"]
           k == [j EXCEPT !.pc = "tellFlush"]
<1>1. /\ j.pc = "flushOld" /\ young' = young /\ Continued(d, "service", k)
      /\ old' = [old EXCEPT ![d] = FlushedOld(j)]
      /\ Wrote(d, "service", j.young \intersect Old)
  BY DEF FlushOld, At
<1>2. "service" \in Jobs
  BY DEF Jobs
<1>3. /\ j \in JobStates /\ j.kind \in {"archive", "delete", "flush"} /\ FlushedOld(j) \in SUBSET Tasks
      /\ j.young \intersect Old \in SUBSET Tasks
  BY <1>1, <1>2, JobTypes DEF FlushedOld
<1>4. k \in JobStates /\ k.kind # "none"
  <2> HIDE DEF j
  <2> QED
    BY <1>3 DEF JobStates
<1> HIDE DEF j, k
<1>5. /\ young' \in [Devices -> SUBSET Tasks] /\ old' \in [Devices -> SUBSET Tasks]
      /\ exposed' \in [Devices -> SUBSET Tasks]
  BY <1>1, <1>3, ArchiveTypes, WroteType
<1> QED
  BY <1>1, <1>2, <1>4, <1>5, ContinuedType

LEMMA FlushYoungToOldType ==
  ASSUME TypeInv, NEW d \in Devices, FlushYoungToOld(d)
  PROVE  TypeInv'
<1> DEFINE op == [kind |-> "flush", tasks |-> {}]
<1>1. /\ Dispatched(d, op) /\ Leave(d, "service", <<>>) /\ UNCHANGED <<live, young, old, queue>>
  BY DEF FlushYoungToOld
<1>2. "service" \in Jobs /\ op \in Ops
  BY DEF Jobs, Ops
<1>3. ops' = ops /\ log' = log
  BY <1>1 DEF Dispatched
<1> HIDE DEF op
<1>4. LogsOK' /\ WaitingOK' /\ SpentOK' /\ exposed' \in [Devices -> SUBSET Tasks]
  BY <1>1, <1>2, DispatchedTypes
<1>5. <<>> \in Seq(DOMAIN ops) /\ NumbersOf(<<>>) \subseteq NumbersOf(log[d])
  BY NoNumbers
<1>6. JobsOK' /\ BatchesOK' /\ FailedOK' /\ ReplayOK'
  BY <1>1, <1>2, <1>3, <1>5, SameOps, LeaveTypes
<1>7. SetsOK'
  BY <1>1, <1>4, TypeParts DEF SetsOK
<1>8. QueuesOK'
  BY <1>1, TypeParts DEF QueuesOK
<1> QED
  BY <1>4, <1>6, <1>7, <1>8, TypeParts, PTL

\* The operations behind numbers.
LEMMA OpsOfTypes ==
  ASSUME LogsOK, NEW numbers \in Seq(DOMAIN ops)
  PROVE  /\ OpsOf(numbers) \in Seq(Ops)
         /\ DOMAIN OpsOf(numbers) = DOMAIN numbers /\ Len(OpsOf(numbers)) = Len(numbers)
         /\ \A k \in DOMAIN numbers : OpsOf(numbers)[k] = ops[numbers[k]] /\ ops[numbers[k]] \in Ops
<1>1. Len(numbers) \in Nat /\ DOMAIN numbers = 1..Len(numbers)
  OBVIOUS
<1>2. \A k \in DOMAIN numbers : ops[numbers[k]] \in Ops
  BY <1>1, ElementOfSeq, OpTypes
<1> DEFINE run == [k \in 1..Len(numbers) |-> ops[numbers[k]]]
<1>3. OpsOf(numbers) = run
  BY <1>1 DEF OpsOf
<1>4. run \in Seq(Ops) /\ Len(run) = Len(numbers) /\ DOMAIN run = 1..Len(numbers)
  BY <1>1, <1>2
<1> QED
  BY <1>1, <1>2, <1>3, <1>4

LEMMA ReplayedTypes ==
  ASSUME LogsOK, NEW numbers \in Seq(DOMAIN ops), NEW shown \in SUBSET Tasks
  PROVE  Replayed(shown, numbers) \in SUBSET Tasks
BY OpsOfTypes, RunSteps DEF Replayed

LEMMA TasksTypes ==
  ASSUME NEW run \in Seq(Ops)
  PROVE  TasksOf(run) \in SUBSET Tasks
<1>1. \A op \in NumbersOf(run) : op \in Ops
  BY NumbersInDomain
<1> QED
  BY <1>1 DEF TasksOf, Ops

LEMMA DownloadType ==
  ASSUME TypeInv, NEW d \in Devices, Download(d)
  PROVE  TypeInv'
<1> DEFINE missing == Missing(d)
           b == [all |-> missing, left |-> missing]
<1>1. /\ missing # <<>>
      /\ log' = [log EXCEPT ![d] = @ \o missing]
      /\ live' = [live EXCEPT ![d] = Replayed(@, missing)]
      /\ batch' = [batch EXCEPT ![d] = b]
      /\ Exposing(d, Contested(d, TasksOf(OpsOf(missing))), {})
      /\ UNCHANGED <<ops, waiting, failed, young, old, job, queue, spent>>
  BY DEF Download
<1>2. missing \in Seq(DOMAIN ops)
  BY MissingNumbers DEF TypeInv
<1>3. b \in Batches(DOMAIN ops) /\ b.left = missing
  BY <1>2 DEF Batches
<1> HIDE DEF missing, b
<1>4. ops \in Seq(Ops) /\ log \in [Devices -> Seq(DOMAIN ops)] /\ live \in [Devices -> SUBSET Tasks]
  BY TypeParts DEF LogsOK, SetsOK
<1>5. /\ Replayed(live[d], missing) \in SUBSET Tasks
      /\ exposed' \in [Devices -> SUBSET Tasks]
  <2>1. live[d] \in SUBSET Tasks /\ LogsOK /\ SetsOK
    BY <1>4, TypeParts
  <2>2. TasksOf(OpsOf(missing)) \in SUBSET Tasks
    BY <1>2, <2>1, OpsOfTypes, TasksTypes
  <2>3. Contested(d, TasksOf(OpsOf(missing))) \in SUBSET Tasks /\ {} \in SUBSET Tasks
    BY <2>2 DEF Contested
  <2> QED
    BY <1>1, <1>2, <2>1, <2>3, ReplayedTypes, ExposingTypes
<1>6. /\ log[d] \o missing \in Seq(DOMAIN ops)
      /\ NumbersOf(log[d] \o missing) = NumbersOf(log[d]) \union NumbersOf(missing)
  BY <1>2, <1>4, NumbersOfConcat
<1>7. log' \in [Devices -> Seq(DOMAIN ops)] /\ log'[d] = log[d] \o missing
      /\ \A e \in Devices : e # d => log'[e] = log[e]
  BY <1>1, <1>4, <1>6
<1>8. LogsOK' /\ OpsGrow /\ \A e \in Devices : NumbersOf(log[e]) \subseteq NumbersOf(log'[e])
  BY <1>1, <1>4, <1>6, <1>7 DEF LogsOK, OpsGrow
<1>9. FailedOK'
  BY <1>1, <1>8, GrowTypes
<1>10. batch' \in [Devices -> Batches(DOMAIN ops)] /\ batch'[d] = b
       /\ \A e \in Devices : e # d => batch'[e] = batch[e]
  BY <1>1, <1>3, TypeParts DEF BatchesOK
<1>11. BatchesOK'
  BY <1>1, <1>3, <1>6, <1>7, <1>8, <1>10, TypeParts DEF BatchesOK
<1>12. ReplayOK'
  BY <1>1, <1>3, <1>10, TypeParts DEF ReplayOK
<1>13. SetsOK'
  BY <1>1, <1>5, TypeParts DEF SetsOK
<1>14. WaitingOK' /\ JobsOK' /\ QueuesOK' /\ SpentOK'
  BY <1>1, TypeParts DEF WaitingOK, JobsOK, QueuesOK, SpentOK
<1> QED
  BY <1>8, <1>9, <1>11, <1>12, <1>13, <1>14, TypeParts, PTL

\* What the failures of writes have in common.
LEMMA FailingTypes ==
  ASSUME TypeInv, NEW d \in Devices, NEW a \in Jobs, Failing(d, a)
  PROVE  /\ JobsOK' /\ SpentOK' /\ OnlyJob(d, a, Idle)
         /\ ops' = ops /\ log' = log /\ live' = live /\ LogsOK' /\ WaitingOK'
         /\ \A e \in Devices : job'[e]["replay"] # Idle => job[e]["replay"] # Idle
         /\ batch' = batch => ReplayOK'
<1>1. /\ spent.failures < MaxFailures /\ spent' = [spent EXCEPT !.failures = @ + 1]
      /\ job' = [job EXCEPT ![d][a] = Idle] /\ UNCHANGED <<ops, waiting, log, live>>
  BY DEF Failing
<1>2. Idle \in JobStates /\ (Idle.kind = "none" => Idle.pc = "rest")
  BY IdleType DEF Idle
<1>3. JobsOK' /\ OnlyJob(d, a, Idle)
  BY <1>1, <1>2, JobChange, TypeParts
<1>4. SpentOK' /\ WaitingOK'
  BY <1>1, FailureTypes, TypeParts DEF WaitingOK
<1>5. \A e \in Devices : job'[e]["replay"] # Idle => job[e]["replay"] # Idle
  BY <1>3 DEF OnlyJob, Jobs
<1>6. batch' = batch => ReplayOK'
  BY <1>5, TypeParts DEF ReplayOK
<1> QED
  BY <1>1, <1>3, <1>4, <1>5, <1>6, SameLogs

LEMMA ArchivingFailsType ==
  ASSUME TypeInv, NEW d \in Devices, ArchivingFails(d)
  PROVE  TypeInv'
<1>1. /\ Failing(d, "service") /\ UNCHANGED <<failed, young, old, queue, batch>>
      /\ exposed' = [exposed EXCEPT ![d] = @ \union job[d]["service"].tasks]
  BY DEF ArchivingFails
<1>2. "service" \in Jobs
  BY DEF Jobs
<1>3. /\ JobsOK' /\ SpentOK' /\ ReplayOK' /\ LogsOK' /\ WaitingOK'
      /\ ops' = ops /\ log' = log /\ live' = live
  BY <1>1, <1>2, FailingTypes
<1>4. SetsOK'
  BY <1>1, <1>2, <1>3, JobTypes, TypeParts DEF SetsOK
<1>5. FailedOK' /\ QueuesOK' /\ BatchesOK'
  BY <1>1, <1>3, TypeParts DEF FailedOK, QueuesOK, BatchesOK
<1> QED
  BY <1>3, <1>4, <1>5, TypeParts, PTL

LEMMA EffectFailsType ==
  ASSUME TypeInv, NEW d \in Devices, EffectFails(d)
  PROVE  TypeInv'
<1>1. /\ Failing(d, "effect") /\ UNCHANGED <<failed, young, old, queue, batch>>
      /\ exposed' = [exposed EXCEPT ![d] = @ \union job[d]["effect"].tasks]
  BY DEF EffectFails
<1>2. "effect" \in Jobs
  BY DEF Jobs
<1>3. /\ JobsOK' /\ SpentOK' /\ ReplayOK' /\ LogsOK' /\ WaitingOK'
      /\ ops' = ops /\ log' = log /\ live' = live
  BY <1>1, <1>2, FailingTypes
<1>4. SetsOK'
  BY <1>1, <1>2, <1>3, JobTypes, TypeParts DEF SetsOK
<1>5. FailedOK' /\ QueuesOK' /\ BatchesOK'
  BY <1>1, <1>3, TypeParts DEF FailedOK, QueuesOK, BatchesOK
<1> QED
  BY <1>3, <1>4, <1>5, TypeParts, PTL

LEMMA FlushFailsType ==
  ASSUME TypeInv, NEW d \in Devices, FlushFails(d)
  PROVE  TypeInv'
<1>1. /\ Failing(d, "service") /\ UNCHANGED <<failed, queue, batch>>
      /\ Wrote(d, "service", job[d]["service"].young \intersect Old)
      /\ young' = [young EXCEPT ![d] = job[d]["service"].young]
      /\ old' = [old EXCEPT ![d] = job[d]["service"].old]
  BY DEF FlushFails
<1>2. "service" \in Jobs
  BY DEF Jobs
<1>3. /\ JobsOK' /\ SpentOK' /\ ReplayOK' /\ LogsOK' /\ WaitingOK'
      /\ ops' = ops /\ log' = log /\ live' = live
  BY <1>1, <1>2, FailingTypes
<1>4. SetsOK'
  <2>1. /\ job[d]["service"].young \in SUBSET Tasks /\ job[d]["service"].old \in SUBSET Tasks
        /\ job[d]["service"].young \intersect Old \in SUBSET Tasks
    BY <1>2, JobTypes
  <2>2. exposed' \in [Devices -> SUBSET Tasks]
    BY <1>1, <2>1, WroteType
  <2> QED
    BY <1>1, <1>3, <2>1, <2>2, TypeParts DEF SetsOK
<1>5. FailedOK' /\ QueuesOK' /\ BatchesOK'
  BY <1>1, <1>3, TypeParts DEF FailedOK, QueuesOK, BatchesOK
<1> QED
  BY <1>3, <1>4, <1>5, TypeParts, PTL

LEMMA ReplayFailsType ==
  ASSUME TypeInv, NEW d \in Devices, ReplayFails(d)
  PROVE  TypeInv'
<1> DEFINE new == (failed[d] \ NumbersOf(batch[d].all)) \union NumbersOf(batch[d].left)
<1>1. /\ Failing(d, "replay") /\ UNCHANGED <<young, old, queue, exposed>>
      /\ failed' = [failed EXCEPT ![d] = new]
      /\ batch' = [batch EXCEPT ![d] = NoBatch]
  BY DEF ReplayFails, Unapplied
<1>2. "replay" \in Jobs
  BY DEF Jobs
<1>3. /\ JobsOK' /\ SpentOK' /\ LogsOK' /\ WaitingOK' /\ OnlyJob(d, "replay", Idle)
      /\ ops' = ops /\ log' = log /\ live' = live
      /\ \A e \in Devices : job'[e]["replay"] # Idle => job[e]["replay"] # Idle
  BY <1>1, <1>2, FailingTypes
<1>4. new \subseteq NumbersOf(log[d]) /\ new \in SUBSET DOMAIN ops
  BY DeviceTypes, NumbersInDomain
<1> HIDE DEF new
<1>5. FailedOK'
  BY <1>1, <1>3, <1>4, TypeParts DEF FailedOK
<1>6. NoBatch \in Batches(DOMAIN ops) /\ NumbersOf(NoBatch.left) = {}
  BY NoNumbers DEF NoBatch, Batches
<1>7. batch' \in [Devices -> Batches(DOMAIN ops)] /\ batch'[d] = NoBatch
      /\ \A e \in Devices : e # d => batch'[e] = batch[e]
  BY <1>1, <1>6, TypeParts DEF BatchesOK
<1>8. BatchesOK'
  BY <1>3, <1>6, <1>7, TypeParts DEF BatchesOK
<1>9. ReplayOK'
  BY <1>3, <1>7, TypeParts DEF ReplayOK, OnlyJob
<1>10. SetsOK' /\ QueuesOK'
  BY <1>1, <1>3, TypeParts DEF SetsOK, QueuesOK
<1> QED
  BY <1>3, <1>5, <1>8, <1>9, <1>10, TypeParts, PTL

LEMMA RestartType ==
  ASSUME TypeInv, NEW d \in Devices, Restart(d)
  PROVE  TypeInv'
<1> DEFINE retried == Retried(d)
           b == [all |-> retried, left |-> retried]
           shown == Replayed(Replayed({}, log[d]), retried)
           doubt == Torn(d) \union InTransit(d) \union TakenForApplied(d) \union Repeated(d)
<1>1. /\ spent.restarts < MaxRestarts /\ spent' = [spent EXCEPT !.restarts = @ + 1]
      /\ live' = [live EXCEPT ![d] = shown]
      /\ batch' = [batch EXCEPT ![d] = b]
      /\ job' = [job EXCEPT ![d] = [a \in Jobs |-> Idle]]
      /\ queue' = [queue EXCEPT ![d] = <<>>]
      /\ waiting' = [waiting EXCEPT ![d] = <<>>]
      /\ Exposing(d, doubt, {})
      /\ UNCHANGED <<ops, log, failed, young, old>>
  BY DEF Restart
<1>2. retried \in Seq(DOMAIN ops) /\ NumbersOf(retried) = failed[d]
  BY RetriedNumbers DEF TypeInv
<1>3. b \in Batches(DOMAIN ops) /\ b.left = retried
  BY <1>2 DEF Batches
<1>4. LogsOK /\ log[d] \in Seq(DOMAIN ops) /\ failed[d] \subseteq NumbersOf(log[d])
  BY TypeParts, DeviceTypes
<1>5. shown \in SUBSET Tasks
  <2> HIDE DEF retried
  <2>1. Replayed({}, log[d]) \in SUBSET Tasks
    BY <1>4, ReplayedTypes
  <2> QED
    BY <1>2, <1>4, <2>1, ReplayedTypes
<1>6. exposed' \in [Devices -> SUBSET Tasks]
  <2>1. \A i \in DOMAIN ops : ops[i].tasks \in SUBSET Tasks
    BY OpTypes, TypeParts DEF Ops
  <2>2. NumbersOf(batch[d].left) \subseteq DOMAIN ops /\ NumbersOf(batch[d].all) \subseteq DOMAIN ops
    BY DeviceTypes, NumbersInDomain
  <2>3. TakenForApplied(d) \in SUBSET Tasks
    BY <2>1, <2>2 DEF TakenForApplied
  <2>4. /\ Torn(d) \in SUBSET Tasks /\ InTransit(d) \in SUBSET Tasks
        /\ Repeated(d) \in SUBSET Tasks
    BY OldAssumption DEF Torn, InTransit, Repeated
  <2>5. doubt \in SUBSET Tasks
    BY <2>3, <2>4
  <2> HIDE DEF doubt
  <2> QED
    BY <1>1, <2>5, ExposingTypes, TypeParts
<1> HIDE DEF retried, b, shown, doubt
<1>7. SetsOK'
  BY <1>1, <1>5, <1>6, TypeParts DEF SetsOK
<1>8. batch' \in [Devices -> Batches(DOMAIN ops)] /\ batch'[d] = b
      /\ \A e \in Devices : e # d => batch'[e] = batch[e]
  BY <1>1, <1>3, TypeParts DEF BatchesOK
<1>9. BatchesOK'
  BY <1>1, <1>2, <1>3, <1>4, <1>8, TypeParts DEF BatchesOK
<1>10. job' \in [Devices -> [Jobs -> JobStates]] /\ job'[d] = [a \in Jobs |-> Idle]
       /\ \A e \in Devices : e # d => job'[e] = job[e]
  BY <1>1, IdleType, TypeParts DEF JobsOK
<1>11. JobsOK'
  BY <1>10, TypeParts DEF JobsOK, Idle
<1>12. ReplayOK'
  BY <1>8, <1>10, TypeParts DEF ReplayOK, Jobs
<1>13. SpentOK'
  <2>1. spent \in [made : 0..MaxOps, restarts : 0..MaxRestarts, failures : 0..MaxFailures]
    BY TypeParts DEF SpentOK
  <2>2. spent.restarts + 1 \in 0..MaxRestarts
    BY <1>1, <2>1, BoundsAssumption
  <2> QED
    BY <1>1, <2>1, <2>2 DEF SpentOK
<1>14. LogsOK' /\ WaitingOK' /\ FailedOK' /\ QueuesOK'
  <2>1. <<>> \in Seq(Tasks) /\ <<>> \in Seq(Ops)
    OBVIOUS
  <2> QED
    BY <1>1, <2>1, TypeParts DEF LogsOK, WaitingOK, FailedOK, QueuesOK
<1> QED
  BY <1>7, <1>9, <1>11, <1>12, <1>13, <1>14, TypeParts, PTL

-----------------------------------------------------------------------------
(* The types *)

LEMMA InitTypes ==
  ASSUME Init
  PROVE  TypeInv
<1>1. ops = <<>> /\ log = [d \in Devices |-> <<>>] /\ failed = [d \in Devices |-> {}]
      /\ batch = [d \in Devices |-> NoBatch] /\ queue = [d \in Devices |-> <<>>]
      /\ waiting = [d \in Devices |-> <<>>]
  BY DEF Init
<1>2. LogsOK /\ WaitingOK
  BY <1>1 DEF LogsOK, WaitingOK
<1>3. FailedOK
  BY <1>1 DEF FailedOK
<1>4. SetsOK
  BY DEF Init, SetsOK
<1>5. JobsOK /\ ReplayOK
  BY IdleType DEF Init, JobsOK, ReplayOK, Jobs, Idle
<1>6. QueuesOK
  BY <1>1 DEF QueuesOK
<1>7. BatchesOK
  <2>1. NoBatch \in Batches(DOMAIN ops) /\ NumbersOf(NoBatch.left) = {}
    BY NoNumbers DEF NoBatch, Batches
  <2> QED
    BY <1>1, <2>1 DEF BatchesOK
<1>8. SpentOK
  BY BoundsAssumption DEF Init, SpentOK
<1> QED
  BY <1>2, <1>3, <1>4, <1>5, <1>6, <1>7, <1>8, TypeParts

LEMMA NextTypes ==
  ASSUME TypeInv, [Next]_vars
  PROVE  TypeInv'
<1>1. CASE UNCHANGED vars
  <2>1. /\ LogsOK' /\ WaitingOK' /\ FailedOK' /\ SetsOK' /\ JobsOK' /\ QueuesOK'
        /\ BatchesOK' /\ ReplayOK' /\ SpentOK'
    BY <1>1, TypeParts DEF vars, LogsOK, WaitingOK, FailedOK, SetsOK, JobsOK, QueuesOK, BatchesOK,
       ReplayOK, SpentOK
  <2> QED
    BY <2>1, TypeParts, PTL
<1>2. CASE Next
  <2>1. PICK d \in Devices :
          \/ \E t \in Tasks : Create(d, t) \/ RestoreTask(d, t)
          \/ \E tasks \in SUBSET Tasks : MoveToArchive(d, tasks)
          \/ StartEffect(d)
          \/ StartSideEffect(d)
          \/ \E a \in Jobs : JobStep(d, a)
          \/ FlushYoung(d)
          \/ FlushOld(d)
          \/ FlushYoungToOld(d)
          \/ WriteRow(d)
          \/ RowFails(d)
          \/ Download(d)
          \/ ArchivingFails(d)
          \/ FlushFails(d)
          \/ EffectFails(d)
          \/ ReplayFails(d)
          \/ Restart(d)
    BY <1>2 DEF Next
  <2>2. CASE \E a \in Jobs : JobStep(d, a)
    BY <2>2, LoadYoungType, AddToYoungType, DeleteFromYoungType, LoadOldType, DeleteFromOldType,
       FlushBothType DEF JobStep
  <2> QED
    BY <2>1, <2>2, CreateType, RestoreTaskType, MoveToArchiveType, StartEffectType,
       StartSideEffectType, FlushYoungType, FlushOldType, FlushYoungToOldType, WriteRowType,
       RowFailsType, DownloadType, ArchivingFailsType,
       FlushFailsType, EffectFailsType, ReplayFailsType, RestartType
<1> QED
  BY <1>1, <1>2

\* The archives, logs, batches and jobs of all devices keep their types, also when the jobs
\* of a device overlap, rows fail and applications end: a replay always has an operation of
\* the log before it, and the operations marked failed are in the log.
THEOREM ArchiveTypeCorrect == Spec => []TypeOK
<1>1. Init => TypeInv
  BY InitTypes
<1>2. TypeInv /\ [Next]_vars => TypeInv'
  BY NextTypes
<1>3. TypeInv => TypeOK
  BY DEF TypeInv
<1> QED
  BY <1>1, <1>2, <1>3, PTL DEF Spec

-----------------------------------------------------------------------------
(* Why the store shows what a restart would show *)

\* Once an operation on the task is among these numbers, all later ones of the log are.
ComesLast(d, t, numbers) ==
  \A p, q \in DOMAIN log[d] :
    p < q /\ log[d][p] \in On(t) /\ log[d][q] \in On(t) /\ log[d][p] \in numbers
      => log[d][q] \in numbers

\* Operations of the log whose side effects are still to come.
Outstanding(d) == (failed[d] \ NumbersOf(batch[d].all)) \union NumbersOf(batch[d].left)

\* The retry of what failed comes after everything else on a task that is not in doubt: in
\* the log, in the batch that is applied, and before what the user did since.
RetryLast(d) ==
  /\ Distinct(log[d])
  /\ InOrder(batch[d].left, log[d])
  /\ \A t \in Tasks \ exposed[d] :
       /\ ComesLast(d, t, failed[d])
       /\ batch[d].left # <<>> => ComesLast(d, t, Outstanding(d))
       /\ \/ On(t) \intersect (failed[d] \ NumbersOf(batch[d].all)) = {}
          \/ On(t) \intersect NumbersOf(batch[d].left) = {}
       /\ \A k \in DOMAIN waiting[d] : t \in waiting[d][k].tasks =>
            On(t) \intersect (failed[d] \union NumbersOf(batch[d].left)) = {}

ShownHere(d) == \A t \in Tasks \ exposed[d] : t \in live[d] <=> t \in Shown(d)

ShownInv == \A d \in Devices : ShownHere(d) /\ RetryLast(d)

LEMMA OnGrows ==
  ASSUME OpsGrow, NEW t
  PROVE  \A i \in DOMAIN ops : i \in On(t)' <=> i \in On(t)
BY DEF OpsGrow, On

\* The store that a restart would show.
LEMMA ShownTypes ==
  ASSUME TypeInv, NEW d \in Devices
  PROVE  /\ Replayed({}, log[d]) \in SUBSET Tasks /\ Shown(d) \in SUBSET Tasks
         /\ live[d] \in SUBSET Tasks /\ waiting[d] \in Seq(Ops) /\ log[d] \in Seq(DOMAIN ops)
         /\ OpsOf(log[d]) \in Seq(Ops)
<1>1. /\ LogsOK /\ log[d] \in Seq(DOMAIN ops) /\ waiting[d] \in Seq(Ops) /\ {} \in SUBSET Tasks
      /\ live[d] \in SUBSET Tasks
  BY TypeParts, DeviceTypes
<1>2. Replayed({}, log[d]) \in SUBSET Tasks /\ OpsOf(log[d]) \in Seq(Ops)
  BY <1>1, ReplayedTypes, OpsOfTypes
<1> QED
  BY <1>1, <1>2, RunSteps DEF Shown

\* A device of which a step changes none of this.
LEMMA StillShown ==
  ASSUME TypeInv, NEW d \in Devices, OpsGrow, ShownHere(d), exposed[d] \subseteq exposed'[d],
         log'[d] = log[d], waiting'[d] = waiting[d], live'[d] = live[d]
  PROVE  ShownHere(d)'
<1>1. OpsOf(log[d])' = OpsOf(log[d])
  <2>1. OpsOf(log[d])' = [k \in DOMAIN log'[d] |-> ops'[log'[d][k]]]
    BY DEF OpsOf
  <2>2. log[d] \in Seq(DOMAIN ops)
    BY DeviceTypes
  <2>3. \A k \in DOMAIN log[d] : log[d][k] \in DOMAIN ops
    <3>1. DOMAIN log[d] = 1..Len(log[d])
      BY <2>2
    <3> QED
      BY <2>2, <3>1, ElementOfSeq
  <2>4. \A k \in DOMAIN log[d] : ops'[log[d][k]] = ops[log[d][k]]
    BY <2>3 DEF OpsGrow
  <2> QED
    BY <2>1, <2>4 DEF OpsOf
<1>2. Shown(d)' = Shown(d)
  BY <1>1 DEF Shown, Replayed
<1> QED
  BY <1>2 DEF ShownHere

\* Numbers of a device are numbers of operations.
LEMMA KnownNumbers ==
  ASSUME TypeInv, NEW d \in Devices
  PROVE  /\ log[d] \in Seq(DOMAIN ops) /\ Len(log[d]) \in Nat /\ DOMAIN log[d] = 1..Len(log[d])
         /\ \A p \in DOMAIN log[d] : log[d][p] \in DOMAIN ops
         /\ failed[d] \subseteq DOMAIN ops /\ NumbersOf(batch[d].left) \subseteq DOMAIN ops
<1>1. /\ log[d] \in Seq(DOMAIN ops) /\ failed[d] \subseteq NumbersOf(log[d])
      /\ NumbersOf(batch[d].left) \subseteq NumbersOf(log[d])
  BY DeviceTypes
<1>2. Len(log[d]) \in Nat /\ DOMAIN log[d] = 1..Len(log[d])
  BY <1>1
<1>3. \A p \in DOMAIN log[d] : log[d][p] \in DOMAIN ops
  BY <1>1, <1>2, ElementOfSeq
<1> QED
  BY <1>1, <1>2, <1>3 DEF NumbersOf

LEMMA StillLast ==
  ASSUME TypeInv, NEW d \in Devices, OpsGrow, RetryLast(d), exposed[d] \subseteq exposed'[d],
         log'[d] = log[d], waiting'[d] = waiting[d], failed'[d] = failed[d], batch'[d] = batch[d]
  PROVE  RetryLast(d)'
<1>1. Distinct(log[d])' /\ InOrder(batch[d].left, log[d])'
  BY DEF RetryLast, Distinct, InOrder
<1>2. ASSUME NEW t \in Tasks, t \notin exposed'[d]
      PROVE  /\ ComesLast(d, t, failed[d])'
             /\ (batch[d].left # <<>> => ComesLast(d, t, Outstanding(d)))'
             /\ \/ On(t)' \intersect (failed[d] \ NumbersOf(batch[d].all)) = {}
                \/ On(t)' \intersect NumbersOf(batch[d].left) = {}
             /\ \A k \in DOMAIN waiting[d] : t \in waiting[d][k].tasks =>
                  On(t)' \intersect (failed[d] \union NumbersOf(batch[d].left)) = {}
  <2>1. \A i \in DOMAIN ops : i \in On(t)' <=> i \in On(t)
    BY OnGrows
  <2>2. t \notin exposed[d]
    BY <1>2
  <2>3. Outstanding(d)' = Outstanding(d)
    BY DEF Outstanding
  <2> QED
    BY <2>1, <2>2, <2>3, KnownNumbers DEF RetryLast, ComesLast
<1> QED
  BY <1>1, <1>2 DEF RetryLast, NumbersOf

\* A step of one device.
LEMMA ElsewhereShown ==
  ASSUME TypeInv, ShownInv, NEW d \in Devices, OpsGrow,
         \A e \in Devices : exposed[e] \subseteq exposed'[e],
         \A e \in Devices : e # d =>
           /\ log'[e] = log[e] /\ waiting'[e] = waiting[e] /\ live'[e] = live[e]
           /\ failed'[e] = failed[e] /\ batch'[e] = batch[e],
         ShownHere(d)', RetryLast(d)'
  PROVE  ShownInv'
<1>1. ASSUME NEW e \in Devices, e # d
      PROVE  ShownHere(e)' /\ RetryLast(e)'
  BY <1>1, StillShown, StillLast DEF ShownInv
<1> QED
  BY <1>1 DEF ShownInv

\* A step that touches none of this on any device.
LEMMA NothingShown ==
  ASSUME TypeInv, ShownInv,
         UNCHANGED <<ops, waiting, log, live, failed, batch>>,
         \A e \in Devices : exposed[e] \subseteq exposed'[e]
  PROVE  ShownInv'
<1>1. OpsGrow
  BY DEF OpsGrow
<1>2. ASSUME NEW e \in Devices
      PROVE  ShownHere(e)' /\ RetryLast(e)'
  <2>1. ShownHere(e)'
    BY <1>1, StillShown DEF ShownInv
  <2>2. RetryLast(e)'
    BY <1>1, StillLast DEF ShownInv
  <2> QED
    BY <2>1, <2>2
<1> QED
  BY <1>2 DEF ShownInv

-----------------------------------------------------------------------------
(* What the user does, and its rows *)

\* A task of an operation that is not contested is not in hand.
LEMMA Uncontested ==
  ASSUME NEW d, NEW tasks, NEW t \in tasks, t \notin Contested(d, tasks),
         failed[d] \subseteq DOMAIN ops, NumbersOf(batch[d].left) \subseteq DOMAIN ops
  PROVE  On(t) \intersect (failed[d] \union NumbersOf(batch[d].left)) = {}
BY DEF Contested, InHand, On

LEMMA DispatchedShown ==
  ASSUME TypeInv, ShownInv, NEW d \in Devices, NEW op \in Ops, Dispatched(d, op),
         live' = [live EXCEPT ![d] = Reduced(@, op)], failed' = failed, batch' = batch
  PROVE  ShownInv'
<1>1. /\ waiting'[d] = Append(waiting[d], op)
      /\ \A e \in Devices : e # d => waiting'[e] = waiting[e]
      /\ Contested(d, op.tasks) \subseteq exposed'[d]
      /\ \A e \in Devices : exposed[e] \subseteq exposed'[e]
  BY DispatchedTypes
<1>2. ops' = ops /\ log' = log
  BY DEF Dispatched
<1>3. OpsGrow
  BY <1>2, SameOps
<1>4. live'[d] = Reduced(live[d], op) /\ \A e \in Devices : e # d => live'[e] = live[e]
  BY TypeParts DEF SetsOK
<1>5. ShownHere(d)'
  <2>1. Shown(d)' = Reduced(Shown(d), op)
    <3>1. Shown(d)' = ReducedAll(Replayed({}, log[d]), Append(waiting[d], op))
      BY <1>1, <1>2 DEF Shown, Replayed, OpsOf
    <3> QED
      BY <3>1, ShownTypes, RunOfAppend DEF Shown
  <2>2. ASSUME NEW t \in Tasks, t \notin exposed'[d]
        PROVE  t \in live'[d] <=> t \in Shown(d)'
    <3>1. t \in live[d] <=> t \in Shown(d)
      BY <1>1, <2>2 DEF ShownInv, ShownHere
    <3> QED
      BY <1>4, <2>1, <3>1 DEF Reduced, Ops
  <2> QED
    BY <2>2 DEF ShownHere
<1>6. RetryLast(d)'
  <2>1. RetryLast(d)
    BY DEF ShownInv
  <2>2. waiting[d] \in Seq(Ops)
    BY DeviceTypes
  <2>3. /\ Len(waiting[d]) \in Nat /\ DOMAIN waiting[d] = 1..Len(waiting[d])
        /\ DOMAIN waiting'[d] = 1..Len(waiting[d]) + 1
        /\ waiting'[d][Len(waiting[d]) + 1] = op
        /\ \A k \in 1..Len(waiting[d]) : waiting'[d][k] = waiting[d][k]
    BY <1>1, <2>2, AppendProperties
  <2>4. ASSUME NEW t \in Tasks, t \notin exposed'[d],
               NEW k \in DOMAIN waiting'[d], t \in waiting'[d][k].tasks
        PROVE  On(t) \intersect (failed[d] \union NumbersOf(batch[d].left)) = {}
    <3>1. CASE k \in DOMAIN waiting[d]
      BY <3>1, <2>1, <2>3, <2>4, <1>1 DEF RetryLast
    <3>2. CASE k \notin DOMAIN waiting[d]
      <4>1. k = Len(waiting[d]) + 1
        BY <3>2, <2>3
      <4>2. t \in op.tasks /\ t \notin Contested(d, op.tasks)
        BY <4>1, <2>3, <2>4, <1>1
      <4> QED
        BY <4>2, KnownNumbers, Uncontested
    <3> QED
      BY <3>1, <3>2
  <2>5. \A t : On(t)' = On(t) /\ ComesLast(d, t, failed[d])' = ComesLast(d, t, failed[d])
               /\ ComesLast(d, t, Outstanding(d))' = ComesLast(d, t, Outstanding(d))
    BY <1>2 DEF On, ComesLast, Outstanding
  <2> QED
    BY <1>1, <1>2, <2>1, <2>4, <2>5 DEF RetryLast
<1> QED
  BY <1>1, <1>2, <1>3, <1>4, <1>5, <1>6, ElsewhereShown

LEMMA WriteRowShown ==
  ASSUME TypeInv, ShownInv, NEW d \in Devices, WriteRow(d)
  PROVE  ShownInv'
<1> DEFINE op == Head(waiting[d])
           n == Len(ops) + 1
           m == Len(log[d])
<1>1. /\ waiting[d] # <<>> /\ waiting' = [waiting EXCEPT ![d] = Tail(@)] /\ Row(d, op)
      /\ batch[d] = NoBatch
      /\ UNCHANGED <<failed, live, young, old, job, queue, batch, spent, exposed>>
  BY DEF WriteRow, Row
<1>2. /\ op \in Ops /\ waiting'[d] = Tail(waiting[d])
      /\ \A e \in Devices : e # d => waiting'[e] = waiting[e]
  BY <1>1, TakenTypes
<1>3. /\ OpsGrow /\ n \notin DOMAIN ops /\ DOMAIN ops' = DOMAIN ops \union {n} /\ ops'[n] = op
      /\ log'[d] = Append(log[d], n) /\ \A e \in Devices : e # d => log'[e] = log[e]
  BY <1>1, <1>2, RowTypes, TypeParts
<1>4. /\ log[d] \in Seq(DOMAIN ops) /\ m \in Nat /\ DOMAIN log[d] = 1..m
      /\ \A p \in 1..m : log[d][p] \in DOMAIN ops
      /\ failed[d] \subseteq DOMAIN ops
  BY KnownNumbers
<1>5. /\ DOMAIN log'[d] = 1..m + 1 /\ log'[d][m + 1] = n
      /\ \A p \in 1..m : log'[d][p] = log[d][p]
  <2> DEFINE N == DOMAIN ops'
  <2>1. log[d] \in Seq(N) /\ n \in N
    <3>1. DOMAIN ops \subseteq N
      BY <1>3
    <3> HIDE DEF N
    <3> QED
      BY <3>1, <1>3, <1>4 DEF N
  <2> HIDE DEF N, n
  <2>2. /\ DOMAIN Append(log[d], n) = 1..m + 1 /\ Append(log[d], n)[m + 1] = n
        /\ \A p \in 1..m : Append(log[d], n)[p] = log[d][p]
    BY <2>1, AppendProperties
  <2> QED
    BY <2>2, <1>3
<1> HIDE DEF op, n, m
<1>6. ShownHere(d)'
  <2>1. OpsOf(log[d])' = Append(OpsOf(log[d]), op)
    <3> DEFINE run == OpsOf(log[d])
               next == [k \in 1..m + 1 |-> ops'[log'[d][k]]]
    <3>1. OpsOf(log[d])' = next
      BY <1>5 DEF OpsOf
    <3>2. run \in Seq(Ops) /\ Len(run) = m /\ \A k \in 1..m : run[k] = ops[log[d][k]]
      <4>1. DOMAIN run = DOMAIN log[d]
        BY DEF OpsOf
      <4> QED
        BY <1>4, OpsOfTypes, TypeParts DEF m
    <3>3. \A k \in 1..m : ops'[log[d][k]] = ops[log[d][k]]
      BY <1>3, <1>4 DEF OpsGrow
    <3> DEFINE more == Append(run, op)
    <3> HIDE DEF run
    <3>4. /\ more = [k \in 1..m + 1 |-> more[k]] /\ more[m + 1] = op
          /\ \A k \in 1..m : more[k] = run[k]
      <4>1. /\ more \in Seq(Ops) /\ Len(more) = m + 1 /\ more[m + 1] = op
            /\ \A k \in 1..m : more[k] = run[k]
        BY <3>2, <1>2, AppendProperties
      <4> HIDE DEF more
      <4>2. more \in [1..m + 1 -> Ops]
        BY <4>1
      <4> QED
        BY <4>1, <4>2
    <3> HIDE DEF more
    <3>5. ASSUME NEW k \in 1..m + 1
          PROVE  next[k] = more[k]
      <4>1. CASE k = m + 1
        BY <4>1, <1>3, <1>5, <3>4
      <4>2. CASE k # m + 1
        <5>1. k \in 1..m
          BY <4>2, <1>4
        <5> QED
          BY <5>1, <1>5, <3>2, <3>3, <3>4
      <4> QED
        BY <4>1, <4>2
    <3>6. next = more
      BY <3>4, <3>5
    <3> QED
      BY <3>1, <3>6 DEF more, run
  <2>2. Shown(d)' = Shown(d)
    <3> DEFINE kept == Replayed({}, log[d])
    <3>1. /\ kept \in SUBSET Tasks /\ OpsOf(log[d]) \in Seq(Ops) /\ waiting[d] \in Seq(Ops)
          /\ {} \in SUBSET Tasks
      BY ShownTypes
    <3>2. Replayed({}, log[d])' = Reduced(kept, op)
      BY <2>1, <3>1, <1>2, RunOfAppend DEF Replayed
    <3>3. Shown(d)' = ReducedAll(Reduced(kept, op), Tail(waiting[d]))
      BY <3>2, <1>2 DEF Shown
    <3>4. Shown(d) = ReducedAll(Reduced(kept, op), Tail(waiting[d]))
      <4> HIDE DEF kept
      <4>1. ReducedAll(kept, waiting[d])
              = ReducedAll(Reduced(kept, Head(waiting[d])), Tail(waiting[d]))
        BY <3>1, <1>1, RunOfRest
      <4> QED
        BY <4>1 DEF Shown, op, kept
    <3> QED
      BY <3>3, <3>4
  <2> QED
    BY <2>2, <1>1 DEF ShownInv, ShownHere
<1>7. RetryLast(d)'
  <2>1. RetryLast(d) /\ batch'[d].left = <<>> /\ batch[d].left = <<>>
    BY <1>1 DEF ShownInv, NoBatch
  <2>2. Distinct(log[d])'
    <3>1. ASSUME NEW p \in 1..m + 1, NEW q \in 1..m + 1, log'[d][p] = log'[d][q]
          PROVE  p = q
      <4>1. CASE p \in 1..m /\ q \in 1..m
        BY <4>1, <3>1, <2>1, <1>4, <1>5 DEF RetryLast, Distinct
      <4>2. CASE p \notin 1..m \/ q \notin 1..m
        <5>1. \A r \in 1..m + 1 : r \notin 1..m => r = m + 1
          BY <1>4
        <5>2. \A r \in 1..m : log'[d][r] # n
          BY <1>3, <1>4, <1>5
        <5> QED
          BY <4>2, <5>1, <5>2, <3>1, <1>5
      <4> QED
        BY <4>1, <4>2
    <3> QED
      BY <3>1, <1>5 DEF Distinct
  <2>3. InOrder(batch[d].left, log[d])'
    BY <2>1 DEF InOrder
  <2>4. waiting[d] \in Seq(Ops)
    BY DeviceTypes
  <2>5. ASSUME NEW t \in Tasks, t \notin exposed[d]
        PROVE  /\ ComesLast(d, t, failed[d])'
               /\ \A k \in DOMAIN waiting'[d] : t \in waiting'[d][k].tasks =>
                    On(t)' \intersect (failed[d] \union NumbersOf(batch[d].left)) = {}
    <3>1. \A i \in DOMAIN ops : i \in On(t)' <=> i \in On(t)
      BY <1>3, OnGrows
    <3>2. NumbersOf(batch[d].left) = {}
      BY <2>1, NoNumbers
    <3>3. \A k \in DOMAIN waiting[d] : t \in waiting[d][k].tasks =>
            On(t)' \intersect (failed[d] \union NumbersOf(batch[d].left)) = {}
      BY <3>1, <3>2, <2>1, <2>5, <1>4 DEF RetryLast
    <3>4. \A k \in DOMAIN waiting'[d] : t \in waiting'[d][k].tasks =>
            On(t)' \intersect (failed[d] \union NumbersOf(batch[d].left)) = {}
      BY <3>3, <2>4, <1>1, <1>2, TailPositions
    <3>5. ASSUME NEW p \in 1..m + 1, NEW q \in 1..m + 1, p < q,
                 log'[d][p] \in On(t)', log'[d][q] \in On(t)', log'[d][p] \in failed[d]
          PROVE  log'[d][q] \in failed[d]
      <4>1. p \in 1..m
        BY <3>5, <1>4
      <4>2. CASE q \in 1..m
        BY <4>1, <4>2, <3>1, <3>5, <2>1, <2>5, <1>4, <1>5 DEF RetryLast, ComesLast
      <4>3. CASE q \notin 1..m
        <5>1. q = m + 1
          BY <4>3, <1>4
        <5>2. t \in op.tasks
          BY <5>1, <3>5, <1>3, <1>5 DEF On
        <5>3. op = waiting[d][1] /\ 1 \in DOMAIN waiting[d]
          BY <2>4, <1>1, TailPositions DEF op
        <5> QED
          BY <5>2, <5>3, <3>3, <3>5
      <4> QED
        BY <4>2, <4>3
    <3>6. ComesLast(d, t, failed[d])'
      BY <3>5, <1>1, <1>5 DEF ComesLast
    <3> QED
      BY <3>4, <3>6
  <2>6. NumbersOf(batch[d].left)' = {}
    BY <2>1, NoNumbers DEF NumbersOf
  <2> QED
    BY <2>1, <2>2, <2>3, <2>5, <2>6, <1>1 DEF RetryLast, NumbersOf
<1> QED
  BY <1>1, <1>2, <1>3, <1>6, <1>7, ElsewhereShown

LEMMA RowFailsShown ==
  ASSUME TypeInv, ShownInv, NEW d \in Devices, RowFails(d)
  PROVE  ShownInv'
<1> DEFINE op == Head(waiting[d])
           twice == op.tasks \intersect TasksOf(Tail(waiting[d]))
<1>1. /\ waiting[d] # <<>> /\ waiting' = [waiting EXCEPT ![d] = Tail(@)]
      /\ Exposing(d, op.tasks, twice)
      /\ UNCHANGED <<ops, log, failed, live, young, old, job, queue, batch>>
  BY DEF RowFails
<1>2. /\ op \in Ops /\ waiting'[d] = Tail(waiting[d])
      /\ \A e \in Devices : e # d => waiting'[e] = waiting[e]
  BY <1>1, TakenTypes
<1>3. op.tasks \in SUBSET Tasks /\ twice \in SUBSET Tasks
  BY <1>2 DEF Ops
<1> HIDE DEF twice
<1>4. op.tasks \subseteq exposed'[d] /\ \A e \in Devices : exposed[e] \subseteq exposed'[e]
  BY <1>1, <1>3, ExposingTypes, TypeParts
<1>5. OpsGrow
  BY <1>1, SameOps
<1>6. ShownHere(d)'
  <2> DEFINE kept == Replayed({}, log[d])
  <2>1. kept \in SUBSET Tasks /\ waiting[d] \in Seq(Ops) /\ Tail(waiting[d]) \in Seq(Ops)
    BY <1>1, ShownTypes, RunOfRest
  <2>2. Shown(d)' = ReducedAll(kept, Tail(waiting[d]))
    BY <1>1, <1>2 DEF Shown, Replayed, OpsOf
  <2>3. Shown(d) = ReducedAll(Reduced(kept, op), Tail(waiting[d]))
    <3> HIDE DEF kept
    <3>1. ReducedAll(kept, waiting[d])
            = ReducedAll(Reduced(kept, Head(waiting[d])), Tail(waiting[d]))
      BY <2>1, <1>1, RunOfRest
    <3> QED
      BY <3>1 DEF Shown, op, kept
  <2> HIDE DEF kept
  <2>4. ASSUME NEW t \in Tasks, t \notin exposed'[d]
        PROVE  t \in live'[d] <=> t \in Shown(d)'
    <3>1. t \in live[d] <=> t \in Shown(d)
      BY <1>4, <2>4 DEF ShownInv, ShownHere
    <3>2. t \in kept <=> t \in Reduced(kept, op)
      <4>1. t \notin op.tasks
        BY <1>4, <2>4
      <4> HIDE DEF op
      <4> QED
        BY <4>1, <1>2 DEF Reduced, Ops
    <3>3. Reduced(kept, op) \in SUBSET Tasks
      BY <2>1, <1>2, ReducedType
    <3>4. t \in ReducedAll(kept, Tail(waiting[d]))
            <=> t \in ReducedAll(Reduced(kept, op), Tail(waiting[d]))
      <4> HIDE DEF op
      <4> QED
        BY <3>2, <3>3, <2>1, RunAgrees
    <3> QED
      BY <3>1, <3>4, <2>2, <2>3, <1>1
  <2> QED
    BY <2>4 DEF ShownHere
<1>7. RetryLast(d)'
  <2>1. RetryLast(d) /\ waiting[d] \in Seq(Ops)
    BY DeviceTypes DEF ShownInv
  <2>2. \A k \in DOMAIN waiting'[d] : k + 1 \in DOMAIN waiting[d] /\ waiting'[d][k] = waiting[d][k + 1]
    <3>1. \A k \in DOMAIN Tail(waiting[d]) :
            k + 1 \in DOMAIN waiting[d] /\ Tail(waiting[d])[k] = waiting[d][k + 1]
      BY <2>1, <1>1, TailPositions
    <3> QED
      BY <3>1, <1>2
  <2>3. \A t : On(t)' = On(t) /\ ComesLast(d, t, failed[d])' = ComesLast(d, t, failed[d])
               /\ ComesLast(d, t, Outstanding(d))' = ComesLast(d, t, Outstanding(d))
    BY <1>1 DEF On, ComesLast, Outstanding
  <2> QED
    BY <1>1, <1>4, <2>1, <2>2, <2>3 DEF RetryLast
<1> QED
  BY <1>1, <1>2, <1>4, <1>5, <1>6, <1>7, ElsewhereShown

-----------------------------------------------------------------------------
(* Batches, their failures, and restarts *)

LEMMA DownloadShown ==
  ASSUME TypeInv, ShownInv, NEW d \in Devices, Download(d)
  PROVE  ShownInv'
<1> DEFINE missing == Missing(d)
           n == Len(log[d])
           m == Len(missing)
           doubt == Contested(d, TasksOf(OpsOf(missing)))
<1>1. /\ batch[d] = NoBatch /\ waiting[d] = <<>> /\ missing # <<>>
      /\ log' = [log EXCEPT ![d] = @ \o missing]
      /\ live' = [live EXCEPT ![d] = Replayed(@, missing)]
      /\ batch' = [batch EXCEPT ![d] = [all |-> missing, left |-> missing]]
      /\ Exposing(d, doubt, {})
      /\ UNCHANGED <<ops, waiting, failed, young, old, job, queue, spent>>
  BY DEF Download
<1>2. /\ missing \in Seq(DOMAIN ops) /\ NumbersOf(missing) = DOMAIN ops \ NumbersOf(log[d])
      /\ \A p, q \in DOMAIN missing : p < q => missing[p] < missing[q]
  BY MissingNumbers DEF TypeInv
<1> HIDE DEF missing
<1>3. /\ log \in [Devices -> Seq(DOMAIN ops)] /\ live \in [Devices -> SUBSET Tasks] /\ LogsOK
      /\ batch \in [Devices -> Batches(DOMAIN ops)] /\ SetsOK
  BY TypeParts DEF LogsOK, SetsOK, BatchesOK
<1>4. /\ log[d] \in Seq(DOMAIN ops) /\ n \in Nat /\ DOMAIN log[d] = 1..n
      /\ \A p \in 1..n : log[d][p] \in DOMAIN ops
      /\ failed[d] \subseteq DOMAIN ops /\ NumbersOf(batch[d].left) \subseteq DOMAIN ops
      /\ failed[d] \subseteq NumbersOf(log[d])
  BY KnownNumbers, DeviceTypes
<1>5. m \in Nat /\ DOMAIN missing = 1..m /\ \A p \in 1..m : missing[p] \in NumbersOf(missing)
  <2>1. m \in Nat /\ DOMAIN missing = 1..m
    BY <1>2
  <2> QED
    BY <2>1 DEF NumbersOf
<1>6. /\ log'[d] = log[d] \o missing /\ live'[d] = Replayed(live[d], missing)
      /\ batch'[d].all = missing /\ batch'[d].left = missing
      /\ \A e \in Devices : e # d =>
           /\ log'[e] = log[e] /\ live'[e] = live[e] /\ batch'[e] = batch[e]
  BY <1>1, <1>3
<1>7. /\ doubt \subseteq exposed'[d]
      /\ \A e \in Devices : exposed[e] \subseteq exposed'[e]
  <2>1. OpsOf(missing) \in Seq(Ops)
    BY <1>2, <1>3, OpsOfTypes
  <2>2. doubt \in SUBSET Tasks /\ {} \in SUBSET Tasks
    BY <2>1, TasksTypes DEF Contested
  <2> HIDE DEF doubt
  <2> QED
    BY <1>1, <1>3, <2>2, ExposingTypes
<1>8. /\ DOMAIN log'[d] = 1..n + m
      /\ \A p \in 1..n : log'[d][p] = log[d][p]
      /\ \A p \in 1..m : log'[d][n + p] = missing[p]
      /\ \A p \in 1..n + m : p \notin 1..n => p - n \in 1..m /\ log'[d][p] = missing[p - n]
  <2>1. /\ log[d] \o missing \in Seq(DOMAIN ops) /\ Len(log[d] \o missing) = n + m
        /\ \A p \in 1..n + m :
             (log[d] \o missing)[p] = IF p <= n THEN log[d][p] ELSE missing[p - n]
    BY <1>2, <1>4, ConcatProperties
  <2> DEFINE both == log[d] \o missing
  <2>2. DOMAIN both = 1..n + m
    <3> HIDE DEF both
    <3> QED
      BY <2>1 DEF both
  <2>3. \A p \in 1..n + m : both[p] = IF p <= n THEN log[d][p] ELSE missing[p - n]
    BY <2>1
  <2>4. log'[d] = both
    BY <1>6
  <2> HIDE DEF both, n, m
  <2>5. ASSUME NEW p \in 1..n
        PROVE  both[p] = log[d][p]
    <3>1. p \in 1..n + m /\ p <= n
      BY <1>4, <1>5
    <3> QED
      BY <3>1, <2>3
  <2>6. ASSUME NEW p \in 1..m
        PROVE  both[n + p] = missing[p]
    <3>1. n + p \in 1..n + m /\ ~(n + p <= n) /\ (n + p) - n = p
      BY <1>4, <1>5
    <3> QED
      BY <3>1, <2>3
  <2>7. ASSUME NEW p \in 1..n + m, p \notin 1..n
        PROVE  p - n \in 1..m /\ both[p] = missing[p - n]
    <3>1. p - n \in 1..m /\ ~(p <= n)
      BY <2>7, <1>4, <1>5
    <3> QED
      BY <3>1, <2>3
  <2> QED
    BY <2>2, <2>4, <2>5, <2>6, <2>7
<1> HIDE DEF n, m
<1>9. OpsGrow
  BY <1>1 DEF OpsGrow
<1>10. ShownHere(d)'
  <2> DEFINE kept == Replayed({}, log[d])
  <2>1. kept \in SUBSET Tasks /\ OpsOf(log[d]) \in Seq(Ops) /\ OpsOf(missing) \in Seq(Ops)
    BY <1>2, <1>3, ShownTypes, OpsOfTypes
  <2>2. OpsOf(log[d])' = OpsOf(log[d]) \o OpsOf(missing)
    <3> DEFINE a == OpsOf(log[d])
               b == OpsOf(missing)
               both == [k \in 1..n + m |-> ops[log'[d][k]]]
    <3>1. OpsOf(log[d])' = both
      BY <1>1, <1>8 DEF OpsOf
    <3>2. /\ a \in Seq(Ops) /\ b \in Seq(Ops) /\ Len(a) = n /\ Len(b) = m
          /\ \A k \in 1..n : a[k] = ops[log[d][k]]
          /\ \A k \in 1..m : b[k] = ops[missing[k]]
      BY <1>2, <1>3, <1>4, <1>5, OpsOfTypes DEF n, m
    <3> HIDE DEF a, b
    <3> DEFINE c == a \o b
    <3>3. /\ c \in Seq(Ops) /\ Len(c) = n + m
          /\ \A k \in 1..n + m : c[k] = IF k <= n THEN a[k] ELSE b[k - n]
      BY <3>2, ConcatProperties
    <3> HIDE DEF c
    <3>4. c = [k \in 1..n + m |-> c[k]]
      BY <3>3, <1>4, <1>5
    <3>5. ASSUME NEW k \in 1..n + m
          PROVE  both[k] = c[k]
      <4>1. CASE k \in 1..n
        <5>1. k <= n /\ log'[d][k] = log[d][k]
          BY <4>1, <1>4, <1>8
        <5> QED
          BY <4>1, <5>1, <3>2, <3>3
      <4>2. CASE k \notin 1..n
        <5>1. ~(k <= n) /\ k - n \in 1..m /\ log'[d][k] = missing[k - n]
          BY <4>2, <1>4, <1>5, <1>8
        <5> QED
          BY <5>1, <3>2, <3>3
      <4> QED
        BY <4>1, <4>2
    <3>6. both = c
      BY <3>4, <3>5
    <3> QED
      BY <3>1, <3>6 DEF c, a, b
  <2>3. Replayed({}, log[d])' = ReducedAll(kept, OpsOf(missing))
    <3>1. {} \in SUBSET Tasks
      OBVIOUS
    <3>2. Replayed({}, log[d])' = ReducedAll({}, OpsOf(log[d]) \o OpsOf(missing))
      BY <2>2 DEF Replayed
    <3> QED
      BY <3>1, <3>2, <2>1, RunOfConcat DEF Replayed
  <2>4. Shown(d)' = ReducedAll(kept, OpsOf(missing)) /\ Shown(d) = kept
    <3>1. ReducedAll(kept, OpsOf(missing)) \in SUBSET Tasks
      BY <2>1, RunSteps
    <3> HIDE DEF kept
    <3>2. /\ Shown(d)' = ReducedAll(ReducedAll(kept, OpsOf(missing)), <<>>)
          /\ Shown(d) = ReducedAll(kept, <<>>)
      BY <2>3, <1>1 DEF Shown, kept
    <3> QED
      BY <3>1, <3>2, <2>1, RunOfNone
  <2> HIDE DEF kept
  <2>5. ASSUME NEW t \in Tasks, t \notin exposed'[d]
        PROVE  t \in live'[d] <=> t \in Shown(d)'
    <3>1. live[d] \in SUBSET Tasks /\ (t \in live[d] <=> t \in kept)
      BY <2>4, <2>5, <1>3, <1>7 DEF ShownInv, ShownHere
    <3>2. live'[d] = ReducedAll(live[d], OpsOf(missing))
      BY <1>6 DEF Replayed
    <3> QED
      BY <3>1, <3>2, <2>1, <2>4, RunAgrees
  <2> QED
    BY <2>5 DEF ShownHere
<1>11. RetryLast(d)'
  <2>1. RetryLast(d)
    BY DEF ShownInv
  <2>2. \A p \in 1..n : log[d][p] \notin NumbersOf(missing)
    BY <1>2, <1>4 DEF NumbersOf
  <2>3. \A p, q \in 1..m : missing[p] = missing[q] => p = q
    <3>1. \A p \in 1..m : missing[p] \in Nat
      <4>1. \A i \in DOMAIN ops : i \in Nat
        BY <1>3, OpTypes
      <4> QED
        BY <4>1, <1>2, <1>5
    <3> QED
      BY <3>1, <1>2, <1>5
  <2>4. ASSUME NEW p \in 1..n + m, NEW q \in 1..n + m, log'[d][p] = log'[d][q]
        PROVE  p = q
    <3>1. CASE p \in 1..n /\ q \in 1..n
      BY <3>1, <2>1, <2>4, <1>4, <1>8 DEF RetryLast, Distinct
    <3>2. CASE p \notin 1..n /\ q \notin 1..n
      <4>1. p - n \in 1..m /\ q - n \in 1..m /\ missing[p - n] = missing[q - n]
        BY <3>2, <2>4, <1>8
      <4>2. p - n = q - n
        BY <4>1, <2>3
      <4> QED
        BY <4>2, <1>4, <1>5
    <3>3. CASE p \in 1..n /\ q \notin 1..n
      <4>1. log'[d][p] = log[d][p] /\ log'[d][q] \in NumbersOf(missing)
        BY <3>3, <1>5, <1>8
      <4> QED
        BY <3>3, <4>1, <2>2, <2>4
    <3>4. CASE p \notin 1..n /\ q \in 1..n
      <4>1. log'[d][q] = log[d][q] /\ log'[d][p] \in NumbersOf(missing)
        BY <3>4, <1>5, <1>8
      <4> QED
        BY <3>4, <4>1, <2>2, <2>4
    <3> QED
      BY <3>1, <3>2, <3>3, <3>4
  <2>5. Distinct(log[d])'
    BY <2>4, <1>8 DEF Distinct
  <2>6. InOrder(missing, log'[d])
    <3> SUFFICES ASSUME NEW i \in 1..m, NEW j \in 1..m, i < j,
                        NEW p \in 1..n + m, NEW q \in 1..n + m,
                        log'[d][p] = missing[i], log'[d][q] = missing[j]
                 PROVE  p < q
      BY <1>5, <1>8 DEF InOrder
    <3>1. n + i \in 1..n + m /\ n + j \in 1..n + m
      BY <1>4, <1>5
    <3>2. p = n + i /\ q = n + j
      BY <3>1, <2>4, <1>8
    <3> QED
      BY <3>2, <1>4, <1>5
  <2>7. ASSUME NEW t \in Tasks, t \notin exposed'[d]
        PROVE  /\ ComesLast(d, t, failed[d])'
               /\ ComesLast(d, t, Outstanding(d))'
               /\ \/ On(t) \intersect (failed[d] \ NumbersOf(missing)) = {}
                  \/ On(t) \intersect NumbersOf(missing) = {}
    <3>1. ASSUME NEW i \in On(t) \intersect NumbersOf(missing)
          PROVE  On(t) \intersect failed[d] = {}
      <4>1. t \in TasksOf(OpsOf(missing))
        <5>1. PICK k \in 1..m : i = missing[k]
          BY <3>1, <1>5 DEF NumbersOf
        <5>2. OpsOf(missing)[k] = ops[i] /\ k \in DOMAIN OpsOf(missing) /\ t \in ops[i].tasks
          BY <5>1, <3>1, <1>2, <1>3, <1>5, OpsOfTypes DEF On
        <5> QED
          BY <5>2 DEF TasksOf, NumbersOf
      <4>2. t \notin doubt
        BY <2>7, <1>7
      <4> QED
        BY <4>1, <4>2, <1>4, Uncontested
    <3>2. ASSUME NEW p \in 1..n + m, NEW q \in 1..n + m, p < q,
                 log'[d][p] \in On(t), log'[d][q] \in On(t), log'[d][p] \in failed[d]
          PROVE  log'[d][q] \in failed[d] /\ q \in 1..n
      <4>1. log'[d][q] \notin NumbersOf(missing)
        BY <3>1, <3>2
      <4>2. q \in 1..n
        BY <4>1, <1>5, <1>8
      <4>3. p \in 1..n
        BY <4>2, <3>2, <1>4
      <4> QED
        BY <4>2, <4>3, <3>2, <2>1, <2>7, <1>4, <1>7, <1>8 DEF RetryLast, ComesLast
    <3>3. ComesLast(d, t, failed[d])'
      BY <3>2, <1>1, <1>8 DEF ComesLast, On
    <3>4. Outstanding(d)' = failed[d] \union NumbersOf(missing)
      BY <1>1, <1>6 DEF Outstanding, NumbersOf
    <3>5. ASSUME NEW p \in 1..n + m, NEW q \in 1..n + m, p < q,
                 log'[d][p] \in On(t), log'[d][q] \in On(t),
                 log'[d][p] \in failed[d] \union NumbersOf(missing)
          PROVE  log'[d][q] \in failed[d] \union NumbersOf(missing)
      <4>1. CASE log'[d][p] \in failed[d]
        BY <4>1, <3>2, <3>5
      <4>2. CASE log'[d][p] \in NumbersOf(missing)
        <5>1. p \notin 1..n
          BY <4>2, <2>2, <1>8
        <5>2. q \notin 1..n
          BY <5>1, <3>5, <1>4, <1>5
        <5> QED
          BY <5>2, <1>5, <1>8
      <4> QED
        BY <4>1, <4>2, <3>5
    <3>6. ComesLast(d, t, Outstanding(d))'
      BY <3>4, <3>5, <1>1, <1>8 DEF ComesLast, On
    <3> QED
      BY <3>1, <3>3, <3>6
  <2>8. \A t : On(t)' = On(t)
    BY <1>1 DEF On
  <2>9. DOMAIN waiting'[d] = {}
    BY <1>1
  <2>10. /\ NumbersOf(batch[d].left)' = NumbersOf(missing)
         /\ NumbersOf(batch[d].all)' = NumbersOf(missing)
    BY <1>6 DEF NumbersOf
  <2>11. InOrder(batch[d].left, log[d])'
    BY <2>6, <1>6 DEF InOrder
  <2> QED
    BY <2>5, <2>7, <2>8, <2>9, <2>10, <2>11, <1>1 DEF RetryLast
<1> QED
  BY <1>1, <1>6, <1>7, <1>9, <1>10, <1>11, ElsewhereShown

\* A job that ends: the replay is done with the first operation left.
LEMMA EndedShown ==
  ASSUME TypeInv, ShownInv, NEW d \in Devices, NEW a \in Jobs, Ended(d, a),
         a = "replay" => batch[d].left # <<>>,
         \A e \in Devices : exposed[e] \subseteq exposed'[e]
  PROVE  ShownInv'
<1> DEFINE rest == Tail(batch[d].left)
<1>1. /\ Leave(d, a, IF a = "replay" THEN rest ELSE <<>>)
      /\ UNCHANGED <<ops, waiting, log, live, queue, spent>>
  BY DEF Ended
<1>2. CASE a # "replay"
  <2>1. UNCHANGED <<batch, failed>>
    BY <1>1, <1>2 DEF Leave
  <2> QED
    BY <2>1, <1>1, NothingShown
<1>3. CASE a = "replay"
  <2> DEFINE left == batch[d].left
             all == NumbersOf(batch[d].all)
  <2>1. left # <<>> /\ left \in Seq(DOMAIN ops) /\ RetryLast(d)
    BY <1>3, DeviceTypes DEF ShownInv
  <2>2. /\ batch \in [Devices -> Batches(DOMAIN ops)] /\ failed \in [Devices -> SUBSET DOMAIN ops]
    BY TypeParts DEF BatchesOK, FailedOK
  <2>3. /\ IF rest # <<>>
             THEN batch' = [batch EXCEPT ![d].left = rest] /\ failed' = failed
             ELSE batch' = [batch EXCEPT ![d] = NoBatch] /\ failed' = [failed EXCEPT ![d] = @ \ all]
    BY <1>1, <1>3 DEF Leave
  <2>4. /\ NumbersOf(left) = {left[1]} \union NumbersOf(rest)
        /\ 1 \in DOMAIN left
        /\ \A k \in DOMAIN rest : k + 1 \in DOMAIN left /\ rest[k] = left[k + 1]
    BY <2>1, NumbersOfTail, TailPositions
  <2>5. \A k \in DOMAIN left : k \in Nat
    BY <2>1
  <2>6. DOMAIN rest \subseteq Nat \ {0}
    <3>1. rest \in Seq(DOMAIN ops)
      BY <2>1, TailPositions
    <3> HIDE DEF rest
    <3> QED
      BY <3>1
  <2> HIDE DEF rest, left
  <2>7. ShownHere(d)'
    <3>1. ShownHere(d) /\ OpsGrow
      BY <1>1, SameOps DEF ShownInv
    <3> QED
      BY <3>1, <1>1, StillShown
  <2>8. \A t : On(t)' = On(t)
    BY <1>1 DEF On
  <2>9. CASE rest # <<>>
    <3>1. batch'[d].left = rest /\ batch'[d].all = batch[d].all /\ failed'[d] = failed[d]
      BY <2>2, <2>3, <2>9 DEF Batches
    <3>2. /\ NumbersOf(batch[d].left)' = NumbersOf(rest) /\ NumbersOf(batch[d].all)' = all
      BY <3>1 DEF NumbersOf
    <3>3. InOrder(batch[d].left, log[d])'
      <4>1. InOrder(rest, log[d])
        <5> SUFFICES ASSUME NEW i \in DOMAIN rest, NEW j \in DOMAIN rest, i < j,
                            NEW p \in DOMAIN log[d], NEW q \in DOMAIN log[d],
                            log[d][p] = rest[i], log[d][q] = rest[j]
                     PROVE  p < q
          BY DEF InOrder
        <5>1. /\ i + 1 \in DOMAIN left /\ j + 1 \in DOMAIN left /\ i + 1 < j + 1
              /\ rest[i] = left[i + 1] /\ rest[j] = left[j + 1]
          BY <2>4, <2>6
        <5> QED
          BY <5>1, <2>1 DEF RetryLast, InOrder, left
      <4> QED
        BY <4>1, <3>1, <1>1 DEF InOrder
    <3>4. Distinct(log[d])'
      BY <2>1, <1>1 DEF RetryLast, Distinct
    <3>5. ASSUME NEW t \in Tasks, t \notin exposed'[d]
          PROVE  /\ ComesLast(d, t, failed[d])'
                 /\ ComesLast(d, t, Outstanding(d))'
                 /\ \/ On(t) \intersect (failed[d] \ all) = {}
                    \/ On(t) \intersect NumbersOf(rest) = {}
                 /\ \A k \in DOMAIN waiting[d] : t \in waiting[d][k].tasks =>
                      On(t) \intersect (failed[d] \union NumbersOf(rest)) = {}
      <4>1. /\ ComesLast(d, t, failed[d]) /\ ComesLast(d, t, Outstanding(d))
            /\ \/ On(t) \intersect (failed[d] \ all) = {}
               \/ On(t) \intersect NumbersOf(left) = {}
            /\ \A k \in DOMAIN waiting[d] : t \in waiting[d][k].tasks =>
                 On(t) \intersect (failed[d] \union NumbersOf(left)) = {}
        BY <2>1, <3>5 DEF RetryLast, left
      <4>2. /\ Outstanding(d) = (failed[d] \ all) \union NumbersOf(left)
            /\ Outstanding(d)' = (failed[d] \ all) \union NumbersOf(rest)
        BY <3>1, <3>2 DEF Outstanding, left
      <4>3. ASSUME NEW p \in DOMAIN log[d], NEW q \in DOMAIN log[d], p < q,
                   log[d][p] \in On(t), log[d][q] \in On(t),
                   log[d][p] \in (failed[d] \ all) \union NumbersOf(rest)
            PROVE  log[d][q] \in (failed[d] \ all) \union NumbersOf(rest)
        <5>1. log[d][q] \in (failed[d] \ all) \union NumbersOf(left)
          BY <4>1, <4>2, <4>3, <2>4 DEF ComesLast
        <5>2. CASE log[d][q] = left[1] /\ log[d][p] \in NumbersOf(rest)
          <6>1. PICK k \in DOMAIN rest : log[d][p] = rest[k]
            BY <5>2 DEF NumbersOf
          <6>2. k + 1 \in DOMAIN left /\ log[d][p] = left[k + 1] /\ 1 < k + 1
            BY <6>1, <2>4, <2>6
          <6>3. q < p
            BY <6>2, <5>2, <2>1, <2>4 DEF RetryLast, InOrder, left
          <6>4. p \in Nat /\ q \in Nat
            BY KnownNumbers
          <6> QED
            BY <6>3, <6>4, <4>3
        <5>3. CASE log[d][q] = left[1] /\ log[d][p] \notin NumbersOf(rest)
          <6>1. log[d][p] \in failed[d] \ all /\ log[d][q] \in NumbersOf(left)
            BY <5>3, <4>3, <2>4
          <6> QED
            BY <6>1, <4>1, <4>3
        <5>4. CASE log[d][q] # left[1]
          BY <5>1, <5>4, <2>4
        <5> QED
          BY <5>2, <5>3, <5>4
      <4>4. ComesLast(d, t, failed[d])'
        BY <4>1, <3>1, <2>8, <1>1 DEF ComesLast
      <4>5. ComesLast(d, t, Outstanding(d))'
        BY <4>2, <4>3, <2>8, <1>1 DEF ComesLast
      <4> QED
        BY <4>1, <4>4, <4>5, <2>4
    <3>6. RetryLast(d)'
      BY <3>1, <3>2, <3>3, <3>4, <3>5, <2>8, <1>1 DEF RetryLast
    <3>7. \A e \in Devices : e # d => batch'[e] = batch[e] /\ failed'[e] = failed[e]
      BY <2>2, <2>3, <2>9
    <3> QED
      BY <3>6, <3>7, <2>7, <1>1, SameOps, ElsewhereShown
  <2>10. CASE rest = <<>>
    <3>1. batch'[d] = NoBatch /\ failed'[d] = failed[d] \ all
      BY <2>2, <2>3, <2>10
    <3>2. batch'[d].left = <<>> /\ NumbersOf(batch[d].left)' = {}
      BY <3>1, NoNumbers DEF NoBatch, NumbersOf
    <3>3. Distinct(log[d])' /\ InOrder(batch[d].left, log[d])'
      BY <3>2, <2>1, <1>1 DEF RetryLast, Distinct, InOrder
    <3>4. ASSUME NEW t \in Tasks, t \notin exposed'[d]
          PROVE  /\ ComesLast(d, t, failed[d])'
                 /\ \A k \in DOMAIN waiting[d] : t \in waiting[d][k].tasks =>
                      On(t) \intersect failed'[d] = {}
      <4>1. /\ ComesLast(d, t, Outstanding(d))
            /\ \/ On(t) \intersect (failed[d] \ all) = {}
               \/ On(t) \intersect NumbersOf(left) = {}
            /\ \A k \in DOMAIN waiting[d] : t \in waiting[d][k].tasks =>
                 On(t) \intersect (failed[d] \union NumbersOf(left)) = {}
        BY <2>1, <3>4 DEF RetryLast, left
      <4>2. Outstanding(d) = (failed[d] \ all) \union NumbersOf(left)
        BY DEF Outstanding, left
      <4>3. ComesLast(d, t, failed[d])'
        BY <4>1, <4>2, <3>1, <2>8, <1>1 DEF ComesLast
      <4> QED
        BY <4>1, <4>3, <3>1
    <3>5. RetryLast(d)'
      BY <3>2, <3>3, <3>4, <2>8, <1>1 DEF RetryLast
    <3>6. \A e \in Devices : e # d => batch'[e] = batch[e] /\ failed'[e] = failed[e]
      BY <2>2, <2>3, <2>10
    <3> QED
      BY <3>5, <3>6, <2>7, <1>1, SameOps, ElsewhereShown
  <2> QED
    BY <2>9, <2>10
<1> QED
  BY <1>2, <1>3

LEMMA ReplayFailsShown ==
  ASSUME TypeInv, ShownInv, NEW d \in Devices, ReplayFails(d)
  PROVE  ShownInv'
<1>1. /\ failed' = [failed EXCEPT ![d] = Outstanding(d)]
      /\ batch' = [batch EXCEPT ![d] = NoBatch]
      /\ UNCHANGED <<ops, waiting, log, live, exposed>> /\ job[d]["replay"].pc # "rest"
  BY DEF ReplayFails, Failing, Outstanding, Unapplied
<1>2. batch \in [Devices -> Batches(DOMAIN ops)] /\ failed \in [Devices -> SUBSET DOMAIN ops]
  BY TypeParts DEF BatchesOK, FailedOK
<1>3. RetryLast(d) /\ batch[d].left # <<>>
  <2>1. "replay" \in Jobs
    BY DEF Jobs
  <2> QED
    BY <2>1, <1>1, JobTypes DEF ShownInv
<1>4. /\ batch'[d] = NoBatch /\ failed'[d] = Outstanding(d)
      /\ \A e \in Devices : e # d => batch'[e] = batch[e] /\ failed'[e] = failed[e]
  BY <1>1, <1>2
<1>5. batch'[d].left = <<>> /\ NumbersOf(batch[d].left)' = {}
  BY <1>4, NoNumbers DEF NoBatch, NumbersOf
<1>6. \A t : On(t)' = On(t)
  BY <1>1 DEF On
<1>7. Distinct(log[d])' /\ InOrder(batch[d].left, log[d])'
  BY <1>1, <1>3, <1>5 DEF RetryLast, Distinct, InOrder
<1>8. ASSUME NEW t \in Tasks, t \notin exposed[d]
      PROVE  /\ ComesLast(d, t, failed[d])'
             /\ \A k \in DOMAIN waiting[d] : t \in waiting[d][k].tasks =>
                  On(t) \intersect failed'[d] = {}
  <2>1. /\ ComesLast(d, t, Outstanding(d))
        /\ \A k \in DOMAIN waiting[d] : t \in waiting[d][k].tasks =>
             On(t) \intersect (failed[d] \union NumbersOf(batch[d].left)) = {}
    BY <1>3, <1>8 DEF RetryLast
  <2>2. failed'[d] \subseteq failed[d] \union NumbersOf(batch[d].left)
    BY <1>4 DEF Outstanding
  <2>3. ComesLast(d, t, failed[d])'
    BY <2>1, <1>1, <1>4, <1>6 DEF ComesLast
  <2> QED
    BY <2>1, <2>2, <2>3
<1>9. RetryLast(d)'
  BY <1>1, <1>5, <1>6, <1>7, <1>8 DEF RetryLast
<1>10. ShownHere(d)'
  <2>1. ShownHere(d) /\ OpsGrow
    BY <1>1, SameOps DEF ShownInv
  <2> QED
    BY <2>1, <1>1, StillShown
<1> QED
  BY <1>1, <1>4, <1>9, <1>10, SameOps, ElsewhereShown

\* The retry of all that failed shows nothing new of a task that is not in doubt.
LEMMA RetryShows ==
  ASSUME TypeInv, ShownInv, NEW d \in Devices, NEW t \in Tasks, t \notin exposed[d]
  PROVE  t \in Replayed(Replayed({}, log[d]), Retried(d)) <=> t \in Replayed({}, log[d])
<1> DEFINE kept == Replayed({}, log[d])
           s == log[d]
           r == Retried(d)
           first == OpsOf(s)
           again == OpsOf(r)
<1>1. /\ s \in Seq(DOMAIN ops) /\ Len(s) \in Nat /\ DOMAIN s = 1..Len(s)
      /\ \A p \in DOMAIN s : s[p] \in DOMAIN ops
      /\ failed[d] \subseteq NumbersOf(s) /\ LogsOK
  BY KnownNumbers, DeviceTypes, TypeParts
<1>2. RetryLast(d) /\ TypeOK
  BY DEF ShownInv, TypeInv
<1>3. /\ r \in Seq(DOMAIN ops) /\ NumbersOf(r) = failed[d] /\ InOrder(r, s)
  BY <1>2, RetriedNumbers DEF RetryLast
<1>4. ComesLast(d, t, failed[d])
  BY <1>2 DEF RetryLast
<1>5. /\ first \in Seq(Ops) /\ DOMAIN first = DOMAIN s /\ \A k \in DOMAIN s : first[k] = ops[s[k]]
      /\ again \in Seq(Ops) /\ DOMAIN again = DOMAIN r /\ \A k \in DOMAIN r : again[k] = ops[r[k]]
  <2> HIDE DEF s, r
  <2> QED
    BY <1>1, <1>3, OpsOfTypes
<1>6. kept = ReducedAll({}, first) /\ Replayed(kept, r) = ReducedAll(kept, again)
  BY DEF Replayed
<1>7. kept \in SUBSET Tasks /\ {} \in SUBSET Tasks
  BY ShownTypes
<1>8. \A k \in DOMAIN s : Moves(first[k], t) => s[k] \in On(t)
  BY <1>1, <1>5 DEF Moves, On
<1>9. Len(r) \in Nat /\ DOMAIN r = 1..Len(r)
  BY <1>3
<1> HIDE DEF kept, s, r, first, again
<1>10. CASE \A k \in DOMAIN again : ~Moves(again[k], t)
  BY <1>10, <1>5, <1>6, <1>7, RunShows DEF kept, r
<1>11. CASE \E k \in DOMAIN again : Moves(again[k], t)
  <2>1. PICK j \in DOMAIN again :
          Moves(again[j], t) /\ \A k \in DOMAIN again : Moves(again[k], t) => k <= j
    BY <1>5, <1>11, LastMove
  <2>2. t \in Replayed(kept, r) <=> again[j].kind # "archive"
    BY <2>1, <1>5, <1>6, <1>7, RunShows
  <2>3. PICK p \in DOMAIN s : s[p] = r[j]
    <3>1. r[j] \in NumbersOf(r)
      BY <1>5 DEF NumbersOf
    <3>2. r[j] \in NumbersOf(s)
      BY <3>1, <1>1, <1>3
    <3> QED
      BY <3>2 DEF NumbersOf
  <2>4. Moves(first[p], t)
    BY <2>1, <2>3, <1>5
  <2>5. PICK q \in DOMAIN first :
          Moves(first[q], t) /\ \A k \in DOMAIN first : Moves(first[k], t) => k <= q
    BY <2>4, <1>5, LastMove
  <2>6. p <= q /\ p \in Nat /\ q \in Nat
    BY <2>4, <2>5, <1>1, <1>5
  <2>7. t \in kept <=> first[q].kind # "archive"
    BY <2>5, <1>5, <1>6, <1>7, RunShows
  <2>8. s[q] \in failed[d]
    <3>1. s[p] \in failed[d]
      BY <2>3, <1>3, <1>5 DEF NumbersOf
    <3>2. CASE p = q
      BY <3>1, <3>2
    <3>3. CASE p < q
      BY <3>1, <3>3, <2>4, <2>5, <1>4, <1>5, <1>8 DEF ComesLast, s
    <3> QED
      BY <3>2, <3>3, <2>6
  <2>9. PICK i \in DOMAIN r : r[i] = s[q]
    BY <2>8, <1>3 DEF NumbersOf
  <2>10. Moves(again[i], t)
    BY <2>5, <2>9, <1>5
  <2>11. i <= j
    BY <2>1, <2>10, <1>5
  <2>12. i = j
    <3>1. CASE i < j
      <4>1. q < p
        BY <3>1, <2>3, <2>9, <1>3, <1>5 DEF InOrder
      <4> QED
        BY <4>1, <2>6
    <3> QED
      BY <3>1, <2>11, <1>5, <1>9
  <2>13. again[j] = first[q]
    BY <2>5, <2>9, <2>12, <1>5
  <2> QED
    BY <2>2, <2>7, <2>13 DEF kept, r
<1> QED
  BY <1>10, <1>11

LEMMA RestartShown ==
  ASSUME TypeInv, ShownInv, NEW d \in Devices, Restart(d)
  PROVE  ShownInv'
<1> DEFINE retried == Retried(d)
           shown == Replayed(Replayed({}, log[d]), retried)
<1>1. /\ live' = [live EXCEPT ![d] = shown]
      /\ batch' = [batch EXCEPT ![d] = [all |-> retried, left |-> retried]]
      /\ waiting' = [waiting EXCEPT ![d] = <<>>]
      /\ \A e \in Devices : exposed[e] \subseteq exposed'[e]
      /\ UNCHANGED <<ops, log, failed, young, old>>
  <2>1. \A e \in Devices : exposed[e] \subseteq exposed'[e]
    BY TypeParts DEF Restart, Exposing, SetsOK
  <2> QED
    BY <2>1 DEF Restart
<1>2. RetryLast(d) /\ TypeOK
  BY DEF ShownInv, TypeInv
<1>3. /\ retried \in Seq(DOMAIN ops) /\ NumbersOf(retried) = failed[d]
      /\ InOrder(retried, log[d])
  BY <1>2, RetriedNumbers DEF RetryLast
<1>4. /\ batch \in [Devices -> Batches(DOMAIN ops)] /\ waiting \in [Devices -> Seq(Ops)]
      /\ live \in [Devices -> SUBSET Tasks]
  BY TypeParts DEF BatchesOK, WaitingOK, SetsOK
<1>5. \A t \in Tasks \ exposed[d] : t \in shown <=> t \in Replayed({}, log[d])
  BY RetryShows
<1> HIDE DEF retried, shown
<1>6. /\ live'[d] = shown /\ batch'[d].all = retried /\ batch'[d].left = retried
      /\ waiting'[d] = <<>>
      /\ \A e \in Devices : e # d =>
           /\ log'[e] = log[e] /\ waiting'[e] = waiting[e] /\ live'[e] = live[e]
           /\ failed'[e] = failed[e] /\ batch'[e] = batch[e]
  BY <1>1, <1>4
<1>7. OpsGrow
  BY <1>1, SameOps
<1>8. ShownHere(d)'
  <2>1. Replayed({}, log[d]) \in SUBSET Tasks
    BY ShownTypes
  <2>2. Shown(d)' = ReducedAll(Replayed({}, log[d]), <<>>)
    BY <1>1, <1>6 DEF Shown, Replayed, OpsOf
  <2>3. Shown(d)' = Replayed({}, log[d])
    BY <2>1, <2>2, RunOfNone
  <2> QED
    BY <2>3, <1>1, <1>5, <1>6 DEF ShownHere
<1>9. RetryLast(d)'
  <2>1. /\ NumbersOf(batch[d].left)' = failed[d] /\ NumbersOf(batch[d].all)' = failed[d]
    BY <1>3, <1>6 DEF NumbersOf
  <2>2. Outstanding(d)' = failed[d]
    BY <2>1, <1>1 DEF Outstanding
  <2>3. \A t : On(t)' = On(t)
    BY <1>1 DEF On
  <2>4. Distinct(log[d])' /\ InOrder(batch[d].left, log[d])'
    BY <1>1, <1>2, <1>3, <1>6 DEF RetryLast, Distinct, InOrder
  <2>5. \A t \in Tasks \ exposed'[d] :
          ComesLast(d, t, failed[d])' /\ ComesLast(d, t, Outstanding(d))'
    BY <2>2, <2>3, <1>1, <1>2 DEF RetryLast, ComesLast
  <2>6. DOMAIN waiting'[d] = {} /\ failed'[d] \ NumbersOf(batch[d].all)' = {}
    BY <2>1, <1>1, <1>6
  <2> QED
    BY <2>4, <2>5, <2>6 DEF RetryLast
<1> QED
  BY <1>1, <1>6, <1>7, <1>8, <1>9, ElsewhereShown

-----------------------------------------------------------------------------
(* All steps *)

\* A step of a job that goes on.
LEMMA ContinuedShown ==
  ASSUME TypeInv, ShownInv, NEW d, NEW a, NEW j, Continued(d, a, j),
         \A e \in Devices : exposed[e] \subseteq exposed'[e]
  PROVE  ShownInv'
<1>1. UNCHANGED <<ops, waiting, log, live, failed, batch>>
  BY DEF Continued
<1> QED
  BY <1>1, NothingShown

LEMMA ExposedGrows ==
  ASSUME TypeInv, NEW d, NEW a, NEW tasks, Wrote(d, a, tasks)
  PROVE  \A e \in Devices : exposed[e] \subseteq exposed'[e]
BY DEF Wrote, Exposing

LEMMA StartsShown ==
  ASSUME TypeInv, ShownInv, NEW d \in Devices, StartEffect(d) \/ StartSideEffect(d)
  PROVE  ShownInv'
<1>1. CASE StartEffect(d)
  <2>1. UNCHANGED <<ops, waiting, log, live, failed, batch, exposed>>
    BY <1>1 DEF StartEffect
  <2> QED
    BY <2>1, NothingShown
<1>2. CASE StartSideEffect(d)
  <2> DEFINE op == ops[Head(batch[d].left)]
  <2>1. /\ batch[d].left # <<>> /\ exposed' = exposed
        /\ IF op.kind = "create" THEN Ended(d, "replay")
           ELSE Continued(d, "replay", Started(SideEffect[op.kind], op.tasks))
    BY <1>2 DEF StartSideEffect
  <2>2. "replay" \in Jobs
    BY DEF Jobs
  <2> HIDE DEF op
  <2>3. CASE op.kind = "create"
    BY <2>1, <2>2, <2>3, EndedShown
  <2>4. CASE op.kind # "create"
    BY <2>1, <2>4, ContinuedShown
  <2> QED
    BY <2>3, <2>4
<1> QED
  BY <1>1, <1>2

LEMMA JobStepShown ==
  ASSUME TypeInv, ShownInv, NEW d \in Devices, NEW a \in Jobs, JobStep(d, a)
  PROVE  ShownInv'
<1>1. job[d][a].pc # "rest" => (a = "replay" => batch[d].left # <<>>)
  BY JobTypes
<1>2. CASE LoadYoung(d, a)
  <2>1. \E j : Continued(d, a, j) /\ exposed' = exposed
    BY <1>2 DEF LoadYoung
  <2> QED
    BY <2>1, ContinuedShown
<1>3. CASE LoadOld(d, a)
  <2>1. exposed' = exposed /\ (Ended(d, a) \/ \E j : Continued(d, a, j))
    <3>1. job[d][a].kind \in {"archive", "delete", "flush"}
      BY <1>3, JobTypes DEF LoadOld
    <3> QED
      BY <1>3, <3>1 DEF LoadOld
  <2>2. a = "replay" => batch[d].left # <<>>
    BY <1>1, <1>3 DEF LoadOld
  <2> QED
    BY <2>1, <2>2, EndedShown, ContinuedShown
<1>4. CASE AddToYoung(d, a)
  <2>1. /\ Ended(d, a) \/ \E j : Continued(d, a, j)
        /\ Wrote(d, a, job[d][a].tasks)
    BY <1>4 DEF AddToYoung
  <2>2. a = "replay" => batch[d].left # <<>>
    BY <1>1, <1>4 DEF AddToYoung, At
  <2> QED
    BY <2>1, <2>2, ExposedGrows, EndedShown, ContinuedShown
<1>5. CASE DeleteFromYoung(d, a) \/ DeleteFromOld(d, a)
  <2>1. Ended(d, a) /\ Wrote(d, a, job[d][a].tasks)
    BY <1>5 DEF DeleteFromYoung, DeleteFromOld
  <2>2. a = "replay" => batch[d].left # <<>>
    BY <1>1, <1>5 DEF DeleteFromYoung, DeleteFromOld, At
  <2> QED
    BY <2>1, <2>2, ExposedGrows, EndedShown
<1>6. CASE FlushBoth(d, a)
  <2>1. Ended(d, a) /\ Wrote(d, a, job[d][a].young \intersect Old)
    BY <1>6 DEF FlushBoth
  <2>2. a = "replay" => batch[d].left # <<>>
    BY <1>1, <1>6 DEF FlushBoth, At
  <2> QED
    BY <2>1, <2>2, ExposedGrows, EndedShown
<1> QED
  BY <1>2, <1>3, <1>4, <1>5, <1>6 DEF JobStep

LEMMA FlushShown ==
  ASSUME TypeInv, ShownInv, NEW d \in Devices, FlushYoung(d) \/ FlushOld(d)
  PROVE  ShownInv'
<1>1. /\ \E j : Continued(d, "service", j)
      /\ Wrote(d, "service", job[d]["service"].young \intersect Old)
  BY DEF FlushYoung, FlushOld
<1> QED
  BY <1>1, ExposedGrows, ContinuedShown

LEMMA UserShown ==
  ASSUME TypeInv, ShownInv, NEW d \in Devices,
         \/ \E t \in Tasks : Create(d, t) \/ RestoreTask(d, t)
         \/ \E tasks \in SUBSET Tasks : MoveToArchive(d, tasks)
         \/ FlushYoungToOld(d)
  PROVE  ShownInv'
<1>1. ASSUME NEW t \in Tasks, Create(d, t) \/ RestoreTask(d, t)
      PROVE  ShownInv'
  <2> DEFINE op(kind) == [kind |-> kind, tasks |-> {t}]
  <2>1. PICK kind \in {"create", "restore"} :
          /\ Dispatched(d, op(kind)) /\ live' = [live EXCEPT ![d] = @ \union {t}]
          /\ failed' = failed /\ batch' = batch
    BY <1>1 DEF Create, RestoreTask
  <2>2. op(kind) \in Ops /\ Reduced(live[d], op(kind)) = live[d] \union {t}
    BY DEF Ops, Reduced
  <2> HIDE DEF op
  <2>3. live' = [live EXCEPT ![d] = Reduced(@, op(kind))]
    BY <2>1, <2>2
  <2> QED
    BY <2>1, <2>2, <2>3, DispatchedShown
<1>2. ASSUME NEW tasks \in SUBSET Tasks, MoveToArchive(d, tasks)
      PROVE  ShownInv'
  <2> DEFINE op == [kind |-> "archive", tasks |-> tasks]
  <2>1. /\ Dispatched(d, op) /\ live' = [live EXCEPT ![d] = @ \ tasks]
        /\ failed' = failed /\ batch' = batch
    BY <1>2 DEF MoveToArchive
  <2>2. op \in Ops /\ Reduced(live[d], op) = live[d] \ tasks
    BY DEF Ops, Reduced
  <2> HIDE DEF op
  <2>3. live' = [live EXCEPT ![d] = Reduced(@, op)]
    BY <2>1, <2>2
  <2> QED
    BY <2>1, <2>2, <2>3, DispatchedShown
<1>3. CASE FlushYoungToOld(d)
  <2> DEFINE op == [kind |-> "flush", tasks |-> {}]
  <2>1. /\ Dispatched(d, op) /\ live' = live /\ failed' = failed /\ batch' = batch
    BY <1>3 DEF FlushYoungToOld, Leave
  <2>2. op \in Ops /\ Reduced(live[d], op) = live[d]
    BY DEF Ops, Reduced
  <2>3. live \in [Devices -> SUBSET Tasks]
    BY TypeParts DEF SetsOK
  <2> HIDE DEF op
  <2>4. live' = [live EXCEPT ![d] = Reduced(@, op)]
    BY <2>1, <2>2, <2>3
  <2> QED
    BY <2>1, <2>2, <2>4, DispatchedShown
<1> QED
  BY <1>1, <1>2, <1>3

LEMMA FailuresShown ==
  ASSUME TypeInv, ShownInv, NEW d \in Devices,
         ArchivingFails(d) \/ FlushFails(d) \/ EffectFails(d)
  PROVE  ShownInv'
<1>1. UNCHANGED <<ops, waiting, log, live, failed, batch>>
  BY DEF ArchivingFails, FlushFails, EffectFails, Failing
<1>2. \A e \in Devices : exposed[e] \subseteq exposed'[e]
  <2>1. CASE FlushFails(d)
    BY <2>1, ExposedGrows DEF FlushFails
  <2>2. CASE ArchivingFails(d) \/ EffectFails(d)
    BY <2>2, TypeParts DEF ArchivingFails, EffectFails, SetsOK
  <2> QED
    BY <2>1, <2>2
<1> QED
  BY <1>1, <1>2, NothingShown

LEMMA InitShown ==
  ASSUME Init
  PROVE  ShownInv
<1> SUFFICES ASSUME NEW d \in Devices
             PROVE  ShownHere(d) /\ RetryLast(d)
  BY DEF ShownInv
<1>1. /\ ops = <<>> /\ log[d] = <<>> /\ waiting[d] = <<>> /\ failed[d] = {} /\ live[d] = {}
      /\ batch[d].left = <<>>
  BY DEF Init, NoBatch
<1>2. ShownHere(d)
  <2>1. OpsOf(log[d]) = <<>>
    BY <1>1 DEF OpsOf
  <2>2. Shown(d) = ReducedAll(ReducedAll({}, <<>>), <<>>)
    BY <2>1, <1>1 DEF Shown, Replayed
  <2>3. {} \in SUBSET Tasks
    OBVIOUS
  <2>4. Shown(d) = {}
    BY <2>2, <2>3, RunOfNone
  <2> QED
    BY <2>4, <1>1 DEF ShownHere
<1>3. RetryLast(d)
  <2>1. NumbersOf(batch[d].left) = {}
    BY <1>1, NoNumbers
  <2>2. DOMAIN log[d] = {} /\ DOMAIN waiting[d] = {} /\ DOMAIN batch[d].left = {}
    BY <1>1
  <2> QED
    BY <2>1, <2>2, <1>1 DEF RetryLast, Distinct, InOrder, ComesLast
<1> QED
  BY <1>2, <1>3

LEMMA NextShown ==
  ASSUME TypeInv, ShownInv, [Next]_vars
  PROVE  ShownInv'
<1>1. CASE UNCHANGED vars
  <2>1. UNCHANGED <<ops, waiting, log, live, failed, batch>> /\ exposed' = exposed
    BY <1>1 DEF vars
  <2> QED
    BY <2>1, NothingShown
<1>2. CASE Next
  <2>1. PICK d \in Devices :
          \/ \E t \in Tasks : Create(d, t) \/ RestoreTask(d, t)
          \/ \E tasks \in SUBSET Tasks : MoveToArchive(d, tasks)
          \/ StartEffect(d)
          \/ StartSideEffect(d)
          \/ \E a \in Jobs : JobStep(d, a)
          \/ FlushYoung(d)
          \/ FlushOld(d)
          \/ FlushYoungToOld(d)
          \/ WriteRow(d)
          \/ RowFails(d)
          \/ Download(d)
          \/ ArchivingFails(d)
          \/ FlushFails(d)
          \/ EffectFails(d)
          \/ ReplayFails(d)
          \/ Restart(d)
    BY <1>2 DEF Next
  <2> QED
    BY <2>1, UserShown, StartsShown, JobStepShown, FlushShown, WriteRowShown, RowFailsShown,
       DownloadShown, FailuresShown, ReplayFailsShown, RestartShown
<1> QED
  BY <1>1, <1>2

\* What the user sees of a task is what the log will show after a restart, once the rows
\* that wait are written: for any number of devices, operations, failures and restarts, and
\* however the jobs overlap.  Only tasks that were in the hands of two jobs at once, or that
\* a lost row or a cut took part of, are excepted.
THEOREM StoreShowsTheLog == Spec => []ShownAsLogged
<1>1. Init => TypeInv /\ ShownInv
  BY InitTypes, InitShown
<1>2. TypeInv /\ ShownInv /\ [Next]_vars => (TypeInv /\ ShownInv)'
  <2>1. TypeInv /\ [Next]_vars => TypeInv'
    BY NextTypes
  <2>2. TypeInv /\ ShownInv /\ [Next]_vars => ShownInv'
    BY NextShown
  <2> QED
    BY <2>1, <2>2
<1>3. TypeInv /\ ShownInv => ShownAsLogged
  <2> SUFFICES ASSUME TypeInv, ShownInv, NEW d \in Devices
               PROVE  Strayed(d) \subseteq exposed[d]
    BY DEF ShownAsLogged
  <2>1. live[d] \in SUBSET Tasks /\ Shown(d) \in SUBSET Tasks
    BY ShownTypes
  <2> QED
    BY <2>1 DEF ShownInv, ShownHere, Strayed
<1> QED
  BY <1>1, <1>2, <1>3, PTL DEF Spec
=============================================================================
