------------------------- MODULE ClockExchangeProofs -------------------------
(***************************************************************************)
(* Proofs about devices that exchange their operations: what they store is *)
(* well typed, cursors stay within the server's log, attempts stay within  *)
(* their limit, and nothing is marked as synced that the server has not    *)
(* stored, for any number of devices, entities, edits, failures, crashes.  *)
(***************************************************************************)
EXTENDS ClockExchange, SyncVectorClockProofs, SubsequenceProofs

Statuses == {"pending", "synced", "applied", "rejected"}

LogEntry == [op : Operations, status : Statuses]

\* The limits are numbers.
LEMMA Limits ==
  MaxEdits \in Nat /\ MaxFailures \in Nat /\ MaxRestarts \in Nat /\ MaxAttempts \in Nat
  BY LimitsAssumption

-----------------------------------------------------------------------------
(* Clocks and timestamps of operations *)

\* The image of finitely many positions is finite.
LEMMA FiniteImage ==
  ASSUME NEW s, NEW I \in SUBSET (DOMAIN s), IsFiniteSet(I)
  PROVE  IsFiniteSet({s[i] : i \in I})
<1>1. [i \in I |-> s[i]] \in Surjection(I, {s[i] : i \in I})
  BY DEF Surjection
<1> QED
  BY <1>1, FS_Surjection

\* A set of operations taken from a sequence is finite.
LEMMA FiniteElements ==
  ASSUME NEW V, NEW s \in Seq(V), NEW I \in SUBSET (DOMAIN s)
  PROVE  IsFiniteSet({s[i] : i \in I}) /\ {s[i] : i \in I} \in SUBSET V
<1>1. IsFiniteSet(DOMAIN s)
  BY FS_Interval
<1>2. IsFiniteSet(I)
  BY <1>1, FS_Subset
<1> QED
  BY <1>2, FiniteImage

\* Finitely many operations have finitely many clocks.
LEMMA ClocksOfFinite ==
  ASSUME NEW ops \in SUBSET Operations, IsFiniteSet(ops)
  PROVE  ClocksOf(ops) \in SUBSET Clock /\ IsFiniteSet(ClocksOf(ops))
<1>1. [op \in ops |-> op.clk] \in Surjection(ops, ClocksOf(ops))
  BY DEF Surjection, ClocksOf
<1>2. IsFiniteSet(ClocksOf(ops))
  BY <1>1, FS_Surjection
<1> QED
  BY <1>2 DEF ClocksOf, Operations

\* The clock over finitely many clocks and operations is a clock.
LEMMA MaxOverType ==
  ASSUME NEW ops \in SUBSET Operations, IsFiniteSet(ops),
         NEW clocks \in SUBSET Clock, IsFiniteSet(clocks)
  PROVE  MaxOverClocks(clocks \union ClocksOf(ops)) \in Clock
<1>1. ClocksOf(ops) \in SUBSET Clock /\ IsFiniteSet(ClocksOf(ops))
  BY ClocksOfFinite
<1>2. IsFiniteSet(clocks \union ClocksOf(ops))
  BY <1>1, FS_Union
<1> QED
  BY <1>1, <1>2, AggregateDominates

\* The latest time of finitely many operations is one of the times.
LEMMA MaxStampType ==
  ASSUME NEW ops \in SUBSET Operations, IsFiniteSet(ops), ops # {}
  PROVE  MaxStamp(ops) \in Stamps
<1> DEFINE times == {op.ts : op \in ops}
<1>1. [op \in ops |-> op.ts] \in Surjection(ops, times)
  BY DEF Surjection
<1>2. IsFiniteSet(times)
  BY <1>1, FS_Surjection
<1>3. times \in SUBSET Nat /\ times # {}
  BY StampsAssumption DEF Operations
<1>4. \E m \in times : \A n \in times : m >= n
  BY <1>2, <1>3, FiniteSetHasMax
<1>5. \E m \in times : \A op \in ops : m >= op.ts
  BY <1>4
<1>6. MaxStamp(ops) \in times
  BY <1>5 DEF MaxStamp
<1> QED
  BY <1>6 DEF Operations

\* The operation of a sequence that is the last on an entity is one of the sequence.
LEMMA LatestIsElement ==
  ASSUME NEW V, NEW ops \in Seq(V), NEW ent, OnEntity(ops, ent) # {}
  PROVE  LatestOn(ops, ent) \in V
<1>1. OnEntity(ops, ent) \in SUBSET Nat /\ IsFiniteSet(OnEntity(ops, ent))
  <2>1. IsFiniteSet(DOMAIN ops)
    BY FS_Interval
  <2> QED
    BY <2>1, FS_Subset DEF OnEntity
<1>2. \E i \in OnEntity(ops, ent) : \A j \in OnEntity(ops, ent) : j <= i
  BY <1>1, FiniteSetHasMax
<1>3. (CHOOSE i \in OnEntity(ops, ent) : \A j \in OnEntity(ops, ent) : j <= i) \in DOMAIN ops
  BY <1>2 DEF OnEntity
<1> QED
  BY <1>3 DEF LatestOn
-----------------------------------------------------------------------------
(* The server *)

\* A log that has grown: it keeps what it had.
Extends(new, old) == Len(old) <= Len(new) /\ \A i \in 1..Len(old) : new[i] = old[i]

\* What the server may have stored and answered while it serves a request that
\* it received with the log table.
Result ==
  [op : Operations, verdict : {"ACCEPTED", "CONFLICT", "DUPLICATE_OPERATION"},
   existing : Clock]

Served(table) ==
  {s \in [rows : Seq(Operations), results : Seq(Result)] :
     Extends(s.rows, table) /\ s.results \in Seq(TrueResults(s.rows))}

\* What is stored stays stored when the log grows.
LEMMA StoredStays ==
  ASSUME NEW old \in Seq(Operations), NEW new \in Seq(Operations), Extends(new, old)
  PROVE  /\ \A op : IsStored(old, op) => IsStored(new, op)
         /\ TrueEntries(old) \subseteq TrueEntries(new)
         /\ TrueResults(old) \subseteq TrueResults(new)
<1>1. \A op : IsStored(old, op) => IsStored(new, op)
  BY DEF Extends, IsStored
<1> QED
  BY <1>1 DEF TrueEntries, TrueResults

\* Serving one operation appends at most one row and answers truthfully: an operation
\* that it accepts or finds to be a duplicate is in the log.
LEMMA ServeOneServes ==
  ASSUME NEW table \in Seq(Operations), NEW s \in Served(table), NEW op \in Operations
  PROVE  ServeOne(s, op) \in Served(table)
<1> DEFINE verdict == Verdict(s.rows, op)
           existing == IF verdict = "CONFLICT" THEN LatestOn(s.rows, op.ent).clk ELSE ZeroClock
           result == [op |-> op, verdict |-> verdict, existing |-> existing]
           after == IF verdict = "ACCEPTED" THEN Append(s.rows, Stored(op)) ELSE s.rows
<1>1. /\ s.rows \in Seq(Operations) /\ s.results \in Seq(Result)
      /\ Extends(s.rows, table) /\ s.results \in Seq(TrueResults(s.rows))
  BY DEF Served
<1>2. Stored(op) \in Operations /\ Stored(op).id = op.id
  BY LimitType DEF Stored, Operations
<1>3. verdict \in {"ACCEPTED", "CONFLICT", "DUPLICATE_OPERATION"}
  BY DEF Verdict
<1>4. after \in Seq(Operations) /\ Extends(after, s.rows)
  <2>1. CASE verdict = "ACCEPTED"
    BY <2>1, <1>1, <1>2, AppendProperties DEF Extends
  <2>2. CASE verdict # "ACCEPTED"
    BY <2>2, <1>1 DEF Extends
  <2> QED
    BY <2>1, <2>2
<1>5. existing \in Clock
  <2>1. CASE verdict = "CONFLICT"
    <3>1. OnEntity(s.rows, op.ent) # {}
      BY <2>1 DEF Verdict
    <3>2. LatestOn(s.rows, op.ent) \in Operations
      BY <3>1, <1>1, LatestIsElement
    <3> QED
      BY <2>1, <3>2 DEF Operations
  <2>2. CASE verdict # "CONFLICT"
    BY <2>2 DEF ZeroClock, Clock
  <2> QED
    BY <2>1, <2>2
<1>6. verdict # "CONFLICT" => IsStored(after, op)
  <2>1. CASE verdict = "ACCEPTED"
    <3>1. after[Len(s.rows) + 1] = Stored(op) /\ Len(s.rows) + 1 \in DOMAIN after
      BY <2>1, <1>1, <1>2, AppendProperties
    <3> QED
      BY <3>1, <1>2 DEF IsStored
  <2>2. CASE verdict = "DUPLICATE_OPERATION"
    <3>1. PICK r \in ToSet(s.rows) : r.id = op.id
      BY <2>2 DEF Verdict
    <3>2. IsStored(s.rows, op)
      BY <3>1 DEF IsStored, ToSet
    <3> QED
      BY <3>2, <2>2
  <2> QED
    BY <2>1, <2>2, <1>3
<1>7. result \in Result /\ result \in TrueResults(after)
  BY <1>3, <1>5, <1>6 DEF TrueResults, Result
<1>8. Extends(after, table)
  BY <1>1, <1>4 DEF Extends
<1>9. TrueResults(s.rows) \subseteq TrueResults(after)
  BY <1>1, <1>4, StoredStays
<1>10. /\ Append(s.results, result) \in Seq(Result)
       /\ Append(s.results, result) \in Seq(TrueResults(after))
  <2> HIDE DEF result, after
  <2>1. s.results \in Seq(TrueResults(after))
    BY <1>1, <1>9
  <2> QED
    BY <1>1, <1>7, <2>1
<1>11. ServeOne(s, op) = [rows |-> after, results |-> Append(s.results, result)]
  BY DEF ServeOne
<1> DEFINE next == [rows |-> after, results |-> Append(s.results, result)]
<1>12. next.rows = after /\ next.results = Append(s.results, result)
  OBVIOUS
<1>13. next \in [rows : Seq(Operations), results : Seq(Result)]
  <2> HIDE DEF result, after
  <2> QED
    BY <1>4, <1>10
<1> HIDE DEF result, after, next
<1>14. next \in Served(table)
  BY <1>8, <1>10, <1>12, <1>13 DEF Served
<1> QED
  BY <1>11, <1>14 DEF next

\* So does serving a request.
LEMMA ServeServes ==
  ASSUME NEW table \in Seq(Operations), NEW batch \in Seq(Operations)
  PROVE  Serve(table, batch) \in Served(table)
<1> DEFINE n == Len(batch)
           none == [rows |-> table, results |-> <<>>]
           Eq(f) == f = [k \in 0..n |-> IF k = 0 THEN none ELSE ServeOne(f[k - 1], batch[k])]
           after == CHOOSE f : Eq(f)
<1>1. n \in Nat
  OBVIOUS
<1>2. none \in Served(table)
  <2>1. none.rows = table /\ none.results = <<>>
    OBVIOUS
  <2>2. none \in [rows : Seq(Operations), results : Seq(Result)]
    OBVIOUS
  <2>3. Extends(table, table) /\ <<>> \in Seq(TrueResults(table))
    BY DEF Extends
  <2> HIDE DEF none
  <2> QED
    BY <2>1, <2>2, <2>3 DEF Served
<1>3. \E f : Eq(f)
  <2> DEFINE step == [k \in 1..n |-> [s \in Served(table) |-> ServeOne(s, batch[k])]]
  <2>1. Keeps(step, n, Served(table))
    BY ServeOneServes DEF Keeps
  <2>2. PICK f \in [0..n -> Served(table)] : GoesBy(f, n, none, step)
    <3> HIDE DEF step, n, none
    <3> QED
      BY <1>1, <1>2, <2>1, SegmentRecursion
  <2>3. ASSUME NEW k \in 1..n
        PROVE  f[k] = ServeOne(f[k - 1], batch[k])
    <3>1. f[k - 1] \in Served(table)
      OBVIOUS
    <3>2. f[k] = step[k][f[k - 1]]
      BY <2>2 DEF GoesBy
    <3> QED
      BY <3>1, <3>2
  <2> DEFINE g == [k \in 0..n |-> IF k = 0 THEN none ELSE ServeOne(f[k - 1], batch[k])]
  <2>4. ASSUME NEW k \in 0..n
        PROVE  f[k] = g[k]
    <3>1. CASE k = 0
      BY <3>1, <2>2 DEF GoesBy
    <3>2. CASE k # 0
      <4>1. k \in 1..n
        BY <3>2
      <4>2. g[k] = ServeOne(f[k - 1], batch[k])
        BY <3>2
      <4> QED
        BY <4>1, <4>2, <2>3
    <3> QED
      BY <3>1, <3>2
  <2>5. f = [k \in 0..n |-> f[k]] /\ g = [k \in 0..n |-> g[k]]
    OBVIOUS
  <2>6. f = g
    <3> HIDE DEF g
    <3> QED
      BY <2>4, <2>5
  <2> QED
    BY <2>6
<1>4. Eq(after)
  <2> HIDE DEF Eq
  <2> QED
    BY <1>3
<1>5. Serve(table, batch) = after[n]
  BY DEF Serve
<1> HIDE DEF after
<1>6. after[0] = none
  BY <1>4, <1>1
<1>7. ASSUME NEW k \in 1..n
      PROVE  after[k] = ServeOne(after[k - 1], batch[k])
  <2>1. k \in 0..n /\ k # 0
    BY <1>1
  <2> QED
    BY <1>4, <2>1
<1> HIDE DEF Eq
<1> DEFINE S == {k \in 0..n : after[k] \in Served(table)}
<1>8. 0 \in S
  BY <1>1, <1>2, <1>6
<1>9. ASSUME NEW k \in 0..n - 1, k \in S
      PROVE  k + 1 \in S
  <2>1. k + 1 \in 1..n /\ (k + 1) - 1 = k
    BY <1>1
  <2>2. after[k + 1] = ServeOne(after[k], batch[k + 1])
    BY <2>1, <1>7
  <2>3. batch[k + 1] \in Operations
    BY <2>1, ElementOfSeq
  <2> QED
    BY <1>9, <2>1, <2>2, <2>3, ServeOneServes
<1>10. n \in S
  <2> HIDE DEF S, n
  <2>1. \A k \in 0..n : k \in S
    BY <1>1, <1>8, <1>9, SegmentInduction
  <2> QED
    BY <2>1, <1>1
<1> QED
  BY <1>5, <1>10
-----------------------------------------------------------------------------
(* A device's log *)

\* The operations of a log that is true about the server's.
LEMMA OpsOfType ==
  ASSUME NEW table, NEW log \in Seq(TrueEntries(table))
  PROVE  OpsOf(log) \in Seq(Operations) /\ Len(OpsOf(log)) = Len(log)
<1>1. \A i \in 1..Len(log) : log[i] \in TrueEntries(table)
  BY ElementOfSeq
<1>2. \A i \in 1..Len(log) : log[i].op \in Operations
  BY <1>1 DEF TrueEntries
<1> QED
  BY <1>2 DEF OpsOf

\* What is pending is in the log, and finite.
LEMMA PendingType ==
  ASSUME NEW table, NEW dev \in DevicesOn(table)
  PROVE  /\ Pending(dev) \in Seq(Operations)
         /\ PendingOps(dev) \in SUBSET Operations
         /\ \A ent : PendingOn(dev, ent) \in SUBSET Operations /\ IsFiniteSet(PendingOn(dev, ent))
<1>1. dev.log \in Seq(TrueEntries(table))
  BY DEF DevicesOn
<1>2. OpsOf(dev.log) \in Seq(Operations) /\ DOMAIN OpsOf(dev.log) = DOMAIN dev.log
  BY <1>1, OpsOfType DEF OpsOf
<1>3. Pending(dev) \in Seq(Operations)
  BY <1>2, ChosenElements DEF Pending
<1>4. PendingAt(dev) \in SUBSET DOMAIN OpsOf(dev.log)
  BY <1>2 DEF PendingAt
<1>5. PendingOps(dev) = {OpsOf(dev.log)[i] : i \in PendingAt(dev)}
  BY DEF PendingOps, PendingAt, OpsOf
<1>6. IsFiniteSet(PendingOps(dev)) /\ PendingOps(dev) \in SUBSET Operations
  BY <1>2, <1>4, <1>5, FiniteElements
<1>7. \A ent : PendingOn(dev, ent) \in SUBSET PendingOps(dev)
  BY DEF PendingOn
<1> QED
  BY <1>3, <1>6, <1>7, FS_Subset

\* Marking entries leaves the log true, if what is marked as synced is stored.
LEMMA MarkType ==
  ASSUME NEW table, NEW log \in Seq(TrueEntries(table)), NEW ops, NEW status \in Statuses,
         status = "synced" => \A op \in ops : IsStored(table, op)
  PROVE  Mark(log, ops, status) \in Seq(TrueEntries(table))
<1>1. \A i \in 1..Len(log) : log[i] \in TrueEntries(table)
  BY ElementOfSeq
<1>2. ASSUME NEW i \in 1..Len(log), log[i].op \in ops
      PROVE  Entry(log[i].op, status) \in TrueEntries(table)
  BY <1>1, <1>2 DEF TrueEntries, Entry, Statuses
<1>3. \A i \in 1..Len(log) : Mark(log, ops, status)[i] \in TrueEntries(table)
  BY <1>1, <1>2 DEF Mark
<1>4. Mark(log, ops, status) = [i \in 1..Len(log) |-> Mark(log, ops, status)[i]]
  BY DEF Mark
<1> QED
  BY <1>3, <1>4

\* Operations that are not claimed to be synced may be put in a log.
LEMMA LogEntriesType ==
  ASSUME NEW table, NEW ops \in Seq(Operations), NEW status \in Statuses, status # "synced"
  PROVE  LogEntries(ops, status) \in Seq(TrueEntries(table))
<1>1. \A i \in 1..Len(ops) : Entry(ops[i], status) \in TrueEntries(table)
  BY ElementOfSeq DEF Entry, TrueEntries, Statuses
<1> QED
  BY <1>1 DEF LogEntries

\* The operations that a device makes.
LEMMA NewOpType ==
  ASSUME NEW table, NEW dev \in DevicesOn(table), NEW c \in Clients, NEW n \in Nat,
         NEW ent \in Entities, NEW clk \in Clock, NEW ts \in Stamps, NEW val \in Values
  PROVE  NewOp(c, dev, n, ent, clk, ts, val) \in Operations
<1> DEFINE own == {i \in DOMAIN dev.log : Author(dev.log[i].op) = c}
<1>1. IsFiniteSet(DOMAIN dev.log)
  BY FS_Interval DEF DevicesOn
<1>2. Cardinality(own) \in Nat
  BY <1>1, FS_Subset, FS_CardinalityType
<1> HIDE DEF own
<1>3. <<c, Cardinality(own) + n>> \in Clients \X Nat
  BY <1>2
<1> QED
  BY <1>3 DEF NewOp, Operations, own

-----------------------------------------------------------------------------
(* The processing of rows *)

Plans ==
  [winners : Seq(Operations), beaten : Seq(Operations), others : Seq(Operations),
   contested : SUBSET Operations, made : Seq(Operations)]

\* The local side can only win against a row if it has an edit in the field.
LEMMA LocalWinOpType ==
  ASSUME NEW table, NEW dev \in DevicesOn(table), NEW c \in Clients, NEW n \in Nat,
         NEW row \in Operations, Outcome(dev, row) = "local wins"
  PROVE  LocalWinOp(c, dev, n, row) \in Operations
<1> DEFINE local == PendingOn(dev, row.ent)
           clk == IncrementClock(MaxOverClocks(ClocksOf(local) \union {row.clk}), c)
<1>1. local # {}
  BY DEF Outcome
<1>2. local \in SUBSET Operations /\ IsFiniteSet(local)
  BY PendingType
<1> HIDE DEF local
<1>3. MaxStamp(local) \in Stamps
  BY <1>1, <1>2, MaxStampType
<1>4. {row.clk} \in SUBSET Clock /\ IsFiniteSet({row.clk})
  BY FS_Singleton DEF Operations
<1>5. MaxOverClocks({row.clk} \union ClocksOf(local)) \in Clock
  BY <1>2, <1>4, MaxOverType
<1>6. ClocksOf(local) \union {row.clk} = {row.clk} \union ClocksOf(local)
  OBVIOUS
<1>7. clk \in Clock
  BY <1>5, <1>6, IncrementType
<1>8. dev.value[row.ent] \in Values /\ row.ent \in Entities
  BY DEF DevicesOn, Operations
<1> HIDE DEF clk
<1>9. NewOp(c, dev, n, row.ent, clk, MaxStamp(local), dev.value[row.ent]) \in Operations
  BY <1>3, <1>7, <1>8, NewOpType
<1> QED
  BY <1>9 DEF LocalWinOp, clk, local

\* What a device plans to write when it processes rows.
LEMMA PlanType ==
  ASSUME NEW table, NEW dev \in DevicesOn(table), NEW c \in Clients,
         NEW batch \in Seq(Operations)
  PROVE  Plan(c, dev, batch, Outcomes(dev, batch)) \in Plans
<1> DEFINE are == Outcomes(dev, batch)
           New(part) == Chosen(batch, {i \in part : ~Knows(dev, batch[i])})
           beaten == Chosen(batch, are.localWins)
           made == [n \in DOMAIN beaten |-> LocalWinOp(c, dev, n, beaten[n])]
           contested == {op \in PendingOps(dev) :
                           \E i \in are.localWins \union are.remoteWins : batch[i].ent = op.ent}
           W == {i \in DOMAIN batch : Outcome(dev, batch[i]) = "local wins"}
           X == {batch[i] : i \in W \intersect (1..Len(batch))}
<1>1. \A part : New(part) \in Seq(Operations)
  BY ChosenElements
<1>2. are.localWins = W
  BY DEF Outcomes
<1>3. beaten \in Seq(X)
  <2> HIDE DEF W, are
  <2> QED
    BY <1>2, ChosenElements
<1>4. \A row \in X : row \in Operations /\ Outcome(dev, row) = "local wins"
  BY ElementOfSeq
<1>5. made \in Seq(Operations)
  <2> HIDE DEF X, beaten
  <2>1. Len(beaten) \in Nat /\ DOMAIN beaten = 1..Len(beaten)
    BY <1>3
  <2>2. ASSUME NEW n \in 1..Len(beaten)
        PROVE  LocalWinOp(c, dev, n, beaten[n]) \in Operations
    <3>1. beaten[n] \in X
      BY <1>3, ElementOfSeq
    <3>2. n \in Nat
      BY <2>1
    <3>3. beaten[n] \in Operations /\ Outcome(dev, beaten[n]) = "local wins"
      BY <3>1, <1>4
    <3> HIDE DEF W, made, contested
    <3> QED
      BY <3>2, <3>3, LocalWinOpType
  <2> QED
    BY <2>1, <2>2
<1>6. contested \in SUBSET Operations
  BY PendingType
<1>7. Plan(c, dev, batch, are) =
        [winners |-> New(are.remoteWins), beaten |-> New(are.localWins),
         others |-> New(are.apply), contested |-> contested, made |-> made]
  BY DEF Plan
<1> HIDE DEF New, made, contested, are
<1> QED
  BY <1>1, <1>5, <1>6, <1>7 DEF Plans, are

\* Processing rows, however far it gets, leaves the log true.
LEMMA LogAfterType ==
  ASSUME NEW table, NEW log \in Seq(TrueEntries(table)), NEW plan \in Plans,
         NEW n \in 0..AllWrites(plan)
  PROVE  LogAfter(log, plan, n) \in Seq(TrueEntries(table))
<1> DEFINE T == Seq(TrueEntries(table))
           Upto(k, part) == IF n >= k THEN part ELSE <<>>
           old == IF n >= 4 THEN Mark(log, plan.contested, "rejected") ELSE log
           made == LogEntries(SubSeq(plan.made, 1, n - 5), "pending")
<1>1. old \in T
  BY MarkType DEF Statuses
<1>2. LogEntries(plan.winners, "applied") \in T
  BY LogEntriesType DEF Plans, Statuses
<1>3. LogEntries(plan.beaten, IF n >= 5 THEN "rejected" ELSE "applied") \in T
  BY LogEntriesType DEF Plans, Statuses
<1>4. LogEntries(plan.others, "applied") \in T
  BY LogEntriesType DEF Plans, Statuses
<1>5. Upto(6, made) \in T
  <2>1. CASE n >= 6
    <3>1. n - 5 \in 1..Len(plan.made) /\ plan.made \in Seq(Operations)
      BY <2>1 DEF AllWrites, Plans
    <3>2. \A i \in 1..n - 5 : plan.made[i] \in Operations
      BY <3>1, ElementOfSeq
    <3>3. SubSeq(plan.made, 1, n - 5) \in Seq(Operations)
      BY <3>1, <3>2, SubSeqProperties
    <3>4. made \in T
      BY <3>3, LogEntriesType DEF Statuses
    <3> QED
      BY <2>1, <3>4
  <2>2. CASE ~(n >= 6)
    BY <2>2
  <2> QED
    BY <2>1, <2>2
<1>6. /\ Upto(1, LogEntries(plan.winners, "applied")) \in T
      /\ Upto(2, LogEntries(plan.beaten, IF n >= 5 THEN "rejected" ELSE "applied")) \in T
      /\ Upto(3, LogEntries(plan.others, "applied")) \in T
  BY <1>2, <1>3, <1>4
<1>7. LogAfter(log, plan, n) =
        old \o Upto(1, LogEntries(plan.winners, "applied"))
          \o Upto(2, LogEntries(plan.beaten, IF n >= 5 THEN "rejected" ELSE "applied"))
          \o Upto(3, LogEntries(plan.others, "applied"))
          \o Upto(6, made)
  BY DEF LogAfter
<1> HIDE DEF old, made, Upto
<1> QED
  BY <1>1, <1>5, <1>6, <1>7

\* Applying operations leaves every entity with a value.
LEMMA AppliedType ==
  ASSUME NEW value \in [Entities -> Values], NEW ops \in Seq(Operations)
  PROVE  Applied(value, ops) \in [Entities -> Values]
<1>1. ASSUME NEW e \in Entities, OnEntity(ops, e) # {}
      PROVE  LatestOn(ops, e).val \in Values
  <2>1. LatestOn(ops, e) \in Operations
    BY <1>1, LatestIsElement
  <2> QED
    BY <2>1 DEF Operations
<1> QED
  BY <1>1 DEF Applied

\* The clock after rows have been applied and operations made.
LEMMA ClockAfterType ==
  ASSUME NEW dev, dev.clock \in Clock, NEW c \in Clients, NEW applied \in SUBSET Operations,
         IsFiniteSet(applied), NEW made \in Seq(Operations)
  PROVE  ClockAfter(c, dev, applied, made) \in Clock
<1>1. CASE made # <<>>
  <2>1. Last(made) \in Operations
    BY <1>1, ElementOfSeq, EmptySeq DEF Last
  <2> QED
    BY <1>1, <2>1 DEF ClockAfter, Operations
<1>2. MaxOverClocks(ClocksOf(applied)) \in Clock
  BY ClocksOfFinite, AggregateDominates
<1>3. LimitClock(MergeClocks(dev.clock, MaxOverClocks(ClocksOf(applied))), {c}) \in Clock
  BY <1>2, MergeType, LimitType
<1> QED
  BY <1>1, <1>3 DEF ClockAfter

\* The elements of a sequence of operations.
LEMMA ElementsType ==
  ASSUME NEW ops \in Seq(Operations)
  PROVE  ToSet(ops) \in SUBSET Operations /\ IsFiniteSet(ToSet(ops))
<1>1. ToSet(ops) = {ops[i] : i \in DOMAIN ops}
  BY DEF ToSet
<1> QED
  BY <1>1, FiniteElements

\* Processing rows keeps to the types and touches nothing but the log, the values and
\* the clock.
LEMMA ProcessedType ==
  ASSUME NEW table, NEW dev \in DevicesOn(table), NEW c \in Clients, NEW plan \in Plans
  PROVE  /\ Processed(c, dev, plan) \in DevicesOn(table)
         /\ Processed(c, dev, plan).attempts = dev.attempts
         /\ Processed(c, dev, plan).rejected = dev.rejected
<1> DEFINE applied == plan.winners \o plan.others
           log == LogAfter(dev.log, plan, AllWrites(plan))
           value == Applied(dev.value, applied)
           clock == ClockAfter(c, dev, ToSet(applied), plan.made)
<1>1. applied \in Seq(Operations) /\ plan.made \in Seq(Operations)
  BY DEF Plans
<1>2. AllWrites(plan) \in 0..AllWrites(plan)
  BY <1>1 DEF AllWrites
<1>3. log \in Seq(TrueEntries(table))
  BY <1>2, LogAfterType DEF DevicesOn
<1>4. value \in [Entities -> Values]
  BY <1>1, AppliedType DEF DevicesOn
<1>5. clock \in Clock
  BY <1>1, ElementsType, ClockAfterType DEF DevicesOn
<1>6. Processed(c, dev, plan) = [dev EXCEPT !.log = log, !.value = value, !.clock = clock]
  BY DEF Processed
<1> HIDE DEF log, value, clock
<1> QED
  BY <1>3, <1>4, <1>5, <1>6 DEF DevicesOn
\* The rows of the others that a device gets, and those it does not know.
LEMMA RowsType ==
  ASSUME NEW table \in Seq(Operations), NEW c \in Clients, NEW from
  PROVE  RowsOfOthers(c, table, from) \in Seq(Operations)
  BY ChosenElements DEF RowsOfOthers

LEMMA UnknownType ==
  ASSUME rows \in Seq(Operations), NEW c \in Clients, NEW dev, NEW from
  PROVE  Unknown(c, dev, from) \in Seq(Operations)
  BY ChosenElements DEF Unknown

\* A start of the application: nothing is in progress, and all that it loads is typed.
LEMMA StartedType ==
  ASSUME NEW table \in Seq(Operations), NEW dev \in DevicesOn(table), NEW c \in Clients
  PROVE  Started(c, dev) \in DevicesOn(table) /\ Started(c, dev).phase = "idle"
<1> DEFINE ops == OpsOf(dev.log)
           first == dev.snapshot = NoSnapshot
           restored == IF first THEN dev
                       ELSE [dev EXCEPT !.clock = LimitClock(dev.snapshot.clock, {c})]
           tail == {ops[i] : i \in dev.snapshot.upto + 1..Len(ops)}
           clock == ClockAfter(c, restored, tail, <<>>)
           value == Applied([e \in Entities |-> NoEdit], ops)
           snapshot == IF first THEN [upto |-> Len(ops), clock |-> LimitClock(clock, {c})]
                       ELSE dev.snapshot
           attempts == [e \in Entities |-> 0]
<1>1. dev.snapshot.upto \in Nat /\ dev.snapshot.clock \in Clock /\ dev.clock \in Clock
  BY DEF DevicesOn
<1>2. ops \in Seq(Operations)
  BY OpsOfType DEF DevicesOn
<1>3. restored.clock \in Clock
  BY <1>1, LimitType DEF DevicesOn
<1>4. tail \in SUBSET Operations /\ IsFiniteSet(tail)
  <2> DEFINE I == dev.snapshot.upto + 1..Len(ops)
  <2>1. I \in SUBSET DOMAIN ops
    <3> HIDE DEF ops
    <3> QED
      BY <1>1, <1>2
  <2> HIDE DEF ops, I
  <2>2. IsFiniteSet({ops[i] : i \in I}) /\ {ops[i] : i \in I} \in SUBSET Operations
    BY <1>2, <2>1, FiniteElements
  <2> QED
    BY <2>2 DEF I
<1>5. clock \in Clock
  <2>1. <<>> \in Seq(Operations)
    OBVIOUS
  <2> HIDE DEF restored, tail
  <2> QED
    BY <1>3, <1>4, <2>1, ClockAfterType
<1>6. value \in [Entities -> Values]
  <2>1. [e \in Entities |-> NoEdit] \in [Entities -> Values]
    BY DEF Values
  <2> HIDE DEF ops
  <2> QED
    BY <1>2, <2>1, AppliedType
<1>7. snapshot \in [upto : Nat, clock : Clock]
  <2>1. LimitClock(clock, {c}) \in Clock /\ Len(ops) \in Nat
    <3> HIDE DEF clock, ops
    <3> QED
      BY <1>2, <1>5, LimitType
  <2>2. dev.snapshot \in [upto : Nat, clock : Clock]
    BY DEF DevicesOn
  <2> HIDE DEF clock, ops, first
  <2> QED
    BY <2>1, <2>2
<1>8. attempts \in [Entities -> 0..MaxAttempts]
  BY Limits
<1>9. NoReply \in Replies(table) /\ ZeroClock \in Clock /\ <<>> \in Seq(TrueResults(table))
  <2>1. <<>> \in Seq(TrueResults(table)) /\ <<>> \in Seq(Operations)
    OBVIOUS
  <2>2. 0 \in 0..Len(table)
    OBVIOUS
  <2> QED
    BY <2>1, <2>2 DEF NoReply, Replies, ZeroClock, Clock
<1>10. Started(c, dev) =
         [dev EXCEPT !.value = value, !.clock = clock, !.snapshot = snapshot,
            !.phase = "idle", !.reply = NoReply, !.rejected = <<>>, !.extra = ZeroClock,
            !.attempts = attempts]
  BY DEF Started
<1> HIDE DEF value, clock, snapshot, attempts
<1> QED
  BY <1>5, <1>6, <1>7, <1>8, <1>9, <1>10 DEF DevicesOn

-----------------------------------------------------------------------------
(* The settling of what was rejected *)

\* Each of the new operations settles the rejected ones on its entity.
LEMMA SettlingType ==
  ASSUME NEW table, NEW dev \in DevicesOn(table), NEW c \in Clients
  PROVE  Settling(c, dev) \in Seq(Operations)
<1> DEFINE old == Superseded(dev)
           global == MergeClocks(dev.clock, dev.extra)
           On(ent) == {op \in ToSet(old) : op.ent = ent}
           firsts == Chosen(old, {i \in DOMAIN old : \A j \in 1..i - 1 : old[j].ent # old[i].ent})
           clk(ops) == IncrementClock(MaxOverClocks({global} \union ClocksOf(ops)), c)
           made(n) == NewOp(c, dev, n, firsts[n].ent, clk(On(firsts[n].ent)),
                            MaxStamp(On(firsts[n].ent)), dev.value[firsts[n].ent])
<1>1. old \in Seq(Operations)
  <2>1. dev.rejected \in Seq(TrueResults(table))
    BY DEF DevicesOn
  <2>2. \A i \in 1..Len(dev.rejected) : dev.rejected[i].op \in Operations
    BY <2>1, ElementOfSeq DEF TrueResults
  <2> QED
    BY <2>1, <2>2 DEF Superseded
<1>2. \A i \in 1..Len(old) : old[i] \in ToSet(old)
  BY <1>1 DEF ToSet
<1>3. firsts \in Seq(ToSet(old))
  <2>1. old \in Seq(ToSet(old))
    BY <1>1, <1>2
  <2> HIDE DEF old
  <2> QED
    BY <2>1, ChosenElements
<1>4. global \in Clock
  BY MergeType DEF DevicesOn
<1>5. Len(firsts) \in Nat /\ DOMAIN firsts = 1..Len(firsts)
  <2> HIDE DEF firsts, old
  <2> QED
    BY <1>3, LenProperties
<1>6. Settling(c, dev) = [n \in 1..Len(firsts) |-> made(n)]
  BY <1>5 DEF Settling
<1> HIDE DEF firsts, old, global
<1>7. ASSUME NEW n \in 1..Len(firsts)
      PROVE  made(n) \in Operations
  <2> DEFINE ent == firsts[n].ent
  <2>1. firsts[n] \in ToSet(old) /\ firsts[n] \in Operations
    BY <1>1, <1>3, ElementOfSeq, ElementsType
  <2>2. ent \in Entities /\ dev.value[ent] \in Values
    BY <2>1 DEF Operations, DevicesOn
  <2>3. On(ent) \in SUBSET Operations /\ IsFiniteSet(On(ent)) /\ On(ent) # {}
    <3>1. ToSet(old) \in SUBSET Operations /\ IsFiniteSet(ToSet(old))
      BY <1>1, ElementsType
    <3> QED
      BY <2>1, <3>1, FS_Subset
  <2> HIDE DEF On, ent
  <2>4. MaxStamp(On(ent)) \in Stamps
    BY <2>3, MaxStampType
  <2>5. {global} \in SUBSET Clock /\ IsFiniteSet({global})
    BY <1>4, FS_Singleton
  <2>6. MaxOverClocks({global} \union ClocksOf(On(ent))) \in Clock
    BY <2>3, <2>5, MaxOverType
  <2>7. clk(On(ent)) \in Clock
    BY <2>6, IncrementType
  <2>8. n \in Nat
    BY <1>5
  <2> HIDE DEF clk
  <2>9. NewOp(c, dev, n, ent, clk(On(ent)), MaxStamp(On(ent)), dev.value[ent]) \in Operations
    BY <2>2, <2>4, <2>7, <2>8, NewOpType
  <2> QED
    BY <2>9 DEF ent
<1> HIDE DEF made
<1> QED
  BY <1>5, <1>6, <1>7

\* Settling, however far it gets, leaves the log true.
LEMMA LogAfterSettlingType ==
  ASSUME NEW table, NEW dev \in DevicesOn(table), NEW made \in Seq(Operations),
         NEW n \in 1..1 + Len(made)
  PROVE  LogAfterSettling(dev, made, n) \in Seq(TrueEntries(table))
<1> DEFINE T == Seq(TrueEntries(table))
           new == LogEntries(SubSeq(made, 1, n - 1), "pending")
           old == Mark(dev.log, ToSet(Superseded(dev)), "rejected")
<1>1. old \in T
  BY MarkType DEF Statuses, DevicesOn
<1>2. n - 1 \in 0..Len(made)
  OBVIOUS
<1>3. \A i \in 1..n - 1 : made[i] \in Operations
  BY <1>2, ElementOfSeq
<1>4. SubSeq(made, 1, n - 1) \in Seq(Operations)
  BY <1>2, <1>3, SubSeqProperties
<1>5. new \in T
  BY <1>4, LogEntriesType DEF Statuses
<1>6. LogAfterSettling(dev, made, n) = old \o (IF n >= 2 THEN new ELSE <<>>)
  BY DEF LogAfterSettling
<1> HIDE DEF old, new
<1> QED
  BY <1>1, <1>5, <1>6

-----------------------------------------------------------------------------
(* Steps *)

\* A device keeps its types when the server's log grows.
LEMMA DeviceStays ==
  ASSUME NEW old \in Seq(Operations), NEW new \in Seq(Operations), Extends(new, old),
         NEW dev \in DevicesOn(old)
  PROVE  dev \in DevicesOn(new)
<1>1. TrueEntries(old) \subseteq TrueEntries(new) /\ TrueResults(old) \subseteq TrueResults(new)
  BY StoredStays
<1>2. 0..Len(old) \subseteq 0..Len(new)
  BY DEF Extends
<1>3. dev.log \in Seq(TrueEntries(new)) /\ dev.rejected \in Seq(TrueResults(new))
  <2>1. dev.log \in Seq(TrueEntries(old)) /\ dev.rejected \in Seq(TrueResults(old))
    BY DEF DevicesOn
  <2> QED
    BY <1>1, <2>1
<1>4. dev.reply \in Replies(new)
  <2>1. dev.reply \in Replies(old)
    BY DEF DevicesOn
  <2>2. dev.reply.results \in Seq(TrueResults(new))
    <3>1. dev.reply.results \in Seq(TrueResults(old))
      BY <2>1 DEF Replies
    <3> QED
      BY <1>1, <3>1
  <2> QED
    BY <1>2, <2>1, <2>2 DEF Replies
<1> QED
  BY <1>2, <1>3, <1>4 DEF DevicesOn

\* A step of a device that leaves the server's log alone.
LEMMA LocalStep ==
  ASSUME ExchangeInv, NEW c \in Clients, NEW new \in DevicesOn(rows), AttemptsCounted(new),
         device' = [device EXCEPT ![c] = new], rows' = rows,
         failures' \in 0..MaxFailures, restarts' \in 0..MaxRestarts
  PROVE  ExchangeInv'
<1>1. rows' \in Seq(Operations)
  BY DEF ExchangeInv
<1>2. device' \in [Clients -> DevicesOn(rows)]
  BY DEF ExchangeInv
<1>3. \A d \in Clients : AttemptsCounted(device'[d])
  BY DEF ExchangeInv
<1> QED
  BY <1>1, <1>2, <1>3 DEF ExchangeInv

\* Initially there is nothing.
LEMMA InitExchange ==
  ASSUME Init
  PROVE  ExchangeInv
<1>1. rows = <<>> /\ <<>> \in Seq(Operations)
  BY DEF Init
<1>2. FreshDevice \in DevicesOn(<<>>)
  <2>1. ZeroClock \in Clock /\ NoEdit \in Values
    BY DEF ZeroClock, Clock, Values
  <2>2. /\ <<>> \in Seq(TrueEntries(<<>>)) /\ <<>> \in Seq(TrueResults(<<>>))
        /\ 0 \in 0..Len(<<>>) /\ 0 \in 0..MaxAttempts
    BY Limits
  <2>3. NoReply \in Replies(<<>>)
    BY <1>1, <2>2 DEF NoReply, Replies
  <2>4. NoSnapshot \in [upto : Nat, clock : Clock]
    BY <2>1 DEF NoSnapshot
  <2> QED
    BY <2>1, <2>2, <2>3, <2>4 DEF FreshDevice, DevicesOn
<1>3. AttemptsCounted(FreshDevice)
  BY DEF AttemptsCounted, FreshDevice
<1> QED
  BY <1>1, <1>2, <1>3, Limits DEF Init, ExchangeInv

\* An edit.
LEMMA EditStep ==
  ASSUME ExchangeInv, NEW c \in Clients, NEW ent \in Entities, NEW ts \in Stamps, Edit(c, ent, ts)
  PROVE  ExchangeInv'
<1> DEFINE dev == device[c]
           clk == IncrementClock(dev.clock, c)
           op == NewOp(c, dev, 1, ent, clk, ts, NoEdit)
           new == [op EXCEPT !.val = op.id]
           log == Append(dev.log, Entry(new, "pending"))
           value == [dev.value EXCEPT ![ent] = new.id]
           after == [dev EXCEPT !.log = log, !.clock = new.clk, !.value = value]
<1>1. dev \in DevicesOn(rows) /\ AttemptsCounted(dev)
  BY DEF ExchangeInv
<1>2. clk \in Clock /\ NoEdit \in Values
  BY <1>1, IncrementType DEF DevicesOn, Values
<1>3. op \in Operations
  <2> HIDE DEF dev, clk
  <2> QED
    BY <1>1, <1>2, NewOpType
<1>4. new \in Operations /\ new.id \in Values /\ new.clk \in Clock
  <2> HIDE DEF op
  <2> QED
    BY <1>3 DEF Operations, Values
<1>5. device' = [device EXCEPT ![c] = after] /\ rows' = rows
  BY DEF Edit
<1> HIDE DEF new
<1>6. Entry(new, "pending") \in TrueEntries(rows)
  BY <1>4 DEF Entry, TrueEntries
<1>7. log \in Seq(TrueEntries(rows))
  BY <1>1, <1>6 DEF DevicesOn
<1>8. value \in [Entities -> Values]
  BY <1>1, <1>4 DEF DevicesOn
<1> HIDE DEF log, value, dev
<1>9. after \in DevicesOn(rows) /\ AttemptsCounted(after)
  BY <1>1, <1>4, <1>7, <1>8 DEF DevicesOn, AttemptsCounted
<1>10. failures' \in 0..MaxFailures /\ restarts' \in 0..MaxRestarts
  BY DEF Edit, ExchangeInv
<1> HIDE DEF after
<1> QED
  BY <1>5, <1>9, <1>10, LocalStep

\* What a device becomes that processes a batch of rows.
LEMMA ProcessingType ==
  ASSUME NEW table, NEW dev \in DevicesOn(table), NEW c \in Clients,
         NEW batch \in Seq(Operations)
  PROVE  LET plan == Plan(c, dev, batch, Outcomes(dev, batch))
         IN  /\ plan \in Plans
             /\ Processed(c, dev, plan) \in DevicesOn(table)
             /\ Processed(c, dev, plan).attempts = dev.attempts
             /\ Processed(c, dev, plan).rejected = dev.rejected
  BY PlanType, ProcessedType

\* A download.
LEMMA DownloadStep ==
  ASSUME ExchangeInv, NEW c \in Clients, Download(c)
  PROVE  ExchangeInv'
<1> DEFINE dev == device[c]
           batch == Unknown(c, dev, dev.cursor)
           done == Processed(c, dev, Plan(c, dev, batch, Outcomes(dev, batch)))
           after == [done EXCEPT !.cursor = Len(rows)]
<1>1. dev \in DevicesOn(rows) /\ rows \in Seq(Operations)
  BY DEF ExchangeInv
<1>2. batch \in Seq(Operations)
  BY <1>1, UnknownType
<1>3. device' = [device EXCEPT ![c] = after] /\ rows' = rows /\ dev.phase = "idle"
  BY DEF Download
<1>4. done \in DevicesOn(rows) /\ done.phase = dev.phase
  <2> HIDE DEF batch, dev
  <2>1. done \in DevicesOn(rows)
    BY <1>1, <1>2, ProcessingType
  <2> QED
    BY <1>1, <2>1 DEF Processed, DevicesOn
<1> HIDE DEF done, dev
<1>5. after \in DevicesOn(rows) /\ AttemptsCounted(after)
  <2>1. Len(rows) \in 0..Len(rows)
    BY <1>1
  <2>2. after \in DevicesOn(rows)
    BY <1>4, <2>1 DEF DevicesOn
  <2>3. after.phase = "idle"
    BY <1>3, <1>4 DEF DevicesOn
  <2> QED
    BY <2>2, <2>3 DEF AttemptsCounted
<1>6. failures' \in 0..MaxFailures /\ restarts' \in 0..MaxRestarts
  BY DEF Download, ExchangeInv
<1> HIDE DEF after
<1> QED
  BY <1>3, <1>5, <1>6, LocalStep

\* An upload: the only step in which the server's log grows.
LEMMA UploadStep ==
  ASSUME ExchangeInv, NEW c \in Clients, Upload(c)
  PROVE  ExchangeInv'
<1> DEFINE dev == device[c]
           served == Serve(rows, Pending(dev))
           reply == [results |-> served.results, latest |-> Len(served.rows),
                     newRows |-> RowsOfOthers(c, served.rows, dev.cursor)]
           after == [dev EXCEPT !.phase = "uploading", !.reply = reply]
<1>1. dev \in DevicesOn(rows) /\ rows \in Seq(Operations)
  BY DEF ExchangeInv
<1>2. served \in Served(rows)
  BY <1>1, PendingType, ServeServes
<1>3. /\ served.rows \in Seq(Operations) /\ Extends(served.rows, rows)
      /\ served.results \in Seq(TrueResults(served.rows))
  BY <1>2 DEF Served
<1>4. rows' = served.rows /\ device' = [device EXCEPT ![c] = after]
  BY <1>1 DEF Upload, ExchangeInv, DevicesOn
<1> HIDE DEF served
<1>5. reply \in Replies(served.rows)
  <2>1. RowsOfOthers(c, served.rows, dev.cursor) \in Seq(Operations)
    BY <1>3, RowsType
  <2>2. Len(served.rows) \in 0..Len(served.rows)
    BY <1>3
  <2> QED
    BY <1>3, <2>1, <2>2 DEF Replies
<1>6. \A d \in Clients : device[d] \in DevicesOn(served.rows)
  BY <1>1, <1>3, DeviceStays DEF ExchangeInv
<1>7. dev \in DevicesOn(served.rows)
  BY <1>6
<1> HIDE DEF reply
<1>8. after \in DevicesOn(served.rows) /\ AttemptsCounted(after)
  BY <1>5, <1>7 DEF DevicesOn, AttemptsCounted
<1> HIDE DEF after
<1>9. device' \in [Clients -> DevicesOn(rows')]
  BY <1>4, <1>6, <1>8 DEF ExchangeInv
<1>10. \A d \in Clients : AttemptsCounted(device'[d])
  BY <1>4, <1>8 DEF ExchangeInv
<1>11. rows' \in Seq(Operations)
  BY <1>3, <1>4
<1>12. failures' \in 0..MaxFailures /\ restarts' \in 0..MaxRestarts
  BY DEF Upload, ExchangeInv
<1> QED
  BY <1>9, <1>10, <1>11, <1>12 DEF ExchangeInv

\* A synchronisation with nothing to upload.
LEMMA UploadNothingStep ==
  ASSUME ExchangeInv, NEW c \in Clients, UploadNothing(c)
  PROVE  ExchangeInv'
<1> DEFINE dev == device[c]
           none == [e \in Entities |-> 0]
           after == [dev EXCEPT !.attempts = none]
<1>1. dev \in DevicesOn(rows) /\ dev.phase = "idle"
  BY DEF ExchangeInv, UploadNothing
<1>2. none \in [Entities -> 0..MaxAttempts]
  BY Limits
<1>3. device' = [device EXCEPT ![c] = after] /\ rows' = rows
  BY <1>1 DEF UploadNothing, ExchangeInv, DevicesOn
<1> HIDE DEF none, dev
<1>4. after \in DevicesOn(rows) /\ AttemptsCounted(after)
  BY <1>1, <1>2 DEF DevicesOn, AttemptsCounted
<1>5. failures' \in 0..MaxFailures /\ restarts' \in 0..MaxRestarts
  BY DEF UploadNothing, ExchangeInv
<1> HIDE DEF after
<1> QED
  BY <1>3, <1>4, <1>5, LocalStep
\* Accepted operations are in the server's log: they may be marked as synced.
LEMMA UploadedType ==
  ASSUME NEW table, NEW dev \in DevicesOn(table)
  PROVE  /\ Uploaded(dev) \in DevicesOn(table)
         /\ Uploaded(dev).phase = dev.phase
         /\ Uploaded(dev).reply = dev.reply
         /\ Uploaded(dev).attempts = dev.attempts
<1> DEFINE accepted == {r.op : r \in ResultsWith(dev.reply, "ACCEPTED")}
           log == Mark(dev.log, accepted, "synced")
<1>1. dev.reply.results \in Seq(TrueResults(table))
  BY DEF DevicesOn, Replies
<1>2. ASSUME NEW r \in ToSet(dev.reply.results), r.verdict # "CONFLICT"
      PROVE  IsStored(table, r.op)
  BY <1>1, <1>2, ElementOfSeq DEF ToSet, TrueResults
<1>3. \A op \in accepted : IsStored(table, op)
  BY <1>2 DEF ResultsWith
<1>4. log \in Seq(TrueEntries(table))
  <2>1. "synced" \in Statuses /\ dev.log \in Seq(TrueEntries(table))
    BY DEF Statuses, DevicesOn
  <2> HIDE DEF accepted
  <2> QED
    BY <1>3, <2>1, MarkType
<1>5. Uploaded(dev) = [dev EXCEPT !.log = log]
  BY DEF Uploaded
<1> HIDE DEF log
<1> QED
  BY <1>4, <1>5 DEF DevicesOn

\* The clocks that the server has sent along with its rejections.
LEMMA ExistingType ==
  ASSUME NEW table, NEW rejected \in Seq(TrueResults(table))
  PROVE  /\ ExistingClocks(rejected) \in SUBSET Clock
         /\ IsFiniteSet(ExistingClocks(rejected))
<1>1. \A i \in DOMAIN rejected : rejected[i] \in TrueResults(table)
  BY ElementOfSeq
<1>2. ExistingClocks(rejected) \in SUBSET Clock
  BY <1>1 DEF ExistingClocks, ToSet, TrueResults
<1> DEFINE S == DOMAIN rejected
           f == [i \in S |-> rejected[i].existing]
<1>3. IsFiniteSet(S)
  BY FS_Interval
<1>4. f \in Surjection(S, ExistingClocks(rejected))
  BY DEF Surjection, ExistingClocks, ToSet
<1> HIDE DEF S, f
<1>5. IsFiniteSet(ExistingClocks(rejected))
  BY <1>3, <1>4, FS_Surjection
<1> QED
  BY <1>2, <1>5

\* What is left of the rejected operations.
LEMMA StillPendingType ==
  ASSUME NEW table, NEW dev \in DevicesOn(table)
  PROVE  StillPending(dev) \in Seq(TrueResults(table))
<1>1. dev.rejected \in Seq(TrueResults(table))
  BY DEF DevicesOn
<1> QED
  BY <1>1, ChosenElements DEF StillPending

\* The reply to an upload.
LEMMA ReceiveReplyStep ==
  ASSUME ExchangeInv, NEW c \in Clients, ReceiveReply(c)
  PROVE  ExchangeInv'
<1> DEFINE reply == device[c].reply
           AllAccepted == ResultsWith(reply, "ACCEPTED") = ToSet(reply.results)
           old == Uploaded(device[c])
           plan == Plan(c, old, reply.newRows, Outcomes(old, reply.newRows))
           merged == Processed(c, old, plan)
           marked == MarkDuplicates(merged.log, reply)
           dev == [merged EXCEPT !.log = marked]
           open == {r \in ResultsWith(reply, "CONFLICT") : IsPending(dev, r.op)}
           tried == {r.op.ent : r \in open}
           over == {e \in tried : GivesUp(dev, e)}
           Retried == {i \in DOMAIN reply.results :
                         reply.results[i] \in open /\ reply.results[i].op.ent \notin over}
           retry == Chosen(reply.results, Retried)
           hopeless == {r.op : r \in {x \in open : x.op.ent \in over}}
           log == Mark(dev.log, hopeless, "rejected")
           attempts == [e \in Entities |->
                          IF AllAccepted \/ e \in over THEN 0
                          ELSE IF e \in tried THEN dev.attempts[e] + 1 ELSE dev.attempts[e]]
           phase == IF retry = <<>> THEN "idle" ELSE "resolving"
           after == [dev EXCEPT !.log = log, !.cursor = reply.latest, !.attempts = attempts,
                       !.phase = phase, !.reply = NoReply, !.rejected = retry]
<1>1. device[c] \in DevicesOn(rows) /\ rows \in Seq(Operations)
  BY DEF ExchangeInv
<1>2. reply \in Replies(rows)
  BY <1>1 DEF DevicesOn
<1>3. old \in DevicesOn(rows) /\ old.reply = reply
  BY <1>1, UploadedType
<1>4. merged \in DevicesOn(rows)
  <2>1. reply.newRows \in Seq(Operations)
    BY <1>2 DEF Replies
  <2> HIDE DEF old, reply
  <2> QED
    BY <1>3, <2>1, ProcessingType
<1>5. device' = [device EXCEPT ![c] = after] /\ rows' = rows
  <2>1. device' = [device EXCEPT ![c] = Answered(dev, reply)] /\ rows' = rows
    <3> HIDE DEF log, attempts, phase, retry, open, tried, over, Retried, hopeless, after
    <3> QED
      BY DEF ReceiveReply
  <2>2. Answered(dev, reply) = after
    BY DEF Answered
  <2> QED
    BY <2>1, <2>2
<1>6. \A i \in DOMAIN reply.results : reply.results[i] \in TrueResults(rows)
  BY <1>2, ElementOfSeq DEF Replies
<1>7. marked \in Seq(TrueEntries(rows))
  <2> DEFINE stored == {r.op : r \in ResultsWith(reply, "DUPLICATE_OPERATION")}
  <2> HIDE DEF merged, reply
  <2>1. \A op \in stored : IsStored(rows, op)
    BY <1>6 DEF ResultsWith, ToSet, TrueResults
  <2>2. marked = Mark(merged.log, stored, "synced")
    BY DEF MarkDuplicates
  <2>3. "synced" \in Statuses /\ merged.log \in Seq(TrueEntries(rows))
    BY <1>4 DEF Statuses, DevicesOn
  <2> HIDE DEF stored
  <2> QED
    BY <2>1, <2>2, <2>3, MarkType
<1> HIDE DEF marked, merged
<1>8. dev \in DevicesOn(rows)
  BY <1>4, <1>7 DEF DevicesOn
<1> HIDE DEF dev, reply
<1>9. log \in Seq(TrueEntries(rows))
  <2>1. "rejected" \in Statuses /\ dev.log \in Seq(TrueEntries(rows))
    BY <1>8 DEF Statuses, DevicesOn
  <2> HIDE DEF hopeless
  <2> QED
    BY <2>1, MarkType
<1>10. /\ retry \in Seq({reply.results[i] : i \in Retried \intersect (1..Len(reply.results))})
       /\ retry \in Seq(TrueResults(rows))
  <2>1. reply.results \in Seq(TrueResults(rows))
    BY <1>2 DEF Replies
  <2> HIDE DEF Retried
  <2> QED
    BY <2>1, ChosenElements
<1>11. \A i \in DOMAIN retry : retry[i] \in open /\ retry[i].op.ent \notin over
  <2> DEFINE X == {reply.results[i] : i \in Retried \intersect (1..Len(reply.results))}
  <2>1. \A r \in X : r \in open /\ r.op.ent \notin over
    OBVIOUS
  <2> HIDE DEF X, retry
  <2>2. \A i \in DOMAIN retry : retry[i] \in X
    BY <1>10, ElementOfSeq DEF X
  <2> QED
    BY <2>1, <2>2
<1>12. attempts \in [Entities -> 0..MaxAttempts]
  <2> SUFFICES ASSUME NEW e \in Entities, e \in tried, e \notin over
               PROVE  dev.attempts[e] + 1 \in 0..MaxAttempts
    <3>1. dev.attempts \in [Entities -> 0..MaxAttempts]
      BY <1>8 DEF DevicesOn
    <3> HIDE DEF AllAccepted, over, tried
    <3> QED
      BY <3>1, Limits
  <2>1. dev.attempts[e] \in 0..MaxAttempts
    BY <1>8 DEF DevicesOn
  <2>2. ~(dev.attempts[e] >= MaxAttempts)
    BY DEF GivesUp
  <2> QED
    BY <2>1, <2>2, Limits
<1>13. reply.latest \in 0..Len(rows)
  BY <1>2 DEF Replies
<1>14. NoReply \in Replies(rows)
  <2>1. <<>> \in Seq(TrueResults(rows)) /\ <<>> \in Seq(Operations) /\ 0 \in 0..Len(rows)
    BY <1>1
  <2> QED
    BY <2>1 DEF NoReply, Replies
<1>15. AttemptsCounted(after)
  <2> SUFFICES ASSUME NEW i \in DOMAIN retry
               PROVE  attempts[retry[i].op.ent] > 0
    <3>1. after.rejected = retry /\ after.attempts = attempts
      <4> HIDE DEF retry, attempts, log, phase
      <4> QED
        BY <1>8 DEF DevicesOn
    <3> HIDE DEF after, retry, attempts
    <3> QED
      BY <3>1 DEF AttemptsCounted
  <2> DEFINE e == retry[i].op.ent
  <2>1. retry[i] \in open /\ e \notin over
    BY <1>11
  <2>2. e \in tried
    BY <2>1
  <2>3. ~AllAccepted
    BY <2>1 DEF ResultsWith
  <2>4. e \in Entities
    <3>1. retry[i] \in TrueResults(rows)
      <4> HIDE DEF retry
      <4> QED
        BY <1>10, ElementOfSeq
    <3> QED
      BY <3>1 DEF TrueResults, Operations
  <2>5. dev.attempts[e] \in Nat
    <3>1. dev.attempts \in [Entities -> 0..MaxAttempts]
      BY <1>8 DEF DevicesOn
    <3> HIDE DEF e
    <3> QED
      BY <2>4, <3>1, Limits
  <2> HIDE DEF e, AllAccepted, tried, over
  <2>6. attempts[e] = dev.attempts[e] + 1
    BY <2>1, <2>2, <2>3, <2>4
  <2>7. attempts[e] > 0
    BY <2>5, <2>6
  <2> QED
    BY <2>7 DEF e
<1>16. phase \in {"idle", "uploading", "resolving", "forcing", "settling"}
  OBVIOUS
<1>17. after \in DevicesOn(rows)
  <2> HIDE DEF log, attempts, phase, retry
  <2> QED
    BY <1>8, <1>9, <1>10, <1>12, <1>13, <1>14, <1>16 DEF DevicesOn
<1>18. failures' \in 0..MaxFailures /\ restarts' \in 0..MaxRestarts
  BY DEF ReceiveReply, ExchangeInv
<1> HIDE DEF after
<1> QED
  BY <1>5, <1>15, <1>17, <1>18, LocalStep
\* The download after a rejection.
LEMMA DownloadForRejectedStep ==
  ASSUME ExchangeInv, NEW c \in Clients, DownloadForRejected(c)
  PROVE  ExchangeInv'
<1> DEFINE dev == device[c]
           batch == Unknown(c, dev, dev.cursor)
           done == Processed(c, dev, Plan(c, dev, batch, Outcomes(dev, batch)))
           left == StillPending(done)
           phase == IF left = <<>> THEN "idle" ELSE "settling"
           extra == MaxOverClocks(ExistingClocks(left))
           after == [done EXCEPT !.cursor = Len(rows), !.rejected = left, !.phase = phase,
                                 !.extra = extra]
<1>1. dev \in DevicesOn(rows) /\ rows \in Seq(Operations)
  BY DEF ExchangeInv
<1>2. batch \in Seq(Operations)
  BY <1>1, UnknownType
<1>3. device' = [device EXCEPT ![c] = after] /\ rows' = rows
  BY DEF DownloadForRejected
<1>4. done \in DevicesOn(rows)
  <2> HIDE DEF batch, dev
  <2> QED
    BY <1>1, <1>2, ProcessingType
<1> HIDE DEF done
<1>5. left \in Seq(TrueResults(rows))
  BY <1>4, StillPendingType
<1> HIDE DEF left
<1>6. extra \in Clock
  BY <1>5, ExistingType, AggregateDominates
<1>7. phase \in {"idle", "settling"}
  OBVIOUS
<1> HIDE DEF extra, phase
<1>8. Len(rows) \in 0..Len(rows)
  BY <1>1
<1>9. after \in DevicesOn(rows) /\ after.phase = phase
  BY <1>4, <1>5, <1>6, <1>7, <1>8 DEF DevicesOn
<1>10. AttemptsCounted(after)
  BY <1>7, <1>9 DEF AttemptsCounted
<1>11. failures' \in 0..MaxFailures /\ restarts' \in 0..MaxRestarts
  BY DEF DownloadForRejected, ExchangeInv
<1> HIDE DEF after
<1> QED
  BY <1>3, <1>9, <1>10, <1>11, LocalStep

\* A download after a rejection that brings nothing.
LEMMA DownloadNothingStep ==
  ASSUME ExchangeInv, NEW c \in Clients, DownloadNothing(c)
  PROVE  ExchangeInv'
<1> DEFINE dev == device[c]
           after == [dev EXCEPT !.cursor = Len(rows), !.phase = "forcing"]
<1>1. /\ dev \in DevicesOn(rows) /\ rows \in Seq(Operations) /\ AttemptsCounted(dev)
      /\ dev.phase = "resolving"
  BY DEF ExchangeInv, DownloadNothing
<1>2. device' = [device EXCEPT ![c] = after] /\ rows' = rows
  BY <1>1 DEF DownloadNothing, ExchangeInv, DevicesOn
<1> HIDE DEF dev
<1>3. Len(rows) \in 0..Len(rows)
  BY <1>1
<1>4. /\ after \in DevicesOn(rows)
      /\ after.rejected = dev.rejected /\ after.attempts = dev.attempts
  BY <1>1, <1>3 DEF DevicesOn
<1>5. AttemptsCounted(after)
  BY <1>1, <1>4 DEF AttemptsCounted
<1>6. failures' \in 0..MaxFailures /\ restarts' \in 0..MaxRestarts
  BY DEF DownloadNothing, ExchangeInv
<1> HIDE DEF after
<1> QED
  BY <1>2, <1>4, <1>5, <1>6, LocalStep

\* The download that starts at the beginning.
LEMMA ForceDownloadStep ==
  ASSUME ExchangeInv, NEW c \in Clients, ForceDownload(c)
  PROVE  ExchangeInv'
<1> DEFINE dev == device[c]
           batch == Unknown(c, dev, 0)
           done == Processed(c, dev, Plan(c, dev, batch, Outcomes(dev, batch)))
           others == ToSet(RowsOfOthers(c, rows, 0))
           extra == MaxOverClocks(ClocksOf(others) \union ExistingClocks(dev.rejected))
           after == [done EXCEPT !.cursor = Len(rows), !.phase = "settling", !.extra = extra]
<1>1. dev \in DevicesOn(rows) /\ rows \in Seq(Operations)
  BY DEF ExchangeInv
<1>2. batch \in Seq(Operations)
  BY <1>1, UnknownType
<1>3. device' = [device EXCEPT ![c] = after] /\ rows' = rows
  BY DEF ForceDownload
<1>4. done \in DevicesOn(rows)
  <2> HIDE DEF batch, dev
  <2> QED
    BY <1>1, <1>2, ProcessingType
<1>5. extra \in Clock
  <2>1. others \in SUBSET Operations /\ IsFiniteSet(others)
    BY <1>1, RowsType, ElementsType
  <2>2. dev.rejected \in Seq(TrueResults(rows))
    BY <1>1 DEF DevicesOn
  <2>3. ExistingClocks(dev.rejected) \in SUBSET Clock /\ IsFiniteSet(ExistingClocks(dev.rejected))
    BY <2>2, ExistingType
  <2> HIDE DEF others, dev
  <2>4. MaxOverClocks(ExistingClocks(dev.rejected) \union ClocksOf(others)) \in Clock
    BY <2>1, <2>3, MaxOverType
  <2>5. ClocksOf(others) \union ExistingClocks(dev.rejected)
          = ExistingClocks(dev.rejected) \union ClocksOf(others)
    OBVIOUS
  <2> QED
    BY <2>4, <2>5
<1> HIDE DEF done, extra, dev
<1>6. Len(rows) \in 0..Len(rows)
  BY <1>1
<1>7. after \in DevicesOn(rows) /\ after.phase = "settling"
  BY <1>4, <1>5, <1>6 DEF DevicesOn
<1>8. AttemptsCounted(after)
  BY <1>7 DEF AttemptsCounted
<1>9. failures' \in 0..MaxFailures /\ restarts' \in 0..MaxRestarts
  BY DEF ForceDownload, ExchangeInv
<1> HIDE DEF after
<1> QED
  BY <1>3, <1>7, <1>8, <1>9, LocalStep

\* The operations that settle what was rejected are stored.
LEMMA SettleStep ==
  ASSUME ExchangeInv, NEW c \in Clients, Settle(c)
  PROVE  ExchangeInv'
<1> DEFINE dev == device[c]
           made == Settling(c, dev)
           log == LogAfterSettling(dev, made, 1 + Len(made))
           clock == ClockAfter(c, dev, {}, made)
           after == [dev EXCEPT !.log = log, !.clock = clock, !.phase = "idle",
                                !.rejected = <<>>, !.extra = ZeroClock]
<1>1. dev \in DevicesOn(rows)
  BY DEF ExchangeInv
<1>2. made \in Seq(Operations)
  BY <1>1, SettlingType
<1>3. device' = [device EXCEPT ![c] = after] /\ rows' = rows
  BY DEF Settle
<1> HIDE DEF made, dev
<1>4. log \in Seq(TrueEntries(rows))
  <2>1. 1 + Len(made) \in 1..1 + Len(made)
    BY <1>2
  <2> QED
    BY <1>1, <1>2, <2>1, LogAfterSettlingType
<1>5. clock \in Clock
  <2>1. dev.clock \in Clock /\ {} \in SUBSET Operations /\ IsFiniteSet({})
    BY <1>1, FS_EmptySet DEF DevicesOn
  <2> QED
    BY <1>2, <2>1, ClockAfterType
<1>6. <<>> \in Seq(TrueResults(rows)) /\ ZeroClock \in Clock
  BY DEF ZeroClock, Clock
<1> HIDE DEF log, clock
<1>7. after \in DevicesOn(rows) /\ after.phase = "idle"
  BY <1>1, <1>4, <1>5, <1>6 DEF DevicesOn
<1>8. AttemptsCounted(after)
  BY <1>7 DEF AttemptsCounted
<1>9. failures' \in 0..MaxFailures /\ restarts' \in 0..MaxRestarts
  BY DEF Settle, ExchangeInv
<1> HIDE DEF after
<1> QED
  BY <1>3, <1>7, <1>8, <1>9, LocalStep

-----------------------------------------------------------------------------
(* Failures *)

\* A reply is lost.
LEMMA LoseReplyStep ==
  ASSUME ExchangeInv, NEW c \in Clients, LoseReply(c)
  PROVE  ExchangeInv'
<1> DEFINE dev == device[c]
           after == [dev EXCEPT !.phase = "idle", !.reply = NoReply]
<1>1. dev \in DevicesOn(rows) /\ rows \in Seq(Operations)
  BY DEF ExchangeInv
<1>2. device' = [device EXCEPT ![c] = after] /\ rows' = rows
  BY <1>1 DEF LoseReply, ExchangeInv, DevicesOn
<1> HIDE DEF dev
<1>3. NoReply \in Replies(rows)
  <2>1. <<>> \in Seq(TrueResults(rows)) /\ <<>> \in Seq(Operations) /\ 0 \in 0..Len(rows)
    BY <1>1
  <2> QED
    BY <2>1 DEF NoReply, Replies
<1>4. after \in DevicesOn(rows) /\ after.phase = "idle"
  BY <1>1, <1>3 DEF DevicesOn
<1>5. AttemptsCounted(after)
  BY <1>4 DEF AttemptsCounted
<1>6. failures' \in 0..MaxFailures /\ restarts' \in 0..MaxRestarts
  BY Limits DEF LoseReply, ExchangeInv
<1> HIDE DEF after
<1> QED
  BY <1>2, <1>4, <1>5, <1>6, LocalStep

\* A download fails: the attempt that was counted for it is taken back.
LEMMA FailDownloadStep ==
  ASSUME ExchangeInv, NEW c \in Clients, FailDownload(c)
  PROVE  ExchangeInv'
<1> DEFINE dev == device[c]
           tried == {r.op.ent : r \in ToSet(dev.rejected)}
           attempts == [e \in Entities |->
                          IF e \in tried THEN dev.attempts[e] - 1 ELSE dev.attempts[e]]
           after == [dev EXCEPT !.phase = "idle", !.rejected = <<>>, !.attempts = attempts]
<1>1. dev \in DevicesOn(rows) /\ AttemptsCounted(dev) /\ dev.phase \in {"resolving", "forcing"}
  BY DEF ExchangeInv, FailDownload
<1>2. device' = [device EXCEPT ![c] = after] /\ rows' = rows
  BY <1>1 DEF FailDownload, ExchangeInv, DevicesOn
<1> HIDE DEF dev
<1>3. attempts \in [Entities -> 0..MaxAttempts]
  <2>1. dev.attempts \in [Entities -> 0..MaxAttempts]
    BY <1>1 DEF DevicesOn
  <2>2. \A e \in tried : dev.attempts[e] > 0
    BY <1>1 DEF AttemptsCounted, ToSet
  <2> HIDE DEF tried
  <2> QED
    BY <2>1, <2>2, Limits
<1> HIDE DEF attempts
<1>4. <<>> \in Seq(TrueResults(rows))
  OBVIOUS
<1>5. after \in DevicesOn(rows) /\ after.phase = "idle"
  BY <1>1, <1>3, <1>4 DEF DevicesOn
<1>6. AttemptsCounted(after)
  BY <1>5 DEF AttemptsCounted
<1>7. failures' \in 0..MaxFailures /\ restarts' \in 0..MaxRestarts
  BY Limits DEF FailDownload, ExchangeInv
<1> HIDE DEF after
<1> QED
  BY <1>2, <1>5, <1>6, <1>7, LocalStep

\* The application starts again.
LEMMA RestartStep ==
  ASSUME ExchangeInv, NEW c \in Clients, Restart(c)
  PROVE  ExchangeInv'
<1> DEFINE after == Started(c, device[c])
<1>1. after \in DevicesOn(rows) /\ after.phase = "idle"
  BY StartedType DEF ExchangeInv
<1>2. device' = [device EXCEPT ![c] = after] /\ rows' = rows
  BY DEF Restart
<1> HIDE DEF after
<1>3. AttemptsCounted(after)
  BY <1>1 DEF AttemptsCounted
<1>4. failures' \in 0..MaxFailures /\ restarts' \in 0..MaxRestarts
  BY Limits DEF Restart, ExchangeInv
<1> QED
  BY <1>1, <1>2, <1>3, <1>4, LocalStep

\* The rows that a device may be processing.
LEMMA IncomingType ==
  ASSUME ExchangeInv, NEW c \in Clients
  PROVE  Incoming(c) \in Seq(Operations)
<1> DEFINE dev == device[c]
<1>1. dev \in DevicesOn(rows) /\ rows \in Seq(Operations)
  BY DEF ExchangeInv
<1>2. dev.phase \in {"idle", "uploading", "resolving", "forcing", "settling"}
  BY <1>1 DEF DevicesOn
<1>3. dev.reply.newRows \in Seq(Operations)
  BY <1>1 DEF DevicesOn, Replies
<1>4. Unknown(c, dev, dev.cursor) \in Seq(Operations) /\ Unknown(c, dev, 0) \in Seq(Operations)
  BY <1>1, UnknownType
<1>5. <<>> \in Seq(Operations)
  OBVIOUS
<1>6. CASE dev.phase = "uploading"
  BY <1>3, <1>6 DEF Incoming
<1>7. CASE dev.phase \in {"idle", "resolving"}
  BY <1>4, <1>7 DEF Incoming
<1>8. CASE dev.phase = "forcing"
  BY <1>4, <1>8 DEF Incoming
<1>9. CASE dev.phase = "settling"
  BY <1>5, <1>9 DEF Incoming
<1> QED
  BY <1>2, <1>6, <1>7, <1>8, <1>9

\* The application crashes while it processes rows.
LEMMA CrashStep ==
  ASSUME ExchangeInv, NEW c \in Clients, NEW n \in Nat, NEW moved \in BOOLEAN, Crash(c, n, moved)
  PROVE  ExchangeInv'
<1> DEFINE dev == Uploaded(device[c])
           next == IF dev.phase = "uploading" THEN dev.reply.latest ELSE Len(rows)
           batch == Incoming(c)
           plan == Plan(c, dev, batch, Outcomes(dev, batch))
           log == LogAfter(dev.log, plan, n)
           cursor == IF moved THEN next ELSE dev.cursor
           stored == [dev EXCEPT !.log = log, !.cursor = cursor]
           after == Started(c, stored)
<1>1. device[c] \in DevicesOn(rows) /\ rows \in Seq(Operations)
  BY DEF ExchangeInv
<1>2. dev \in DevicesOn(rows)
  BY <1>1, UploadedType
<1>3. batch \in Seq(Operations)
  BY IncomingType
<1>4. n <= AllWrites(plan) /\ device' = [device EXCEPT ![c] = after] /\ rows' = rows
  BY DEF Crash
<1> HIDE DEF dev, batch
<1>5. plan \in Plans
  BY <1>2, <1>3, PlanType
<1> HIDE DEF plan
<1>6. log \in Seq(TrueEntries(rows))
  <2>1. n \in 0..AllWrites(plan)
    BY <1>4, <1>5 DEF AllWrites, Plans
  <2>2. dev.log \in Seq(TrueEntries(rows))
    BY <1>2 DEF DevicesOn
  <2> QED
    BY <1>5, <2>1, <2>2, LogAfterType
<1>7. cursor \in 0..Len(rows)
  <2>1. dev.reply.latest \in 0..Len(rows) /\ dev.cursor \in 0..Len(rows)
    BY <1>2 DEF DevicesOn, Replies
  <2>2. Len(rows) \in 0..Len(rows)
    BY <1>1
  <2> QED
    BY <2>1, <2>2
<1> HIDE DEF log, cursor
<1>8. stored \in DevicesOn(rows)
  BY <1>2, <1>6, <1>7 DEF DevicesOn
<1> HIDE DEF stored
<1>9. after \in DevicesOn(rows) /\ after.phase = "idle"
  BY <1>1, <1>8, StartedType
<1> HIDE DEF after
<1>10. AttemptsCounted(after)
  BY <1>9 DEF AttemptsCounted
<1>11. failures' \in 0..MaxFailures /\ restarts' \in 0..MaxRestarts
  BY Limits DEF Crash, ExchangeInv
<1> QED
  BY <1>4, <1>9, <1>10, <1>11, LocalStep

\* It crashes while it settles what was rejected.
LEMMA CrashSettlingStep ==
  ASSUME ExchangeInv, NEW c \in Clients, NEW n \in Nat \ {0}, CrashSettling(c, n)
  PROVE  ExchangeInv'
<1> DEFINE dev == device[c]
           made == Settling(c, dev)
           log == LogAfterSettling(dev, made, n)
           stored == [dev EXCEPT !.log = log]
           after == Started(c, stored)
<1>1. dev \in DevicesOn(rows) /\ rows \in Seq(Operations)
  BY DEF ExchangeInv
<1>2. made \in Seq(Operations)
  BY <1>1, SettlingType
<1>3. n <= 1 + Len(made) /\ device' = [device EXCEPT ![c] = after] /\ rows' = rows
  BY DEF CrashSettling
<1> HIDE DEF dev, made
<1>4. log \in Seq(TrueEntries(rows))
  <2>1. n \in 1..1 + Len(made)
    BY <1>2, <1>3
  <2> QED
    BY <1>1, <1>2, <2>1, LogAfterSettlingType
<1> HIDE DEF log
<1>5. stored \in DevicesOn(rows)
  BY <1>1, <1>4 DEF DevicesOn
<1> HIDE DEF stored
<1>6. after \in DevicesOn(rows) /\ after.phase = "idle"
  BY <1>1, <1>5, StartedType
<1> HIDE DEF after
<1>7. AttemptsCounted(after)
  BY <1>6 DEF AttemptsCounted
<1>8. failures' \in 0..MaxFailures /\ restarts' \in 0..MaxRestarts
  BY Limits DEF CrashSettling, ExchangeInv
<1> QED
  BY <1>3, <1>6, <1>7, <1>8, LocalStep

-----------------------------------------------------------------------------
(* The specification *)

\* Every step keeps the invariant.
LEMMA NextExchange ==
  ASSUME ExchangeInv, [Next]_vars
  PROVE  ExchangeInv'
<1>1. CASE UNCHANGED vars
  BY <1>1 DEF vars, ExchangeInv
<1>2. ASSUME NEW c \in Clients, DeviceStep(c)
      PROVE  ExchangeInv'
  <2>1. CASE SyncStep(c)
    BY <2>1, DownloadStep, UploadStep, UploadNothingStep, ReceiveReplyStep,
       DownloadForRejectedStep, DownloadNothingStep, ForceDownloadStep, SettleStep DEF SyncStep
  <2>2. ASSUME NEW n \in 0..5 + Len(rows), NEW moved \in BOOLEAN, Crash(c, n, moved)
        PROVE  ExchangeInv'
    BY <2>2, CrashStep
  <2>3. ASSUME NEW n \in 1..1 + Len(device[c].rejected), CrashSettling(c, n)
        PROVE  ExchangeInv'
    BY <2>3, CrashSettlingStep
  <2> QED
    BY <1>2, <2>1, <2>2, <2>3, EditStep, LoseReplyStep, FailDownloadStep, RestartStep
    DEF DeviceStep
<1> QED
  BY <1>1, <1>2 DEF Next

\* The inductive invariant holds of every behaviour.
LEMMA ExchangeInvariant == Spec => []ExchangeInv
<1>1. Init => ExchangeInv
  BY InitExchange
<1>2. ExchangeInv /\ [Next]_vars => ExchangeInv'
  BY NextExchange
<1> QED
  BY <1>1, <1>2, PTL DEF Spec

\* A device's clock, log, values and attempts keep to their types, its cursor never
\* passes the end of the server's log, and the conflicts of an entity are never tried
\* more often than MAX_CONCURRENT_RESOLUTION_ATTEMPTS says.
THEOREM ExchangeTypeCorrect == Spec => []TypeOK
<1>1. ExchangeInv => TypeOK
  <2> SUFFICES ASSUME ExchangeInv, NEW c \in Clients
               PROVE  /\ device[c].clock \in Clock
                      /\ device[c].cursor \in 0..Len(rows)
                      /\ device[c].attempts \in [Entities -> 0..MaxAttempts]
                      /\ device[c].value \in [Entities -> (Clients \X Nat) \union {NoEdit}]
                      /\ \A x \in ToSet(device[c].log) :
                           /\ x.op.clk \in Clock /\ x.op.ts \in Stamps
                           /\ x.status \in {"pending", "synced", "applied", "rejected"}
    BY DEF TypeOK, ExchangeInv
  <2>1. device[c] \in DevicesOn(rows)
    BY DEF ExchangeInv
  <2>2. \A x \in ToSet(device[c].log) : x \in TrueEntries(rows)
    BY <2>1, ElementOfSeq DEF DevicesOn, ToSet
  <2> QED
    BY <2>1, <2>2 DEF DevicesOn, Values, TrueEntries, Operations
<1> QED
  BY <1>1, ExchangeInvariant, PTL

\* Whatever replies are lost and wherever the application crashes, what a device has
\* marked as synced is in the server's log.
THEOREM SyncedStaysStored == Spec => []SyncedIsStored
<1>1. ExchangeInv => SyncedIsStored
  <2> SUFFICES ASSUME ExchangeInv, NEW c \in Clients, NEW x \in ToSet(device[c].log),
                      x.status = "synced"
               PROVE  \E r \in ToSet(rows) : r.id = x.op.id
    BY DEF SyncedIsStored
  <2>1. device[c] \in DevicesOn(rows)
    BY DEF ExchangeInv
  <2>2. x \in TrueEntries(rows)
    BY <2>1, ElementOfSeq DEF DevicesOn, ToSet
  <2> QED
    BY <2>2 DEF TrueEntries, IsStored, ToSet
<1> QED
  BY <1>1, ExchangeInvariant, PTL
=============================================================================
