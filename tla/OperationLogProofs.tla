------------------------- MODULE OperationLogProofs -------------------------
(***************************************************************************)
(* What follows from the promise of OperationLog, whatever implements it:  *)
(* the log is numbered below its counter and no update in it is lost.      *)
(***************************************************************************)
EXTENDS OperationLog, SyncVectorClockProofs

\* The inductive invariant: the counter bounds the rows' numbers, so that what is appended
\* comes behind every row.
LogInv ==
  /\ last \in Nat
  /\ \A row \in log : IsRow(row) /\ row.seq <= last
  /\ NoLostUpdate

\* An operation that succeeds a row dominates the row's clock.
LEMMA SuccessorDominates ==
  ASSUME NEW op, NEW prior, op.clock \in Clock, prior.clk \in Clock, Succeeds(op, prior)
  PROVE  Dominates(op.clock, prior.clk)
<1>1. CASE CompareClocks(op.clock, prior.clk) = "GREATER_THAN"
  BY <1>1, GreaterIsStrictDominance
<1>2. CASE CompareClocks(op.clock, prior.clk) = "EQUAL"
  BY <1>2, EqualIsIdentity DEF Dominates, Clock
<1> QED
  BY <1>1, <1>2 DEF Succeeds

\* An upload keeps the invariant whether it extends the log or replaces it.
LEMMA UploadStep ==
  ASSUME LogInv, NEW kept \in {log, {}}, Upload(kept)
  PROVE  LogInv'
<1> DEFINE new == log' \ kept
<1>1. /\ kept \subseteq log' /\ \A row \in new : IsRow(row) /\ Judged(row, log')
  BY DEF Upload
<1>2. /\ last \in Nat /\ last' \in Nat /\ last <= last'
      /\ \A row \in new : last < row.seq /\ row.seq <= last'
  BY DEF Upload, LogInv
<1>3. \A row \in kept : row \in log
  OBVIOUS
<1> HIDE DEF new
<1>4. ASSUME NEW row \in log'
      PROVE  IsRow(row) /\ row.seq <= last'
  <2>1. CASE row \in kept
    BY <1>2, <1>3, <2>1 DEF LogInv, IsRow
  <2>2. CASE row \notin kept
    BY <1>1, <1>2, <2>2 DEF new
  <2> QED
    BY <2>1, <2>2
<1>5. ASSUME NEW row \in log', ~row.op.full, NEW entity \in row.op.ents,
             NEW prior \in Newest(Before(log', row), entity)
      PROVE  Dominates(row.op.clock, prior.clk)
  <2>1. prior \in log'
    BY DEF Newest, Before
  <2>2. CASE row \in kept
    <3>1. Before(log', row) = Before(log, row)
      <4>1. row \in log /\ kept = log
        BY <1>3, <2>2
      <4>2. ASSUME NEW p \in log', p.seq < row.seq
            PROVE  p \in log
        <5>1. row.seq <= last /\ row.seq \in Nat
          BY <4>1 DEF LogInv, IsRow
        <5>2. p \in new => last < p.seq /\ p.seq \in Nat
          BY <1>1, <1>2 DEF IsRow
        <5> QED
          BY <1>2, <4>1, <4>2, <5>1, <5>2 DEF new
      <4> QED
        BY <1>1, <4>1, <4>2 DEF Before
    <3> QED
      BY <1>3, <1>5, <2>2, <3>1 DEF LogInv, NoLostUpdate
  <2>3. CASE row \notin kept
    <3>1. Succeeds(row.op, prior)
      BY <1>1, <1>5, <2>3 DEF Judged, new
    <3> QED
      BY <1>4, <2>1, <3>1, SuccessorDominates DEF IsRow
  <2> QED
    BY <2>2, <2>3
<1>6. NoLostUpdate'
  BY <1>5 DEF NoLostUpdate, Newest, Before
<1> QED
  BY <1>2, <1>4, <1>6 DEF LogInv

\* Forgetting from the beginning keeps the newest row on an entity before any row that
\* stays, or leaves no row before it.
LEMMA ForgetStep ==
  ASSUME LogInv, Forget
  PROVE  LogInv'
<1>1. /\ log' \subseteq log /\ last' = last
      /\ \A gone \in log \ log', row \in log' : gone.seq < row.seq
  BY DEF Forget
<1>2. ASSUME NEW row \in log', ~row.op.full, NEW entity \in row.op.ents,
             NEW prior \in Newest(Before(log', row), entity)
      PROVE  Dominates(row.op.clock, prior.clk)
  <2>1. prior \in log' /\ prior.seq < row.seq /\ entity \in prior.op.ents
    BY DEF Newest, Before
  <2>2. ASSUME NEW other \in log, other.seq < row.seq, entity \in other.op.ents
        PROVE  prior.seq >= other.seq
    <3>1. other.seq \in Nat /\ prior.seq \in Nat
      BY <1>1, <2>1 DEF LogInv, IsRow
    <3>2. CASE other \in log'
      BY <2>2, <3>2 DEF Newest, Before
    <3>3. CASE other \notin log'
      BY <1>1, <2>1, <3>1, <3>3
    <3> QED
      BY <3>2, <3>3
  <2>3. prior \in Newest(Before(log, row), entity)
    BY <1>1, <2>1, <2>2 DEF Newest, Before
  <2> QED
    BY <1>1, <1>2, <2>3 DEF LogInv, NoLostUpdate
<1>3. NoLostUpdate'
  BY <1>2 DEF NoLostUpdate, Newest, Before
<1> QED
  BY <1>1, <1>3 DEF LogInv

\* Every log that behaves as promised is free of lost updates: on each entity the author
\* of an operation had seen the operation that wrote the entity before it.
THEOREM LogLosesNoUpdate == Spec => []NoLostUpdate
<1>1. Init => LogInv
  BY DEF Init, LogInv, NoLostUpdate
<1>2. LogInv /\ [Next]_<<log, last>> => LogInv'
  <2> SUFFICES ASSUME LogInv, [Next]_<<log, last>> PROVE LogInv'
    OBVIOUS
  <2>1. CASE Append
    BY <2>1, UploadStep DEF Append
  <2>2. CASE Replace
    BY <2>2, UploadStep DEF Replace
  <2>3. CASE Forget
    BY <2>3, ForgetStep
  <2>4. CASE UNCHANGED <<log, last>>
    BY <2>4 DEF LogInv, NoLostUpdate, Newest, Before
  <2> QED
    BY <2>1, <2>2, <2>3, <2>4 DEF Next
<1>3. LogInv => NoLostUpdate
  BY DEF LogInv
<1> QED
  BY <1>1, <1>2, <1>3, PTL DEF Spec
=============================================================================
