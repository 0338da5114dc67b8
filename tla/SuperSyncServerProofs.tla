------------------------ MODULE SuperSyncServerProofs ------------------------
(***************************************************************************)
(* Theorems about SuperSyncServer, for any number of handlers, processes,  *)
(* operations and requests, in three parts.                                *)
(*                                                                         *)
(* Numbers: ServerInv says beside the type and the uniqueness of the       *)
(* stored rows how the numbers of an open transaction relate to the        *)
(* published counter.                                                      *)
(*                                                                         *)
(* Refinement: the concurrent server implements OperationLog; every commit *)
(* appends to, or replaces, the log as it is at that moment.  The heart of *)
(* it is SerialInv, which relates what a transaction has read to the table *)
(* that its verdicts are about to join.                                    *)
(*                                                                         *)
(* Coverage: what the server never forgets, though it deletes.  A first    *)
(* import meets no other, the clock of the last full-state row covers the  *)
(* rows before it, rows that are gone are covered by a newer full-state    *)
(* row or by the cached snapshot, and cached results are true.             *)
(***************************************************************************)
EXTENDS SuperSyncServer, SyncVectorClockProofs, SequenceTheorems

-----------------------------------------------------------------------------
(* Operators of the model *)

\* The row an accepted operation becomes is a row of the table.
LEMMA RowHasType ==
  ASSUME NEW op \in Ops, NEW ts \in 0..MaxTime, NEW seq \in 1..MaxSeq, NEW at \in 1..MaxTime
  PROVE  /\ Row(op, ts, seq, at) \in RowType
         /\ Row(op, ts, seq, at).seq = seq /\ Row(op, ts, seq, at).op = op
  BY OpsAssumption, LimitType DEF Row, RowType

\* A non-empty table has a row with the greatest number, which is MaxSeqOf.
LEMMA GreatestRow ==
  ASSUME NEW table \in SUBSET RowType, table # {}
  PROVE  /\ MaxSeqOf(table) \in 1..MaxSeq
         /\ \E r \in table : r.seq = MaxSeqOf(table)
         /\ \A r \in table : r.seq <= MaxSeqOf(table)
<1>1. SeqsOf(table) \in SUBSET (1..MaxSeq) /\ SeqsOf(table) # {}
  BY DEF SeqsOf, RowType
<1>2. IsFiniteSet(SeqsOf(table))
  BY <1>1, FS_Interval, FS_Subset, BoundsAssumption
<1>3. SeqsOf(table) \in SUBSET Nat
  BY <1>1, BoundsAssumption
<1>4. PICK m \in SeqsOf(table) : \A n \in SeqsOf(table) : m >= n
  BY <1>1, <1>2, <1>3, FiniteSetHasMax
<1>5. MaxSeqOf(table) \in SeqsOf(table) /\ \A n \in SeqsOf(table) : MaxSeqOf(table) >= n
  BY <1>4 DEF MaxSeqOf
<1> QED
  BY <1>1, <1>3, <1>5 DEF SeqsOf

\* A verdict is one of the server's error codes or ACCEPTED; an operation is accepted
\* only under an id that no visible row has.
LEMMA VerdictHasType ==
  ASSUME NEW table, NEW op, NEW ts
  PROVE  /\ Verdict(table, op, ts) \in Verdicts
         /\ Verdict(table, op, ts) = "ACCEPTED" => \A r \in table : r.op.id # op.id
<1> DEFINE known == {r \in table : r.op.id = op.id}
<1>1. CASE ~op.valid
  BY <1>1 DEF Verdict, Verdicts
<1>2. CASE op.valid /\ \E r \in known : SameOperation(r, op, ts)
  BY <1>2 DEF Verdict, Verdicts
<1>3. CASE op.valid /\ known # {} /\ \A r \in known : ~SameOperation(r, op, ts)
  BY <1>3 DEF Verdict, Verdicts
<1>4. CASE op.valid /\ known = {} /\ DetectConflict(table, op)
  BY <1>4 DEF Verdict, Verdicts
<1>5. CASE op.valid /\ known = {} /\ ~DetectConflict(table, op)
  BY <1>5 DEF Verdict, Verdicts
<1> QED
  BY <1>1, <1>2, <1>3, <1>4, <1>5

-----------------------------------------------------------------------------
(* Steps of one handler that leave rows and counter alone *)

CacheType == [inst : Instances, req : Requests, results : Seq(ResultType)]

\* An idle handler has the type of a handler.
LEMMA IdleHandlerHasType == IdleHandler \in HandlerType
  BY BoundsAssumption, EmptySeq DEF IdleHandler, HandlerType, Phases

\* A step that changes one handler, and the cache, keeps the invariant if it keeps what
\* the invariant says of that handler.
LEMMA OneHandlerStep ==
  ASSUME ServerInv, NEW h \in Handlers, NEW new \in HandlerType,
         handler' = [handler EXCEPT ![h] = new],
         cache' \in SUBSET CacheType,
         UNCHANGED <<rows, state, sweep, wipe, now, ledger>>,
         HandlerInv(h)'
  PROVE  ServerInv'
<1>1. handler' \in [Handlers -> HandlerType]
  BY DEF ServerInv, TypeOK
<1>2. TypeOK'
  BY <1>1 DEF ServerInv, TypeOK, CacheType
<1>3. ASSUME NEW g \in Handlers
      PROVE  HandlerInv(g)'
  <2>1. CASE g = h
    BY <2>1
  <2>2. CASE g # h
    <3>1. handler'[g] = handler[g]
      BY <2>2 DEF ServerInv, TypeOK
    <3> QED
      BY <3>1 DEF ServerInv, HandlerInv, KnowsRequest, LockedIsFresh, NumbersRows, ReadsSnapshot
  <2> QED
    BY <2>1, <2>2
<1> QED
  BY <1>2, <1>3 DEF ServerInv, RowsAreUnique, AreUnique

\* A new request finds its handler idle and leaves it with nothing but the request.
LEMMA ReceiveRequestStep ==
  ASSUME ServerInv, NEW h \in Handlers, NEW req \in Requests, ReceiveRequest(h, req)
  PROVE  ServerInv'
<1>1. ASSUME NEW new \in HandlerType, new.phase \in {"received", "done"}, new.req = req,
             new.view = {}, new.fresh = {}, ~new.stale,
             new.phase = "done" \/ new.results = <<>>, handler' = [handler EXCEPT ![h] = new]
      PROVE  ServerInv'
  <2>1. handler'[h] = new
    BY <1>1 DEF ServerInv, TypeOK
  <2>2. HandlerInv(h)'
    BY <1>1, <2>1, FS_EmptySet DEF HandlerInv, KnowsRequest, LockedIsFresh, NumbersRows, ReadsSnapshot
  <2>3. cache' \in SUBSET CacheType /\ UNCHANGED <<rows, state, sweep, wipe, now, ledger>>
    BY DEF ReceiveRequest, ServerInv, TypeOK, CacheType
  <2> QED
    BY <1>1, <2>2, <2>3, OneHandlerStep
<1>2. now \in 0..MaxTime
  BY BoundsAssumption DEF ServerInv, TypeOK
<1>3. CASE CachedFor(h, req) = {} /\ handler' = [handler EXCEPT ![h] =
             [IdleHandler EXCEPT !.phase = "received", !.req = req,
                                 !.ts = IF req.kind = "snapshot" THEN now ELSE 0]]
  <2> DEFINE new == [IdleHandler EXCEPT !.phase = "received", !.req = req,
                                        !.ts = IF req.kind = "snapshot" THEN now ELSE 0]
  <2>1. new \in HandlerType /\ new.phase = "received" /\ new.req = req
          /\ new.view = {} /\ new.fresh = {} /\ ~new.stale /\ new.results = <<>>
    BY <1>2, IdleHandlerHasType, BoundsAssumption DEF IdleHandler, HandlerType, Phases
  <2> QED
    BY <1>1, <1>3, <2>1
<1>4. ASSUME NEW e \in CachedFor(h, req), handler' = [handler EXCEPT ![h] =
             [IdleHandler EXCEPT !.phase = "done", !.req = req, !.results = e.results]]
      PROVE  ServerInv'
  <2> DEFINE new == [IdleHandler EXCEPT !.phase = "done", !.req = req, !.results = e.results]
  <2>1. e.results \in Seq(ResultType)
    BY DEF CachedFor, ServerInv, TypeOK
  <2>2. new \in HandlerType /\ new.phase = "done" /\ new.req = req
          /\ new.view = {} /\ new.fresh = {} /\ ~new.stale
    BY <2>1, IdleHandlerHasType DEF IdleHandler, HandlerType, Phases
  <2> QED
    BY <1>1, <1>4, <2>2
<1> QED
  BY <1>3, <1>4 DEF ReceiveRequest

\* Taking the lock, checking and answering an initial import change phase and results.
LEMMA LockedPhaseStep ==
  ASSUME ServerInv, NEW h \in Handlers, NEW phase \in {"locked", "checked", "done"},
         NEW results \in Seq(ResultType), handler[h].phase \in {"received", "locked"},
         handler' = [handler EXCEPT ![h].phase = phase, ![h].results = results],
         phase = "done" \/ results = handler[h].results,
         UNCHANGED <<rows, state, cache, sweep, wipe, now, ledger>>
  PROVE  ServerInv'
<1> DEFINE new == [handler[h] EXCEPT !.phase = phase, !.results = results]
<1>1. handler[h] \in HandlerType
  BY DEF ServerInv, TypeOK
<1>2. new \in HandlerType /\ handler' = [handler EXCEPT ![h] = new] /\ handler'[h] = new
  BY <1>1 DEF HandlerType, Phases, ServerInv, TypeOK
<1>3. HandlerInv(h)'
  BY <1>1, <1>2 DEF ServerInv, HandlerInv, KnowsRequest, LockedIsFresh, NumbersRows, ReadsSnapshot, HandlerType
<1>4. cache' \in SUBSET CacheType
  BY DEF ServerInv, TypeOK, CacheType
<1> QED
  BY <1>2, <1>3, <1>4, OneHandlerStep

\* The lock only moves its handler on.
LEMMA TakeStorageLockStep ==
  ASSUME ServerInv, NEW h \in Handlers, TakeStorageLock(h)
  PROVE  ServerInv'
<1>1. handler[h] \in HandlerType
  BY DEF ServerInv, TypeOK
<1>2. handler' = [handler EXCEPT ![h].phase = "locked", ![h].results = handler[h].results]
  BY <1>1 DEF TakeStorageLock, HandlerType, ServerInv, TypeOK
<1> QED
  BY <1>1, <1>2, LockedPhaseStep DEF TakeStorageLock, HandlerType

\* The import check only moves its handler on.
LEMMA PassImportCheckStep ==
  ASSUME ServerInv, NEW h \in Handlers, PassImportCheck(h)
  PROVE  ServerInv'
<1>1. handler[h] \in HandlerType
  BY DEF ServerInv, TypeOK
<1>2. handler' = [handler EXCEPT ![h].phase = "checked", ![h].results = handler[h].results]
  BY <1>1 DEF PassImportCheck, HandlerType, ServerInv, TypeOK
<1> QED
  BY <1>1, <1>2, LockedPhaseStep DEF PassImportCheck, HandlerType

\* A client that retries an existing import, or comes second, gets its one result.
LEMMA AnswerExistingImportStep ==
  ASSUME ServerInv, NEW h \in Handlers, AnswerExistingImport(h)
  PROVE  ServerInv'
<1> DEFINE op == handler[h].req.batch[1]
           same == {r \in FullRows(rows) : r.op.id = op.id}
           results == IF same = {} THEN <<Result(op, "SYNC_IMPORT_EXISTS", 0)>>
                                   ELSE <<Result(op, "ACCEPTED", MaxSeqOf(same))>>
<1>1. handler[h].req \in Requests
  BY DEF AnswerExistingImport, ServerInv, HandlerInv, KnowsRequest
<1>2. op \in Ops
  BY <1>1, RequestsAssumption DEF AnswerExistingImport, IsFirstImport
<1>3. same \in SUBSET RowType
  BY DEF ServerInv, TypeOK, FullRows
<1>4. same # {} => MaxSeqOf(same) \in 0..MaxSeq
  BY <1>3, GreatestRow, BoundsAssumption
<1>5. results \in Seq(ResultType)
  <2> HIDE DEF op, same
  <2>1. Result(op, "SYNC_IMPORT_EXISTS", 0) \in ResultType
    BY <1>2, BoundsAssumption DEF Result, ResultType, Verdicts
  <2>2. same # {} => Result(op, "ACCEPTED", MaxSeqOf(same)) \in ResultType
    BY <1>2, <1>4 DEF Result, ResultType, Verdicts
  <2>3. \A res \in ResultType : <<res>> \in Seq(ResultType)
    OBVIOUS
  <2> QED
    BY <2>1, <2>2, <2>3
<1>6. handler' = [handler EXCEPT ![h].phase = "done", ![h].results = results]
  BY DEF AnswerExistingImport
<1> HIDE DEF results
<1> QED
  BY <1>5, <1>6, LockedPhaseStep DEF AnswerExistingImport

\* A handler that is done with its transaction, or with its request, keeps no rows.
LEMMA EmptyHandlerStep ==
  ASSUME ServerInv, NEW h \in Handlers, NEW new \in HandlerType,
         handler' = [handler EXCEPT ![h] = new],
         new.view = {}, new.fresh = {},
         \/ new.phase = "idle"
         \/ new.phase = "done" /\ new.req \in Requests,
         cache' \in SUBSET CacheType,
         UNCHANGED <<rows, state, sweep, wipe, now, ledger>>
  PROVE  ServerInv'
<1>1. handler'[h] = new
  BY DEF ServerInv, TypeOK
<1>2. HandlerInv(h)'
  BY <1>1, FS_EmptySet DEF HandlerInv, KnowsRequest, LockedIsFresh, NumbersRows, ReadsSnapshot
<1> QED
  BY <1>2, OneHandlerStep

\* Refusing for quota, failing after the commit and replying leave the handler idle.
LEMMA BecomesIdleStep ==
  ASSUME ServerInv, NEW h \in Handlers,
         RejectForQuota(h) \/ FailAfterCommit(h) \/ Respond(h)
  PROVE  ServerInv'
<1>1. /\ handler' = [handler EXCEPT ![h] = IdleHandler]
      /\ UNCHANGED <<rows, state, cache, sweep, wipe, now, ledger>>
  BY DEF RejectForQuota, FailAfterCommit, Respond
<1>2. cache' \in SUBSET CacheType
  BY <1>1 DEF ServerInv, TypeOK, CacheType
<1>3. IdleHandler.view = {} /\ IdleHandler.fresh = {} /\ IdleHandler.phase = "idle"
  BY DEF IdleHandler
<1> QED
  BY <1>1, <1>2, <1>3, IdleHandlerHasType, EmptyHandlerStep

\* The reply to a rolled back transaction has a failure for every operation.
LEMMA AllFailedHasType ==
  ASSUME NEW batch \in Seq(Ops)
  PROVE  AllFailed(batch) \in Seq(ResultType)
<1>1. \A i \in 1..Len(batch) : Result(batch[i], "INTERNAL_ERROR", 0) \in ResultType
  BY BoundsAssumption DEF Result, ResultType, Verdicts
<1>2. DOMAIN batch = 1..Len(batch) /\ Len(batch) \in Nat
  BY LenProperties
<1>3. AllFailed(batch) \in [1..Len(batch) -> ResultType]
  BY <1>1, <1>2 DEF AllFailed
<1> QED
  BY <1>2, <1>3, SeqDef

\* A rollback forgets the rows of the transaction and fails every operation.
LEMMA AbortUploadStep ==
  ASSUME ServerInv, NEW h \in Handlers, AbortUpload(h)
  PROVE  ServerInv'
<1> DEFINE failed == AllFailed(handler[h].req.batch)
           new == [IdleHandler EXCEPT !.phase = "done", !.req = handler[h].req,
                                      !.results = failed]
<1>1. handler[h].req \in Requests
  BY DEF AbortUpload, ServerInv, HandlerInv, KnowsRequest
<1>2. failed \in Seq(ResultType)
  BY <1>1, RequestsAssumption, AllFailedHasType
<1>3. /\ handler' = [handler EXCEPT ![h] = new]
      /\ UNCHANGED <<rows, state, cache, sweep, wipe, now, ledger>>
  BY DEF AbortUpload
<1> HIDE DEF failed
<1>4. new \in HandlerType /\ new.phase = "done" /\ new.req \in Requests
        /\ new.view = {} /\ new.fresh = {}
  BY <1>1, <1>2, IdleHandlerHasType DEF IdleHandler, HandlerType, Phases
<1>5. cache' \in SUBSET CacheType
  BY <1>3 DEF ServerInv, TypeOK, CacheType
<1> HIDE DEF new
<1> QED
  BY <1>3, <1>4, <1>5, EmptyHandlerStep

\* FinishRequest caches and returns a result for each operation of the request.
LEMMA FinishRequestStep ==
  ASSUME ServerInv, NEW h \in Handlers, FinishRequest(h)
  PROVE  ServerInv'
<1> DEFINE final == FinalResults(h)
           new == [IdleHandler EXCEPT !.phase = "done", !.req = handler[h].req,
                                      !.results = final]
           entry == [inst |-> Home[h], req |-> handler[h].req, results |-> final]
<1>1. /\ handler[h] \in HandlerType /\ handler[h].req \in Requests
      /\ handler[h].results \in Seq(ResultType)
  BY DEF FinishRequest, ServerInv, TypeOK, HandlerInv, KnowsRequest, HandlerType
<1>2. DOMAIN handler[h].results = 1..Len(handler[h].results) /\ Len(handler[h].results) \in Nat
  BY <1>1, LenProperties
<1>3. ASSUME NEW i \in DOMAIN handler[h].results
      PROVE  final[i] \in ResultType
  <2> DEFINE res == handler[h].results[i]
             same == {r \in rows : r.op.id = res.op.id}
  <2>1. res \in ResultType
    BY <1>1, <1>2
  <2>2. same # {} => MaxSeqOf(same) \in 0..MaxSeq
    <3>1. same \in SUBSET RowType
      BY DEF ServerInv, TypeOK
    <3> HIDE DEF same
    <3> QED
      BY <3>1, GreatestRow, BoundsAssumption
  <2>3. same # {} => Result(res.op, "ACCEPTED", MaxSeqOf(same)) \in ResultType
    BY <2>1, <2>2 DEF Result, ResultType, Verdicts
  <2>4. final[i] = IF /\ handler[h].req.kind = "snapshot"
                      /\ res.verdict = "DUPLICATE_OPERATION" /\ same # {}
                   THEN Result(res.op, "ACCEPTED", MaxSeqOf(same)) ELSE res
    BY DEF FinalResults
  <2> QED
    BY <2>1, <2>3, <2>4
<1>4. final \in [1..Len(handler[h].results) -> ResultType]
  BY <1>2, <1>3 DEF FinalResults
<1>5. final \in Seq(ResultType)
  BY <1>2, <1>4, SeqDef
<1>6. /\ handler' = [handler EXCEPT ![h] = new]
      /\ UNCHANGED <<rows, state, sweep, wipe, now, ledger>>
      /\ cache' \in {cache, (cache \ CachedFor(h, handler[h].req)) \union {entry}}
  BY DEF FinishRequest
<1> HIDE DEF final
<1>7. new \in HandlerType /\ new.phase = "done" /\ new.req \in Requests
        /\ new.view = {} /\ new.fresh = {}
  BY <1>1, <1>5, IdleHandlerHasType DEF IdleHandler, HandlerType, Phases
<1>8. entry \in CacheType
  BY <1>1, <1>5, HomeAssumption DEF CacheType
<1>9. cache' \in SUBSET CacheType
  BY <1>6, <1>8 DEF ServerInv, TypeOK, CacheType
<1> HIDE DEF new, entry
<1> QED
  BY <1>6, <1>7, <1>9, EmptyHandlerStep

\* The transaction starts from the rows and the counter that are published.
LEMMA BeginUploadStep ==
  ASSUME ServerInv, NEW h \in Handlers, BeginUpload(h)
  PROVE  ServerInv'
<1> DEFINE new == [handler[h] EXCEPT !.phase = "open", !.view = rows, !.at = now,
                                     !.base = state.lastSeq]
<1>1. handler[h] \in HandlerType /\ handler[h].req \in Requests /\ handler[h].phase \in {"locked", "checked"}
  BY DEF BeginUpload, MayUpload, ServerInv, TypeOK, HandlerInv, KnowsRequest
<1>2. /\ state.lastSeq \in 0..MaxSeq /\ rows \in SUBSET RowType
      /\ now \in 1..MaxTime /\ now \in 0..MaxTime
  BY BoundsAssumption DEF ServerInv, TypeOK
<1>3. /\ handler' = [handler EXCEPT ![h] = new]
      /\ UNCHANGED <<rows, state, cache, sweep, wipe, now, ledger>>
  BY <1>1 DEF BeginUpload, ServerInv, TypeOK
<1>4. new \in HandlerType
  BY <1>1, <1>2 DEF HandlerType, Phases
<1>5. handler'[h] = new
  BY <1>3 DEF ServerInv, TypeOK
<1>6. /\ new.phase = "open" /\ new.req = handler[h].req /\ new.view = rows
      /\ new.at = now /\ new.base = state.lastSeq /\ new.fresh = {} /\ new.results = <<>>
  BY <1>1 DEF ServerInv, HandlerInv, LockedIsFresh, HandlerType
<1> HIDE DEF new
<1>7. ReadsSnapshot(h)' /\ KnowsRequest(h)' /\ LockedIsFresh(h)' /\ NumbersRows(h)'
  <2>1. Cardinality({}) = 0 /\ IsFiniteSet({})
    BY FS_EmptySet
  <2>2. Len(handler[h].req.batch) \in Nat
    BY <1>1, RequestsAssumption, LenProperties
  <2>3. ReadsSnapshot(h)' /\ KnowsRequest(h)' /\ LockedIsFresh(h)'
    BY <1>1, <1>2, <1>5, <1>6, <2>1 DEF ServerInv, ReadsSnapshot, KnowsRequest, LockedIsFresh
  <2>4. state.lastSeq + Len(handler[h].req.batch) <= MaxSeq /\ state' = state
    BY DEF BeginUpload
  <2>5. NumbersRows(h)'
    BY <1>2, <1>5, <1>6, <2>1, <2>2, <2>4 DEF NumbersRows, AreUnique
  <2> QED
    BY <2>3, <2>5
<1>8. cache' \in SUBSET CacheType
  BY <1>3 DEF ServerInv, TypeOK, CacheType
<1> QED
  BY <1>3, <1>4, <1>7, <1>8, OneHandlerStep DEF HandlerInv

\* The next operation of the batch adds a result, and a row with the next number if it is
\* accepted.
LEMMA ProcessOperationStep ==
  ASSUME ServerInv, NEW h \in Handlers, ProcessOperation(h)
  PROVE  ServerInv'
<1> DEFINE s == handler[h]
           op == s.req.batch[Len(s.results) + 1]
           verdict == Verdict(Visible(h), op, s.ts)
           count == Cardinality(s.fresh)
           seq == s.base + count + 1
           row == Row(op, s.ts, seq, s.at)
           taken == [s EXCEPT !.results = Append(@, Result(op, verdict, seq)),
                              !.fresh = @ \union {row}]
           refused == [s EXCEPT !.results = Append(@, Result(op, verdict, 0))]
<1>1. s \in HandlerType /\ s.req \in Requests /\ s.phase = "open"
  BY DEF ProcessOperation, ServerInv, TypeOK, HandlerInv, KnowsRequest
<1>2. NumbersRows(h) /\ ReadsSnapshot(h)
  BY DEF ServerInv, HandlerInv
<1>3. /\ s.results \in Seq(ResultType) /\ s.req.batch \in Seq(Ops)
      /\ Len(s.results) \in Nat /\ Len(s.req.batch) \in Nat /\ count \in Nat
      /\ s.base \in Nat /\ s.ts \in 0..MaxTime /\ s.at \in 1..MaxTime
      /\ s.fresh \in SUBSET RowType /\ IsFiniteSet(s.fresh) /\ IsFiniteSet(s.view)
  BY <1>1, <1>2, RequestsAssumption, LenProperties, FS_CardinalityType, BoundsAssumption
     DEF HandlerType, ReadsSnapshot
<1>4. Len(s.results) < Len(s.req.batch)
  BY DEF ProcessOperation
<1>5. op \in Ops
  BY <1>3, <1>4, ElementOfSeq
<1>6. seq \in 1..MaxSeq /\ seq \in 0..MaxSeq /\ seq = s.base + count + 1
  <2>1. s.base + Len(s.req.batch) <= MaxSeq /\ count <= Len(s.results)
    BY <1>1, <1>2 DEF NumbersRows
  <2>2. /\ s.base \in Nat /\ count \in Nat /\ MaxSeq \in Nat
        /\ Len(s.results) \in Nat /\ Len(s.req.batch) \in Nat
    BY <1>3, BoundsAssumption
  <2> HIDE DEF s, count
  <2> QED
    BY <1>4, <2>1, <2>2
<1>7. row \in RowType /\ row.seq = seq /\ row.op = op
  <2> HIDE DEF s, op, seq
  <2> QED
    BY <1>3, <1>5, <1>6, RowHasType
<1>8. /\ Result(op, verdict, seq) \in ResultType
      /\ Result(op, verdict, 0) \in ResultType
  BY <1>5, <1>6, VerdictHasType, BoundsAssumption DEF Result, ResultType
<1>9. \A res \in ResultType : /\ Append(s.results, res) \in Seq(ResultType)
                              /\ Len(Append(s.results, res)) = Len(s.results) + 1
  BY <1>3, AppendProperties
<1>10. \/ /\ verdict = "ACCEPTED"
          /\ handler' = [handler EXCEPT ![h] = taken]
       \/ handler' = [handler EXCEPT ![h] = refused]
  BY <1>1 DEF ProcessOperation, ServerInv, TypeOK
<1>11. UNCHANGED <<rows, state, cache, sweep, wipe, now, ledger>> /\ cache' \in SUBSET CacheType
  BY DEF ProcessOperation, ServerInv, TypeOK, CacheType
<1>12. CASE handler' = [handler EXCEPT ![h] = refused]
  <2>1. refused \in HandlerType
    BY <1>1, <1>8, <1>9 DEF HandlerType
  <2>2. handler'[h] = refused
    BY <1>12 DEF ServerInv, TypeOK
  <2>3. /\ refused.phase = "open" /\ refused.req = s.req /\ refused.view = s.view
        /\ refused.fresh = s.fresh /\ refused.base = s.base /\ refused.at = s.at
        /\ refused.stale = s.stale /\ Len(refused.results) = Len(s.results) + 1
    BY <1>1, <1>8, <1>9 DEF HandlerType
  <2> HIDE DEF refused
  <2>4. NumbersRows(h)'
    BY <1>1, <1>2, <1>3, <1>4, <1>11, <2>2, <2>3 DEF NumbersRows
  <2>5. KnowsRequest(h)' /\ LockedIsFresh(h)' /\ ReadsSnapshot(h)'
    BY <1>1, <1>3, <2>2, <2>3 DEF KnowsRequest, LockedIsFresh, ReadsSnapshot
  <2> QED
    BY <1>11, <1>12, <2>1, <2>4, <2>5, OneHandlerStep DEF HandlerInv
<1>13. CASE verdict = "ACCEPTED" /\ handler' = [handler EXCEPT ![h] = taken]
  <2>1. \A r \in s.fresh : r.op.id # op.id
    BY <1>13, VerdictHasType DEF Visible
  <2>2. \A r \in s.fresh : s.base < r.seq /\ r.seq <= s.base + count
    BY <1>1, <1>2 DEF NumbersRows
  <2>3. \A r \in s.fresh : r.seq \in Nat
    BY <1>3, BoundsAssumption DEF RowType
  <2>4. row \notin s.fresh
    BY <1>3, <1>7, <2>2, <2>3
  <2>5. IsFiniteSet(s.fresh \union {row}) /\ Cardinality(s.fresh \union {row}) = count + 1
    BY <1>3, <2>4, FS_AddElement
  <2>6. taken \in HandlerType
    BY <1>1, <1>3, <1>7, <1>8, <1>9 DEF HandlerType
  <2>7. handler'[h] = taken
    BY <1>13 DEF ServerInv, TypeOK
  <2>8. /\ taken.phase = "open" /\ taken.req = s.req /\ taken.view = s.view
        /\ taken.fresh = s.fresh \union {row} /\ taken.base = s.base /\ taken.at = s.at
        /\ taken.stale = s.stale /\ Len(taken.results) = Len(s.results) + 1
    BY <1>1, <1>8, <1>9 DEF HandlerType
  <2>9. \A r \in s.fresh \union {row} : s.base < r.seq /\ r.seq <= s.base + (count + 1)
    BY <1>3, <1>7, <2>2, <2>3
  <2>10. AreUnique(s.fresh \union {row})
    <3>1. AreUnique(s.fresh)
      BY <1>1, <1>2 DEF NumbersRows
    <3> HIDE DEF s, row, op, seq, count
    <3>2. \A r \in s.fresh : r.seq # row.seq /\ r.op.id # row.op.id
      BY <1>3, <1>6, <1>7, <2>1, <2>2, <2>3
    <3> QED
      BY <3>1, <3>2 DEF AreUnique
  <2> HIDE DEF taken, row, op, verdict
  <2>11. NumbersRows(h)'
    <3>1. /\ s.base + Len(s.req.batch) <= MaxSeq /\ count <= Len(s.results)
          /\ s.stale \/ s.base = state.lastSeq
      BY <1>1, <1>2 DEF NumbersRows
    <3>2. /\ handler'[h].fresh = s.fresh \union {row} /\ handler'[h].base = s.base
          /\ handler'[h].req = s.req /\ handler'[h].stale = s.stale
          /\ Len(handler'[h].results) = Len(s.results) + 1 /\ state' = state
      BY <1>11, <2>7, <2>8
    <3>3. /\ s.base \in Nat /\ count \in Nat
          /\ Len(s.results) \in Nat /\ Len(s.req.batch) \in Nat
      BY <1>3
    <3> HIDE DEF s, count
    <3>4. /\ Len(s.results) + 1 <= Len(s.req.batch)
          /\ Cardinality(s.fresh \union {row}) <= Len(s.results) + 1
      BY <1>4, <2>5, <3>1, <3>3
    <3> QED
      BY <2>5, <2>9, <2>10, <3>1, <3>2, <3>4 DEF NumbersRows
  <2>12. KnowsRequest(h)' /\ LockedIsFresh(h)' /\ ReadsSnapshot(h)'
    BY <1>1, <1>3, <2>5, <2>7, <2>8 DEF KnowsRequest, LockedIsFresh, ReadsSnapshot
  <2> QED
    BY <1>11, <1>13, <2>6, <2>11, <2>12, OneHandlerStep DEF HandlerInv
<1> QED
  BY <1>10, <1>12, <1>13

-----------------------------------------------------------------------------
(* Steps that change the tables beside the open transactions *)

StateType == [lastSeq : 0..MaxSeq, fullSeq : 0..MaxSeq, fullClk : Clock,
              snapSeq : 0..MaxSeq, snapAt : 0..MaxTime]

\* A handler keeps its part of the invariant while others write the user_sync_state row:
\* either its transaction becomes stale, or the counter it has read still stands.
LEMMA BystanderStays ==
  ASSUME ServerInv, NEW g \in Handlers,
         \/ handler'[g] = MarkStale(handler)[g]
         \/ handler'[g] = handler[g] /\ state'.lastSeq = state.lastSeq
  PROVE  handler'[g] \in HandlerType /\ HandlerInv(g)'
<1>1. handler[g] \in HandlerType /\ HandlerInv(g)
  BY DEF ServerInv, TypeOK
<1>2. CASE handler'[g] = handler[g] /\ state'.lastSeq = state.lastSeq
  BY <1>1, <1>2 DEF HandlerInv, KnowsRequest, LockedIsFresh, NumbersRows, ReadsSnapshot
<1>3. CASE handler'[g] = MarkStale(handler)[g] /\ handler[g].phase = "open"
  <2>1. handler'[g] = [handler[g] EXCEPT !.stale = TRUE]
    BY <1>3 DEF MarkStale
  <2> QED
    BY <1>1, <1>3, <2>1
       DEF HandlerInv, KnowsRequest, LockedIsFresh, NumbersRows, ReadsSnapshot, HandlerType
<1>4. CASE handler'[g] = MarkStale(handler)[g] /\ handler[g].phase # "open"
  <2>1. handler'[g] = handler[g]
    BY <1>4 DEF MarkStale
  <2> QED
    BY <1>1, <1>4, <2>1 DEF HandlerInv, KnowsRequest, LockedIsFresh, NumbersRows, ReadsSnapshot
<1> QED
  BY <1>2, <1>3, <1>4

\* A step that only deletes rows, and that either leaves the counter alone or makes every
\* open transaction stale, keeps the invariant.
LEMMA TablesStep ==
  ASSUME ServerInv,
         \/ handler' = MarkStale(handler)
         \/ handler' = handler /\ state'.lastSeq = state.lastSeq,
         rows' \subseteq rows, state' \in StateType, cache' \subseteq cache,
         sweep' \in [on : BOOLEAN, seq : 0..MaxSeq, cutoff : 0..MaxTime],
         wipe' \in [on : BOOLEAN, doomed : SUBSET RowType, count : 0..MaxWipes],
         now' \in 1..MaxTime, ledger' \subseteq ledger \union rows
  PROVE  ServerInv'
<1>1. ASSUME NEW g \in Handlers
      PROVE  handler'[g] \in HandlerType /\ HandlerInv(g)'
  BY BystanderStays
<1>2. handler' \in [Handlers -> HandlerType]
  <2>1. handler' = [g \in Handlers |-> handler'[g]]
    BY DEF ServerInv, TypeOK, MarkStale
  <2> QED
    BY <1>1, <2>1
<1>3. TypeOK'
  BY <1>2 DEF ServerInv, TypeOK, StateType
<1>4. IsFiniteSet(rows') /\ RowsAreUnique'
  BY FS_Subset DEF ServerInv, RowsAreUnique, AreUnique
<1> QED
  BY <1>1, <1>3, <1>4 DEF ServerInv

\* Quota cleanup deletes the oldest rows and may drop the cached snapshot.
LEMMA FreeStorageStep ==
  ASSUME ServerInv, NEW h \in Handlers, FreeStorage(h)
  PROVE  ServerInv'
<1>1. rows' \subseteq rows /\ handler' = MarkStale(handler)
      /\ UNCHANGED <<cache, sweep, wipe, now, ledger>>
  BY DEF FreeStorage
<1>2. state' \in {state, [state EXCEPT !.snapSeq = 0, !.snapAt = 0]}
  BY DEF FreeStorage
<1>3. state' \in StateType
  <2>1. state \in StateType
    BY DEF ServerInv, TypeOK, StateType
  <2>2. 0 \in 0..MaxSeq /\ 0 \in 0..MaxTime
    BY BoundsAssumption
  <2> QED
    BY <1>2, <2>1, <2>2 DEF StateType
<1> QED
  BY <1>1, <1>3, TablesStep DEF ServerInv, TypeOK

\* The counter starts again from a row that is all zero.
LEMMA NoStateHasType == NoState \in StateType
  BY BoundsAssumption DEF NoState, StateType, ZeroClock, Clock

\* Expiry, retention, the account wipe, the clock and stuttering.
LEMMA BackgroundStep ==
  ASSUME ServerInv,
         \/ ExpireCache \/ SweepDelete \/ SweepEnd \/ WipeOps \/ WipeAbort \/ Tick
         \/ \E cutoff \in 2..MaxTime : SweepStart(cutoff)
         \/ \E inst \in Instances : WipeCommit(inst)
         \/ UNCHANGED vars
  PROVE  ServerInv'
<1>1. state \in StateType
  BY DEF ServerInv, TypeOK, StateType
<1>2. CASE ExpireCache
  BY <1>1, <1>2, TablesStep DEF ExpireCache, ServerInv, TypeOK
<1>3. CASE SweepDelete
  BY <1>1, <1>3, TablesStep DEF SweepDelete, ServerInv, TypeOK
<1>4. CASE SweepEnd
  <2>1. NoSweep \in [on : BOOLEAN, seq : 0..MaxSeq, cutoff : 0..MaxTime]
    BY BoundsAssumption DEF NoSweep
  <2> QED
    BY <1>1, <1>4, <2>1, TablesStep DEF SweepEnd, ServerInv, TypeOK
<1>5. CASE WipeOps
  <2>1. wipe.count + 1 \in 0..MaxWipes
    BY <1>5, BoundsAssumption DEF WipeOps, ServerInv, TypeOK
  <2>2. wipe' \in [on : BOOLEAN, doomed : SUBSET RowType, count : 0..MaxWipes]
    BY <1>5, <2>1 DEF WipeOps, ServerInv, TypeOK
  <2> QED
    BY <1>1, <1>5, <2>2, TablesStep DEF WipeOps, ServerInv, TypeOK
<1>6. CASE WipeAbort
  <2>1. wipe' \in [on : BOOLEAN, doomed : SUBSET RowType, count : 0..MaxWipes]
    BY <1>6 DEF WipeAbort, ServerInv, TypeOK
  <2> QED
    BY <1>1, <1>6, <2>1, TablesStep DEF WipeAbort, ServerInv, TypeOK
<1>7. CASE Tick
  <2>1. now' \in 1..MaxTime
    BY <1>7, BoundsAssumption DEF Tick, ServerInv, TypeOK
  <2> QED
    BY <1>1, <1>7, <2>1, TablesStep DEF Tick, ServerInv, TypeOK
<1>8. ASSUME NEW cutoff \in 2..MaxTime, SweepStart(cutoff)
      PROVE  ServerInv'
  <2>1. cutoff \in 0..MaxTime /\ state.snapSeq \in 0..MaxSeq
    BY BoundsAssumption DEF ServerInv, TypeOK
  <2>2. sweep' \in [on : BOOLEAN, seq : 0..MaxSeq, cutoff : 0..MaxTime]
    BY <1>8, <2>1 DEF SweepStart
  <2> QED
    BY <1>1, <1>8, <2>2, TablesStep DEF SweepStart, ServerInv, TypeOK
<1>9. ASSUME NEW inst \in Instances, WipeCommit(inst)
      PROVE  ServerInv'
  <2>1. wipe' \in [on : BOOLEAN, doomed : SUBSET RowType, count : 0..MaxWipes]
    BY <1>9 DEF WipeCommit, ServerInv, TypeOK
  <2>2. /\ rows' \subseteq rows /\ state' \in StateType /\ cache' \subseteq cache
        /\ ledger' \subseteq ledger \union rows /\ handler' = MarkStale(handler)
        /\ UNCHANGED <<sweep, now>>
    BY <1>9, NoStateHasType DEF WipeCommit
  <2> QED
    BY <2>1, <2>2, TablesStep DEF ServerInv, TypeOK
<1>10. CASE UNCHANGED vars
  BY <1>1, <1>10, TablesStep DEF vars, ServerInv, TypeOK
<1> QED
  BY <1>2, <1>3, <1>4, <1>5, <1>6, <1>7, <1>8, <1>9, <1>10

-----------------------------------------------------------------------------
(* Steps of one handler that change the tables *)

\* A handler writes the tables: its own part of the invariant must hold afterwards, and
\* the new rows and counter must have their types and stay unique.
LEMMA WriterStep ==
  ASSUME ServerInv, NEW h \in Handlers, NEW new \in HandlerType,
         HandlerInv(h)',
         \/ handler' = [MarkStale(handler) EXCEPT ![h] = new]
         \/ handler' = [handler EXCEPT ![h] = new] /\ state'.lastSeq = state.lastSeq,
         rows' \in SUBSET RowType, IsFiniteSet(rows'), RowsAreUnique',
         state' \in StateType, cache' \subseteq cache, ledger' \in SUBSET RowType,
         UNCHANGED <<sweep, wipe, now>>
  PROVE  ServerInv'
<1>1. DOMAIN MarkStale(handler) = Handlers /\ DOMAIN handler = Handlers
  BY DEF MarkStale, ServerInv, TypeOK
<1>2. handler'[h] = new
  BY <1>1
<1>3. ASSUME NEW g \in Handlers
      PROVE  handler'[g] \in HandlerType /\ HandlerInv(g)'
  <2>1. CASE g = h
    BY <1>2, <2>1
  <2>2. CASE g # h
    <3>1. \/ handler'[g] = MarkStale(handler)[g]
          \/ handler'[g] = handler[g] /\ state'.lastSeq = state.lastSeq
      BY <1>1, <2>2
    <3> QED
      BY <3>1, BystanderStays
  <2> QED
    BY <2>1, <2>2
<1>4. handler' \in [Handlers -> HandlerType]
  <2>1. handler' = [g \in Handlers |-> handler'[g]]
    BY <1>1
  <2> QED
    BY <1>3, <2>1
<1>5. TypeOK'
  BY <1>4 DEF ServerInv, TypeOK, StateType
<1> QED
  BY <1>3, <1>5 DEF ServerInv

\* The cached snapshot is replaced or cleared beside the open transactions.
LEMMA CacheSnapshotStep ==
  ASSUME ServerInv, NEW h \in Handlers, CacheSnapshot(h)
  PROVE  ServerInv'
<1> DEFINE new == [handler[h] EXCEPT !.phase = "snapshotted"]
           seq == handler[h].results[1].seq
<1>1. /\ handler[h] \in HandlerType /\ handler[h].phase = "committed" /\ HandlerInv(h)
      /\ handler[h].req \in Requests /\ state \in StateType
  BY DEF CacheSnapshot, ServerInv, TypeOK, HandlerInv, KnowsRequest, StateType
<1>2. MarkStale(handler)[h] = handler[h] /\ DOMAIN MarkStale(handler) = Handlers
        /\ DOMAIN handler = Handlers
  BY <1>1 DEF MarkStale, ServerInv, TypeOK
<1>3. new \in HandlerType /\ new.phase = "snapshotted"
        /\ new.req = handler[h].req /\ new.results = handler[h].results
        /\ new.view = handler[h].view /\ new.fresh = handler[h].fresh
  BY <1>1 DEF HandlerType, Phases
<1>4. seq \in 0..MaxSeq
  <2>1. Len(handler[h].results) = 1 /\ handler[h].results \in Seq(ResultType)
    BY <1>1, RequestsAssumption
       DEF CacheSnapshot, MustCacheSnapshot, HandlerInv, KnowsRequest, HandlerType
  <2>2. handler[h].results[1] \in ResultType
    BY <2>1, ElementOfSeq
  <2> QED
    BY <2>2 DEF ResultType
<1>5. now \in 0..MaxTime /\ 0 \in 0..MaxTime /\ 0 \in 0..MaxSeq
  BY BoundsAssumption DEF ServerInv, TypeOK
<1>6. /\ state' \in {state, [state EXCEPT !.snapSeq = seq, !.snapAt = now],
                     [state EXCEPT !.snapSeq = 0, !.snapAt = 0]}
      /\ handler' \in {[handler EXCEPT ![h].phase = "snapshotted"],
                       [MarkStale(handler) EXCEPT ![h].phase = "snapshotted"]}
      /\ UNCHANGED <<rows, cache, sweep, wipe, now, ledger>>
  BY DEF CacheSnapshot
<1>7. /\ [handler EXCEPT ![h].phase = "snapshotted"] = [handler EXCEPT ![h] = new]
      /\ [MarkStale(handler) EXCEPT ![h].phase = "snapshotted"]
           = [MarkStale(handler) EXCEPT ![h] = new]
  BY <1>2
<1> HIDE DEF seq
<1>8. state' \in StateType /\ state'.lastSeq = state.lastSeq
  BY <1>1, <1>4, <1>5, <1>6 DEF StateType
<1> HIDE DEF new
<1>9. handler'[h] = new
  BY <1>2, <1>6, <1>7
<1>10. HandlerInv(h)'
  BY <1>1, <1>3, <1>9 DEF HandlerInv, KnowsRequest, LockedIsFresh, NumbersRows, ReadsSnapshot
<1>11. /\ rows' \in SUBSET RowType /\ IsFiniteSet(rows') /\ RowsAreUnique'
       /\ ledger' \in SUBSET RowType /\ cache' \subseteq cache
  BY <1>6 DEF ServerInv, TypeOK, RowsAreUnique, AreUnique
<1> QED
  BY <1>3, <1>6, <1>7, <1>8, <1>10, <1>11, WriterStep

\* What the transaction of an open handler will publish: finitely many rows, the numbers
\* of which follow the counter if the transaction may still commit.
LEMMA OpenHandlerFacts ==
  ASSUME ServerInv, NEW h \in Handlers, handler[h].phase = "open"
  PROVE  /\ handler[h].req \in Requests
         /\ handler[h].fresh \in SUBSET RowType /\ handler[h].view \in SUBSET RowType
         /\ IsFiniteSet(handler[h].fresh) /\ IsFiniteSet(handler[h].view)
         /\ Cardinality(handler[h].fresh) \in Nat
         /\ AreUnique(handler[h].fresh)
         /\ ~handler[h].stale =>
              /\ state.lastSeq + Cardinality(handler[h].fresh) \in 0..MaxSeq
              /\ \A r \in handler[h].fresh :
                   /\ state.lastSeq < r.seq
                   /\ r.seq <= state.lastSeq + Cardinality(handler[h].fresh)
<1> DEFINE s == handler[h]
           count == Cardinality(s.fresh)
<1>1. s \in HandlerType /\ NumbersRows(h) /\ ReadsSnapshot(h) /\ s.req \in Requests
  BY DEF ServerInv, TypeOK, HandlerInv, KnowsRequest
<1>2. /\ s.fresh \in SUBSET RowType /\ s.view \in SUBSET RowType
      /\ s.results \in Seq(ResultType)
      /\ IsFiniteSet(s.fresh) /\ IsFiniteSet(s.view) /\ AreUnique(s.fresh)
  BY <1>1 DEF HandlerType, ReadsSnapshot, NumbersRows
<1>3. count \in Nat /\ Len(s.results) \in Nat /\ Len(s.req.batch) \in Nat /\ state.lastSeq \in Nat
  BY <1>1, <1>2, FS_CardinalityType, LenProperties, RequestsAssumption, BoundsAssumption
     DEF ServerInv, TypeOK
<1>4. ASSUME ~s.stale
      PROVE  /\ state.lastSeq + count \in 0..MaxSeq
             /\ \A r \in s.fresh : state.lastSeq < r.seq /\ r.seq <= state.lastSeq + count
  <2>1. /\ s.base + Len(s.req.batch) <= MaxSeq /\ Len(s.results) <= Len(s.req.batch)
        /\ count <= Len(s.results) /\ s.base = state.lastSeq
        /\ \A r \in s.fresh : s.base < r.seq /\ r.seq <= s.base + count
    BY <1>1, <1>4 DEF NumbersRows
  <2> HIDE DEF s, count
  <2> QED
    BY <1>3, <2>1, BoundsAssumption
<1> QED
  BY <1>1, <1>2, <1>3, <1>4

\* The aggregate over the visible rows is a clock, and so is what is merged into it.
LEMMA MergedFullStateClockHasType ==
  ASSUME ServerInv, NEW h \in Handlers, handler[h].phase = "open", NEW last \in RowType
  PROVE  MergedFullStateClock(h, last) \in Clock
<1> DEFINE before == {v \in Visible(h) : v.seq < last.seq}
           clocks == {r.clk : r \in before}
<1>1. before \in SUBSET RowType /\ IsFiniteSet(before)
  <2>1. Visible(h) \in SUBSET RowType /\ IsFiniteSet(Visible(h))
    BY OpenHandlerFacts, FS_Union, FS_EmptySet DEF Visible
  <2> HIDE DEF before
  <2>2. before \subseteq Visible(h)
    BY DEF before
  <2> QED
    BY <2>1, <2>2, FS_Subset
<1>2. clocks \in SUBSET Clock
  BY <1>1 DEF RowType
<1>3. IsFiniteSet(clocks)
  <2> DEFINE clk == [r \in before |-> r.clk]
  <2>1. clk \in Surjection(before, clocks)
    BY DEF Surjection
  <2> QED
    BY <1>1, <2>1, FS_Surjection
<1>4. MaxOverClocks(clocks) \in Clock
  BY <1>2, <1>3, AggregateDominates
<1>5. last.op.clock \in Clock
  BY OpsAssumption DEF RowType
<1> QED
  BY <1>4, <1>5, MergeType DEF MergedFullStateClock

\* A transaction that commits advances the counter by the number of its rows; one that
\* writes nothing leaves the row alone.
LEMMA StateAfterHasType ==
  ASSUME ServerInv, NEW h \in Handlers, handler[h].phase = "open", CanCommit(h)
  PROVE  /\ StateAfter(h) \in StateType
         /\ StateAfter(h).lastSeq = state.lastSeq + Cardinality(handler[h].fresh)
         /\ ~Writes(h) => StateAfter(h).lastSeq = state.lastSeq
<1> DEFINE fresh == handler[h].fresh
           kept == IF handler[h].req.clean THEN [NoState EXCEPT !.lastSeq = state.lastSeq]
                                           ELSE state
           moved == [kept EXCEPT !.lastSeq = @ + Cardinality(fresh)]
           last == CHOOSE r \in FullRows(fresh) : r.seq = MaxSeqOf(FullRows(fresh))
<1>1. state \in StateType /\ NoState \in StateType /\ state.lastSeq \in Nat
  BY NoStateHasType, BoundsAssumption DEF ServerInv, TypeOK, StateType
<1>2. fresh \in SUBSET RowType /\ Cardinality(fresh) \in Nat
  BY OpenHandlerFacts
<1>3. kept \in StateType /\ kept.lastSeq = state.lastSeq
  BY <1>1 DEF StateType
<1>4. ~Writes(h) => Cardinality(fresh) = 0
  BY FS_EmptySet DEF Writes
<1>5. state.lastSeq + Cardinality(fresh) \in 0..MaxSeq
  <2>1. CASE Writes(h)
    BY <2>1, OpenHandlerFacts DEF CanCommit
  <2>2. CASE ~Writes(h)
    BY <1>1, <1>4, <2>2 DEF StateType
  <2> QED
    BY <2>1, <2>2
<1>6. moved \in StateType /\ moved.lastSeq = state.lastSeq + Cardinality(fresh)
  <2> HIDE DEF kept
  <2> QED
    BY <1>3, <1>5 DEF StateType
<1>7. StateAfter(h) = IF FullRows(fresh) = {} THEN moved
                      ELSE [moved EXCEPT !.fullSeq = last.seq,
                                         !.fullClk = MergedFullStateClock(h, last)]
  BY DEF StateAfter
<1>8. ASSUME FullRows(fresh) # {}
      PROVE  last \in RowType /\ last.seq \in 0..MaxSeq
  <2>1. FullRows(fresh) \in SUBSET RowType
    BY <1>2 DEF FullRows
  <2>2. \E r \in FullRows(fresh) : r.seq = MaxSeqOf(FullRows(fresh))
    BY <1>8, <2>1, GreatestRow
  <2>3. last \in FullRows(fresh)
    BY <2>2
  <2>4. last \in RowType
    BY <2>1, <2>3
  <2>5. last.seq \in 1..MaxSeq
    BY <2>4 DEF RowType
  <2> QED
    BY <2>4, <2>5, BoundsAssumption
<1>9. FullRows(fresh) # {} => MergedFullStateClock(h, last) \in Clock
  BY <1>8, MergedFullStateClockHasType
<1> HIDE DEF moved, last, fresh
<1>10. StateAfter(h) \in StateType /\ StateAfter(h).lastSeq = moved.lastSeq
  BY <1>6, <1>7, <1>8, <1>9 DEF StateType
<1> QED
  BY <1>1, <1>4, <1>6, <1>10 DEF fresh

\* The rows a transaction publishes are unique together with those it leaves.
LEMMA CommittedRowsAreUnique ==
  ASSUME ServerInv, NEW h \in Handlers, handler[h].phase = "open", CanCommit(h)
  PROVE  /\ handler[h].fresh \union KeptRows(h) \in SUBSET RowType
         /\ IsFiniteSet(handler[h].fresh \union KeptRows(h))
         /\ AreUnique(handler[h].fresh \union KeptRows(h))
<1>1. /\ handler[h].fresh \in SUBSET RowType /\ IsFiniteSet(handler[h].fresh)
      /\ AreUnique(handler[h].fresh)
  BY OpenHandlerFacts
<1>2. KeptRows(h) \subseteq rows /\ rows \in SUBSET RowType /\ IsFiniteSet(rows)
  BY DEF KeptRows, ServerInv, TypeOK
<1>3. IsFiniteSet(KeptRows(h))
  BY <1>2, FS_Subset
<1>4. AreUnique(KeptRows(h))
  BY <1>2 DEF ServerInv, RowsAreUnique, AreUnique
<1>5. \A new \in handler[h].fresh, old \in KeptRows(h) :
        new.seq # old.seq /\ new.op.id # old.op.id
  BY DEF CanCommit, Writes
<1>6. AreUnique(handler[h].fresh \union KeptRows(h))
  BY <1>1, <1>4, <1>5 DEF AreUnique
<1> QED
  BY <1>1, <1>2, <1>3, <1>6, FS_Union

\* A commit publishes the rows of the transaction.
LEMMA CommitUploadStep ==
  ASSUME ServerInv, NEW h \in Handlers, CommitUpload(h)
  PROVE  ServerInv'
<1> DEFINE new == [IdleHandler EXCEPT !.phase = "committed", !.req = handler[h].req,
                                      !.results = handler[h].results]
<1>1. handler[h].phase = "open" /\ CanCommit(h) /\ Processed(h)
  BY DEF CommitUpload
<1>2. handler[h] \in HandlerType /\ handler[h].req \in Requests
  BY <1>1, OpenHandlerFacts DEF ServerInv, TypeOK
<1>3. new \in HandlerType /\ new.phase = "committed" /\ new.req = handler[h].req
        /\ new.results = handler[h].results /\ new.view = {} /\ new.fresh = {}
  BY <1>2, IdleHandlerHasType DEF IdleHandler, HandlerType, Phases
<1>4. /\ handler' = [(IF Writes(h) THEN MarkStale(handler) ELSE handler) EXCEPT ![h] = new]
      /\ rows' = handler[h].fresh \union KeptRows(h) /\ state' = StateAfter(h)
      /\ cache' = CacheAfter(h)
      /\ ledger' = handler[h].fresh \union (IF handler[h].req.clean THEN {} ELSE ledger)
      /\ UNCHANGED <<sweep, wipe, now>>
  BY DEF CommitUpload
<1> HIDE DEF new
<1>5. handler'[h] = new
  BY <1>4 DEF MarkStale, ServerInv, TypeOK
<1>6. HandlerInv(h)'
  BY <1>1, <1>2, <1>3, <1>5, FS_EmptySet
     DEF HandlerInv, KnowsRequest, LockedIsFresh, NumbersRows, ReadsSnapshot, Processed
<1>7. state' \in StateType /\ (~Writes(h) => state'.lastSeq = state.lastSeq)
  BY <1>1, <1>4, StateAfterHasType
<1>8. rows' \in SUBSET RowType /\ IsFiniteSet(rows') /\ RowsAreUnique'
  BY <1>1, <1>4, CommittedRowsAreUnique DEF RowsAreUnique, AreUnique
<1>9. cache' \subseteq cache
  BY <1>4 DEF CacheAfter
<1>10. ledger' \in SUBSET RowType
  BY <1>1, <1>4, OpenHandlerFacts DEF ServerInv, TypeOK
<1>11. \/ handler' = [MarkStale(handler) EXCEPT ![h] = new]
       \/ handler' = [handler EXCEPT ![h] = new] /\ state'.lastSeq = state.lastSeq
  BY <1>4, <1>7
<1> QED
  BY <1>3, <1>4, <1>6, <1>7, <1>8, <1>9, <1>10, <1>11, WriterStep

-----------------------------------------------------------------------------
(* The inductive invariant *)

\* A restart leaves the handlers of one process idle and the others as they were.
LEMMA RestartStep ==
  ASSUME ServerInv, NEW inst \in Instances, Restart(inst)
  PROVE  ServerInv'
<1>1. UNCHANGED <<rows, state, sweep, wipe, now, ledger>> /\ cache' \subseteq cache
  BY DEF Restart
<1>2. ASSUME NEW g \in Handlers
      PROVE  handler'[g] \in HandlerType /\ HandlerInv(g)'
  <2>1. CASE Home[g] = inst
    <3>1. handler'[g] = IdleHandler
      BY <2>1 DEF Restart
    <3>2. /\ IdleHandler.phase = "idle" /\ IdleHandler.view = {} /\ IdleHandler.fresh = {}
      BY DEF IdleHandler
    <3> QED
      BY <3>1, <3>2, IdleHandlerHasType, FS_EmptySet
         DEF HandlerInv, KnowsRequest, LockedIsFresh, NumbersRows, ReadsSnapshot
  <2>2. CASE Home[g] # inst
    <3>1. handler'[g] = handler[g] /\ state'.lastSeq = state.lastSeq
      BY <1>1, <2>2 DEF Restart
    <3> QED
      BY <3>1, BystanderStays
  <2> QED
    BY <2>1, <2>2
<1>3. handler' \in [Handlers -> HandlerType]
  <2>1. handler' = [g \in Handlers |-> handler'[g]]
    BY DEF Restart
  <2> QED
    BY <1>2, <2>1
<1> QED
  BY <1>1, <1>2, <1>3 DEF ServerInv, TypeOK, RowsAreUnique, AreUnique

\* The server starts with empty tables and idle handlers.
LEMMA InitInv == Init => ServerInv
<1> SUFFICES ASSUME Init PROVE ServerInv
  OBVIOUS
<1>1. TypeOK
  <2>1. NoState \in StateType
    BY NoStateHasType
  <2>2. NoSweep \in [on : BOOLEAN, seq : 0..MaxSeq, cutoff : 0..MaxTime]
    BY BoundsAssumption DEF NoSweep
  <2>3. NoWipe \in [on : BOOLEAN, doomed : SUBSET RowType, count : 0..MaxWipes]
    BY BoundsAssumption DEF NoWipe
  <2>4. 1 \in 1..MaxTime
    BY BoundsAssumption
  <2> QED
    BY <2>1, <2>2, <2>3, <2>4, IdleHandlerHasType DEF Init, TypeOK, StateType
<1>2. ASSUME NEW h \in Handlers
      PROVE  HandlerInv(h)
  <2>1. /\ handler[h].phase = "idle" /\ handler[h].view = {} /\ handler[h].fresh = {}
    BY DEF Init, IdleHandler
  <2> QED
    BY <2>1, FS_EmptySet
       DEF HandlerInv, KnowsRequest, LockedIsFresh, NumbersRows, ReadsSnapshot
<1> QED
  BY <1>1, <1>2, FS_EmptySet DEF ServerInv, RowsAreUnique, AreUnique, Init

\* Every step of the server keeps ServerInv.
LEMMA NextInv == ServerInv /\ [Next]_vars => ServerInv'
<1> SUFFICES ASSUME ServerInv, [Next]_vars PROVE ServerInv'
  OBVIOUS
<1>1. ASSUME NEW h \in Handlers, HandlerStep(h)
      PROVE  ServerInv'
  <2>1. CASE \E req \in Requests : ReceiveRequest(h, req)
    BY <2>1, ReceiveRequestStep
  <2>2. CASE TakeStorageLock(h)
    BY <2>2, TakeStorageLockStep
  <2>3. CASE RejectForQuota(h) \/ FailAfterCommit(h) \/ Respond(h)
    BY <2>3, BecomesIdleStep
  <2>4. CASE FreeStorage(h)
    BY <2>4, FreeStorageStep
  <2>5. CASE AnswerExistingImport(h) \/ PassImportCheck(h)
    BY <2>5, AnswerExistingImportStep, PassImportCheckStep
  <2>6. CASE BeginUpload(h)
    BY <2>6, BeginUploadStep
  <2>7. CASE ProcessOperation(h)
    BY <2>7, ProcessOperationStep
  <2>8. CASE CommitUpload(h)
    BY <2>8, CommitUploadStep
  <2>9. CASE AbortUpload(h)
    BY <2>9, AbortUploadStep
  <2>10. CASE CacheSnapshot(h)
    BY <2>10, CacheSnapshotStep
  <2>11. CASE FinishRequest(h)
    BY <2>11, FinishRequestStep
  <2> QED
    BY <1>1, <2>1, <2>2, <2>3, <2>4, <2>5, <2>6, <2>7, <2>8, <2>9, <2>10, <2>11
       DEF HandlerStep
<1>2. CASE Maintenance
  BY <1>2, RestartStep, BackgroundStep DEF Maintenance
<1>3. CASE UNCHANGED vars
  BY <1>3, BackgroundStep
<1> QED
  BY <1>1, <1>2, <1>3 DEF Next

\* The server's tables, transactions, caches and jobs keep their types, for any number of
\* concurrent requests, server processes and account wipes.
THEOREM TypeCorrect == Spec => []TypeOK
<1>1. ServerInv => TypeOK
  BY DEF ServerInv
<1> QED
  BY <1>1, InitInv, NextInv, PTL DEF Spec

-----------------------------------------------------------------------------
(* The numbers of new rows *)

\* A commit publishes rows with the numbers that follow the counter.
LEMMA CommitPublishes ==
  ASSUME ServerInv, NEW h \in Handlers, CommitUpload(h)
  PROVE  /\ state'.lastSeq >= state.lastSeq
         /\ \A r \in rows' \ rows : state.lastSeq < r.seq /\ r.seq <= state'.lastSeq
<1>1. state.lastSeq \in Nat
  BY BoundsAssumption DEF ServerInv, TypeOK
<1>2. /\ handler[h].phase = "open" /\ CanCommit(h)
      /\ rows' = handler[h].fresh \union KeptRows(h) /\ state' = StateAfter(h)
  BY DEF CommitUpload
<1>3. /\ state'.lastSeq = state.lastSeq + Cardinality(handler[h].fresh)
      /\ Cardinality(handler[h].fresh) \in Nat
  BY <1>2, StateAfterHasType, OpenHandlerFacts
<1>4. rows' \ rows \subseteq handler[h].fresh
  BY <1>2 DEF KeptRows
<1>5. \A r \in handler[h].fresh :
        state.lastSeq < r.seq /\ r.seq <= state.lastSeq + Cardinality(handler[h].fresh)
  <2>1. ASSUME NEW r \in handler[h].fresh
        PROVE  ~handler[h].stale
    BY <1>2 DEF CanCommit, Writes
  <2> QED
    BY <1>2, <2>1, OpenHandlerFacts
<1> QED
  BY <1>1, <1>3, <1>4, <1>5

\* No other step of a handler adds rows or moves the counter.
LEMMA OthersPublishNothing ==
  ASSUME ServerInv, NEW h \in Handlers, HandlerStep(h), ~CommitUpload(h)
  PROVE  rows' \subseteq rows /\ state'.lastSeq = state.lastSeq /\ wipe' = wipe
<1>1. CASE FreeStorage(h)
  <2>1. state' \in {state, [state EXCEPT !.snapSeq = 0, !.snapAt = 0]}
    BY <1>1 DEF FreeStorage
  <2>2. state'.lastSeq = state.lastSeq
    BY <2>1 DEF ServerInv, TypeOK
  <2> QED
    BY <1>1, <2>2 DEF FreeStorage
<1>2. CASE CacheSnapshot(h)
  <2> DEFINE seq == handler[h].results[1].seq
  <2>1. state' \in {state, [state EXCEPT !.snapSeq = seq, !.snapAt = now],
                    [state EXCEPT !.snapSeq = 0, !.snapAt = 0]}
    BY <1>2 DEF CacheSnapshot
  <2>2. state'.lastSeq = state.lastSeq
    BY <2>1 DEF ServerInv, TypeOK
  <2> QED
    BY <1>2, <2>2 DEF CacheSnapshot
<1> QED
  BY <1>1, <1>2
     DEF HandlerStep, ReceiveRequest, TakeStorageLock, RejectForQuota, AnswerExistingImport, PassImportCheck,
         BeginUpload, ProcessOperation, AbortUpload, FinishRequest, FailAfterCommit, Respond

\* Whatever uploads, jobs and account wipes run at the same time, rows are stored with the
\* numbers that their own transaction publishes: uploads that began before a wipe, which
\* sets the counter back, store nothing after it.
THEOREM NumbersAlwaysPublished == Spec => NumbersArePublished
<1>1. ASSUME ServerInv, [Next]_vars
      PROVE  \A r \in rows' \ rows : state.lastSeq < r.seq /\ r.seq <= state'.lastSeq
  <2>1. ASSUME NEW h \in Handlers, HandlerStep(h)
        PROVE  \A r \in rows' \ rows : state.lastSeq < r.seq /\ r.seq <= state'.lastSeq
    BY <1>1, <2>1, CommitPublishes, OthersPublishNothing
  <2>2. CASE Maintenance
    <3>1. rows' \subseteq rows
      BY <2>2 DEF Maintenance, ExpireCache, Restart, SweepStart, SweepDelete, SweepEnd,
                  WipeOps, WipeCommit, WipeAbort, Tick
    <3> QED
      BY <3>1
  <2>3. CASE UNCHANGED vars
    BY <2>3 DEF vars
  <2> QED
    BY <1>1, <2>1, <2>2, <2>3 DEF Next
<1>2. ASSUME ServerInv, [Next]_vars
      PROVE  [\A r \in rows' \ rows : state.lastSeq < r.seq /\ r.seq <= state'.lastSeq]_vars
  BY <1>1, <1>2
<1> QED
  BY <1>2, InitInv, NextInv, PTL DEF Spec, NumbersArePublished

-----------------------------------------------------------------------------
(* The published counter, for users whose account is not wiped *)

NumberingInv == ServerInv /\ CounterCoversRows /\ ~wipe.on

\* Without an account wipe a step either leaves counter and rows alone, or deletes rows, or
\* publishes rows with the numbers that follow the counter.
LEMMA CounterStep ==
  ASSUME MaxWipes = 0, ServerInv, ~wipe.on, [Next]_vars
  PROVE  /\ ~wipe'.on
         /\ state'.lastSeq >= state.lastSeq
         /\ \A r \in rows' \ rows : state.lastSeq < r.seq /\ r.seq <= state'.lastSeq
<1>1. state.lastSeq \in Nat
  BY BoundsAssumption DEF ServerInv, TypeOK
<1>2. ASSUME NEW h \in Handlers, CommitUpload(h)
      PROVE  wipe' = wipe
  BY <1>2 DEF CommitUpload
<1>3. ASSUME NEW h \in Handlers, HandlerStep(h)
      PROVE  /\ ~wipe'.on
             /\ state'.lastSeq >= state.lastSeq
             /\ \A r \in rows' \ rows : state.lastSeq < r.seq /\ r.seq <= state'.lastSeq
  <2>1. CASE CommitUpload(h)
    BY <1>2, <2>1, CommitPublishes
  <2>2. CASE ~CommitUpload(h)
    BY <1>1, <1>3, <2>2, OthersPublishNothing
  <2> QED
    BY <2>1, <2>2
<1>4. CASE Maintenance
  <2>1. ~WipeOps /\ ~(\E inst \in Instances : WipeCommit(inst)) /\ ~WipeAbort
    <3>1. wipe.count = 0
      BY DEF ServerInv, TypeOK
    <3> QED
      BY <3>1 DEF WipeOps, WipeCommit, WipeAbort
  <2>2. rows' \subseteq rows /\ state' = state /\ wipe' = wipe
    BY <1>4, <2>1 DEF Maintenance, ExpireCache, Restart, SweepStart, SweepDelete, SweepEnd, Tick
  <2> QED
    BY <1>1, <2>2
<1>5. CASE UNCHANGED vars
  BY <1>1, <1>5 DEF vars
<1> QED
  BY <1>3, <1>4, <1>5 DEF Next

\* The counter's invariant holds at the start and is kept.
LEMMA NumberingIsInductive ==
  ASSUME MaxWipes = 0
  PROVE  /\ Init => NumberingInv
         /\ NumberingInv /\ [Next]_vars => NumberingInv'
<1>1. Init => NumberingInv
  BY InitInv DEF Init, NumberingInv, CounterCoversRows, NoWipe
<1>2. ASSUME NumberingInv, [Next]_vars
      PROVE  NumberingInv'
  <2>1. ServerInv' /\ ServerInv /\ CounterCoversRows /\ ~wipe.on
    BY <1>2, NextInv DEF NumberingInv
  <2>2. /\ ~wipe'.on /\ state'.lastSeq >= state.lastSeq
        /\ \A r \in rows' \ rows : state.lastSeq < r.seq /\ r.seq <= state'.lastSeq
    BY <1>2, <2>1, CounterStep
  <2>3. /\ state.lastSeq \in Nat /\ state'.lastSeq \in Nat
        /\ \A r \in rows' : r.seq \in Nat
    <3>1. /\ rows' \subseteq RowType /\ state.lastSeq \in 0..MaxSeq
          /\ state'.lastSeq \in 0..MaxSeq
      BY <2>1 DEF ServerInv, TypeOK
    <3>2. \A r \in RowType : r.seq \in Nat
      BY BoundsAssumption DEF RowType
    <3> QED
      BY <3>1, <3>2, BoundsAssumption
  <2>4. ASSUME NEW r \in rows'
        PROVE  r.seq <= state'.lastSeq
    <3>1. CASE r \in rows
      <4>1. r.seq <= state.lastSeq
        BY <2>1, <3>1 DEF CounterCoversRows
      <4> QED
        BY <2>2, <2>3, <4>1
    <3>2. CASE r \notin rows
      BY <2>2, <3>2
    <3> QED
      BY <3>1, <3>2
  <2> QED
    BY <2>1, <2>2, <2>4 DEF NumberingInv, CounterCoversRows
<1> QED
  BY <1>1, <1>2

\* As long as no account is wiped, the counter that devices compare their cursors with
\* covers every row that any interleaving of uploads has published.
THEOREM CounterAlwaysCovers ==
  ASSUME MaxWipes = 0
  PROVE  Spec => []CounterCoversRows
<1>1. NumberingInv => CounterCoversRows
  BY DEF NumberingInv
<1> QED
  BY <1>1, NumberingIsInductive, PTL DEF Spec

\* As long as no account is wiped, a new row is behind every number published before,
\* over clean slates and restarts too: a device's cursor never passes a row it lacks.
THEOREM NewRowsAlwaysGoLast ==
  ASSUME MaxWipes = 0
  PROVE  Spec => NewRowsGoLast
<1>1. ASSUME NumberingInv, [Next]_vars
      PROVE  [ /\ state'.lastSeq >= state.lastSeq
               /\ \A r \in rows' \ rows : r.seq > state.lastSeq ]_vars
  <2>1. /\ state'.lastSeq >= state.lastSeq
        /\ \A r \in rows' \ rows : state.lastSeq < r.seq
    BY <1>1, CounterStep DEF NumberingInv
  <2>2. ServerInv' /\ ServerInv
    BY <1>1, NextInv DEF NumberingInv
  <2>3. state.lastSeq \in Nat /\ \A r \in rows' : r.seq \in Nat
    <3>1. /\ rows' \subseteq RowType /\ state.lastSeq \in 0..MaxSeq
          /\ state'.lastSeq \in 0..MaxSeq
      BY <2>2 DEF ServerInv, TypeOK
    <3>2. \A r \in RowType : r.seq \in Nat
      BY BoundsAssumption DEF RowType
    <3> QED
      BY <3>1, <3>2, BoundsAssumption
  <2> QED
    BY <2>1, <2>3
<1> QED
  BY <1>1, NumberingIsInductive, PTL DEF Spec, NewRowsGoLast

-----------------------------------------------------------------------------
(* Refinement: the server implements the log *)

L == INSTANCE OperationLogProofs WITH log <- rows, last <- state.lastSeq

RefinementInv == NumberingInv /\ SerialInv

\* What RefinementInv says of the tables in a form that arithmetic can use.
LEMMA TableFacts ==
  ASSUME ServerInv
  PROVE  /\ state.lastSeq \in Nat /\ now \in Nat
         /\ \A r \in rows : r.seq \in Nat /\ r.at \in Nat
         /\ \A h \in Handlers :
              /\ handler[h].base \in Nat /\ handler[h].at \in Nat
              /\ \A r \in handler[h].view \union handler[h].fresh :
                   r.seq \in Nat /\ r.at \in Nat
<1>1. /\ state.lastSeq \in 0..MaxSeq /\ now \in 1..MaxTime /\ rows \subseteq RowType
      /\ \A h \in Handlers : handler[h] \in HandlerType
  BY DEF ServerInv, TypeOK
<1>2. \A r \in RowType : r.seq \in Nat /\ r.at \in Nat
  BY BoundsAssumption DEF RowType
<1>3. \A s \in HandlerType : /\ s.base \in Nat /\ s.at \in Nat
                             /\ s.view \subseteq RowType /\ s.fresh \subseteq RowType
  BY BoundsAssumption DEF HandlerType
<1> QED
  BY <1>1, <1>2, <1>3, BoundsAssumption

\* An accepted operation follows the rows that are visible to it.
LEMMA AcceptedDoesNotConflict ==
  ASSUME NEW table, NEW op, NEW ts, Verdict(table, op, ts) = "ACCEPTED"
  PROVE  ~DetectConflict(table, op)
<1> DEFINE known == {r \in table : r.op.id = op.id}
<1>1. CASE ~op.valid
  BY <1>1 DEF Verdict
<1>2. CASE op.valid /\ \E r \in known : SameOperation(r, op, ts)
  BY <1>2 DEF Verdict
<1>3. CASE op.valid /\ known # {} /\ \A r \in known : ~SameOperation(r, op, ts)
  BY <1>3 DEF Verdict
<1>4. CASE op.valid /\ known = {} /\ DetectConflict(table, op)
  BY <1>4 DEF Verdict
<1> QED
  BY <1>1, <1>2, <1>3, <1>4

-----------------------------------------------------------------------------
(* Steps that leave every transaction as it is, or end it *)

KeepsTransaction(g) ==
  handler'[g].phase = "open" =>
    /\ handler[g].phase = "open"
    /\ handler'[g].view = handler[g].view /\ handler'[g].fresh = handler[g].fresh
    /\ handler'[g].base = handler[g].base /\ handler'[g].at = handler[g].at
    /\ handler'[g].req = handler[g].req
    /\ handler[g].stale => handler'[g].stale

ForgetsBeginning ==
  /\ rows' \subseteq rows
  /\ \A gone \in rows \ rows', r \in rows' : gone.seq < r.seq

\* Deleting the beginning of the table keeps what open transactions know of the rest.
LEMMA QuietStep ==
  ASSUME ServerInv, SerialInv, ForgetsBeginning, now' \in Nat, now' >= now,
         \A g \in Handlers : KeepsTransaction(g)
  PROVE  SerialInv'
<1>1. RowsAge'
  BY TableFacts DEF SerialInv, RowsAge, ForgetsBeginning
<1>2. ASSUME NEW g \in Handlers, handler'[g].phase = "open"
      PROVE  ViewIsCurrent(g)' /\ JudgesFresh(g)'
  <2>1. KeepsTransaction(g) /\ ViewIsCurrent(g) /\ JudgesFresh(g)
    BY DEF SerialInv
  <2>2. Visible(g)' = Visible(g)
    BY <1>2, <2>1 DEF KeepsTransaction, Visible
  <2>3. JudgesFresh(g)'
    BY <1>2, <2>1, <2>2 DEF KeepsTransaction, JudgesFresh
  <2>4. handler[g].at <= now'
    BY <1>2, <2>1, TableFacts DEF KeepsTransaction, ViewIsCurrent
  <2>5. ASSUME ~handler'[g].stale, NEW seen \in handler[g].view, NEW r \in rows',
               seen.seq > r.seq
        PROVE  seen \in rows'
    <3>1. r \in rows /\ seen \in rows
      BY <1>2, <2>1, <2>5 DEF KeepsTransaction, ViewIsCurrent, ForgetsBeginning
    <3>2. seen \notin rows' => seen.seq < r.seq
      BY <3>1 DEF ForgetsBeginning
    <3> QED
      BY <2>5, <3>1, <3>2, TableFacts
  <2>6. ViewIsCurrent(g)'
    BY <1>2, <2>1, <2>4, <2>5 DEF KeepsTransaction, ViewIsCurrent, ForgetsBeginning
  <2> QED
    BY <2>3, <2>6
<1>3. \A g \in Handlers : ViewIsCurrent(g)' /\ JudgesFresh(g)'
  BY <1>2 DEF ViewIsCurrent, JudgesFresh
<1> QED
  BY <1>1, <1>3 DEF SerialInv

\* A handler that is left in a phase other than open has no transaction.
LEMMA EndsTransaction ==
  ASSUME ServerInv, NEW h \in Handlers, handler'[h].phase # "open",
         \A g \in Handlers : g # h => handler'[g] \in {handler[g], MarkStale(handler)[g]}
  PROVE  \A g \in Handlers : KeepsTransaction(g)
<1>1. ASSUME NEW g \in Handlers, g # h
      PROVE  KeepsTransaction(g)
  <2>1. handler[g] \in HandlerType
    BY DEF ServerInv, TypeOK
  <2>2. CASE handler'[g] = handler[g]
    BY <2>2 DEF KeepsTransaction
  <2>3. CASE handler'[g] = MarkStale(handler)[g]
    BY <2>1, <2>3 DEF KeepsTransaction, MarkStale, HandlerType
  <2> QED
    BY <1>1, <2>2, <2>3
<1> QED
  BY <1>1 DEF KeepsTransaction

\* Marking transactions as stale changes nothing else of them.
LEMMA MarksTransactions ==
  ASSUME ServerInv, handler' \in {handler, MarkStale(handler)}
  PROVE  \A g \in Handlers : KeepsTransaction(g)
<1>1. \A g \in Handlers : handler[g] \in HandlerType
  BY DEF ServerInv, TypeOK
<1> QED
  BY <1>1 DEF KeepsTransaction, MarkStale, HandlerType

\* The retention job deletes the oldest row that is old enough: what is before it in the
\* table is older still, so it is the first row.
LEMMA SweepForgetsBeginning ==
  ASSUME ServerInv, RowsAge, SweepDelete
  PROVE  ForgetsBeginning
<1>1. PICK doomed \in rows : /\ IsDoomed(doomed)
                             /\ \A r \in rows : IsDoomed(r) => doomed.seq <= r.seq
                             /\ rows' = rows \ {doomed}
  BY DEF SweepDelete
<1>2. sweep.seq \in Nat /\ sweep.cutoff \in Nat
  BY BoundsAssumption DEF ServerInv, TypeOK
<1>3. ASSUME NEW r \in rows'
      PROVE  doomed.seq < r.seq
  <2>1. r \in rows /\ r # doomed
    BY <1>1
  <2>2. doomed.seq # r.seq
    BY <1>1, <2>1 DEF ServerInv, RowsAreUnique, AreUnique
  <2>3. ~(r.seq < doomed.seq)
    <3> SUFFICES ASSUME r.seq < doomed.seq PROVE FALSE
      OBVIOUS
    <3>1. r.at <= doomed.at
      BY <1>1, <2>1 DEF RowsAge
    <3>2. IsDoomed(r)
      BY <1>1, <1>2, <2>1, <3>1, TableFacts DEF IsDoomed
    <3> QED
      BY <1>1, <2>1, <3>2, TableFacts
  <2> QED
    BY <1>1, <2>1, <2>2, <2>3, TableFacts
<1> QED
  BY <1>1, <1>3 DEF ForgetsBeginning

\* Quota cleanup deletes the rows up to a restore point.
LEMMA FreeStorageForgetsBeginning ==
  ASSUME ServerInv, NEW h \in Handlers, FreeStorage(h)
  PROVE  ForgetsBeginning
<1>1. PICK oldest \in rows : rows' = {r \in rows : r.seq > oldest.seq}
  BY DEF FreeStorage, FullRows
<1> QED
  BY <1>1, TableFacts DEF ForgetsBeginning

IsTransactionStep(h) == BeginUpload(h) \/ ProcessOperation(h) \/ CommitUpload(h)

\* Of the other steps of a handler each leaves its handler outside a transaction.
LEMMA HandlerEnds ==
  ASSUME ServerInv, NEW h \in Handlers, HandlerStep(h), ~IsTransactionStep(h),
         ~FreeStorage(h), ~CacheSnapshot(h)
  PROVE  \A g \in Handlers : KeepsTransaction(g)
<1>1. handler[h] \in HandlerType /\ DOMAIN handler = Handlers
  BY DEF ServerInv, TypeOK
<1> DEFINE Ends == /\ handler'[h].phase # "open"
                   /\ \A g \in Handlers : g # h => handler'[g] = handler[g]
<1> SUFFICES Ends
  BY EndsTransaction
<1>2. ASSUME NEW new, handler' = [handler EXCEPT ![h] = new], new.phase # "open"
      PROVE  Ends
  BY <1>1, <1>2
<1> HIDE DEF Ends
<1>3. ASSUME NEW req \in Requests, ReceiveRequest(h, req)
      PROVE  Ends
  <2>1. CASE CachedFor(h, req) = {} /\ handler' = [handler EXCEPT ![h] =
               [IdleHandler EXCEPT !.phase = "received", !.req = req,
                                   !.ts = IF req.kind = "snapshot" THEN now ELSE 0]]
    <3> DEFINE new == [IdleHandler EXCEPT !.phase = "received", !.req = req,
                                   !.ts = IF req.kind = "snapshot" THEN now ELSE 0]
    <3>1. new.phase # "open"
      BY DEF IdleHandler
    <3> HIDE DEF new
    <3> QED
      BY <1>2, <2>1, <3>1 DEF new
  <2>2. ASSUME NEW e \in CachedFor(h, req), handler' = [handler EXCEPT ![h] =
               [IdleHandler EXCEPT !.phase = "done", !.req = req, !.results = e.results]]
        PROVE  Ends
    <3> DEFINE new == [IdleHandler EXCEPT !.phase = "done", !.req = req, !.results = e.results]
    <3>1. new.phase # "open"
      BY DEF IdleHandler
    <3> HIDE DEF new
    <3> QED
      BY <1>2, <2>2, <3>1 DEF new
  <2> QED
    BY <1>3, <2>1, <2>2 DEF ReceiveRequest
<1>4. ASSUME NEW phase \in {"locked", "checked", "done"}, NEW results,
             handler' = [handler EXCEPT ![h] =
                          [handler[h] EXCEPT !.phase = phase, !.results = results]]
      PROVE  Ends
  <2> DEFINE new == [handler[h] EXCEPT !.phase = phase, !.results = results]
  <2>1. new.phase # "open"
    BY <1>1 DEF HandlerType
  <2> HIDE DEF new
  <2> QED
    BY <1>2, <1>4, <2>1 DEF new
<1>5. CASE TakeStorageLock(h) \/ PassImportCheck(h) \/ AnswerExistingImport(h)
  <2>1. \E phase \in {"locked", "checked", "done"} : \E results :
          handler' = [handler EXCEPT ![h] =
                       [handler[h] EXCEPT !.phase = phase, !.results = results]]
    <3>1. CASE TakeStorageLock(h)
      <4>1. handler' = [handler EXCEPT ![h] =
                         [handler[h] EXCEPT !.phase = "locked", !.results = handler[h].results]]
        BY <1>1, <3>1 DEF TakeStorageLock, HandlerType
      <4> QED
        BY <4>1
    <3>2. CASE PassImportCheck(h)
      <4>1. handler' = [handler EXCEPT ![h] =
                         [handler[h] EXCEPT !.phase = "checked", !.results = handler[h].results]]
        BY <1>1, <3>2 DEF PassImportCheck, HandlerType
      <4> QED
        BY <4>1
    <3>3. CASE AnswerExistingImport(h)
      BY <1>1, <3>3 DEF AnswerExistingImport, HandlerType
    <3> QED
      BY <1>5, <3>1, <3>2, <3>3
  <2> QED
    BY <1>4, <2>1
<1>6. ASSUME NEW results, handler' = [handler EXCEPT ![h] =
        [IdleHandler EXCEPT !.phase = "done", !.req = handler[h].req, !.results = results]]
      PROVE  Ends
  <2> DEFINE new == [IdleHandler EXCEPT !.phase = "done", !.req = handler[h].req,
                                        !.results = results]
  <2>1. new.phase # "open"
    BY DEF IdleHandler
  <2> HIDE DEF new
  <2> QED
    BY <1>2, <1>6, <2>1 DEF new
<1>7. CASE AbortUpload(h) \/ FinishRequest(h)
  BY <1>6, <1>7 DEF AbortUpload, FinishRequest
<1>8. CASE RejectForQuota(h) \/ FailAfterCommit(h) \/ Respond(h)
  <2>1. IdleHandler.phase # "open"
    BY DEF IdleHandler
  <2> QED
    BY <1>2, <1>8, <2>1 DEF RejectForQuota, FailAfterCommit, Respond
<1> QED
  BY <1>3, <1>5, <1>7, <1>8 DEF HandlerStep, IsTransactionStep

\* Every step but a transaction's own forgets a beginning, possibly nothing, leaves the
\* counter alone and keeps or ends the transactions.
LEMMA OtherSteps ==
  ASSUME MaxWipes = 0, RefinementInv, [Next]_vars,
         ~(\E h \in Handlers : IsTransactionStep(h))
  PROVE  /\ ForgetsBeginning /\ state'.lastSeq = state.lastSeq
         /\ now' \in Nat /\ now' >= now
         /\ \A g \in Handlers : KeepsTransaction(g)
<1>1. ServerInv /\ RowsAge /\ ~wipe.on /\ now \in Nat
  BY TableFacts DEF RefinementInv, NumberingInv, SerialInv
<1>2. rows' = rows => ForgetsBeginning
  BY DEF ForgetsBeginning
<1>3. ASSUME NEW h \in Handlers, HandlerStep(h)
      PROVE  /\ ForgetsBeginning /\ state'.lastSeq = state.lastSeq
             /\ now' \in Nat /\ now' >= now
             /\ \A g \in Handlers : KeepsTransaction(g)
  <2>1. now' = now /\ ~IsTransactionStep(h)
    BY <1>3 DEF HandlerStep, ReceiveRequest, TakeStorageLock, AnswerExistingImport,
       PassImportCheck, RejectForQuota, FreeStorage, AbortUpload, CacheSnapshot,
       FinishRequest, FailAfterCommit, Respond, IsTransactionStep
  <2>2. CASE FreeStorage(h)
    <3>1. state' \in {state, [state EXCEPT !.snapSeq = 0, !.snapAt = 0]}
            /\ handler' = MarkStale(handler)
      BY <2>2 DEF FreeStorage
    <3>2. state'.lastSeq = state.lastSeq
      BY <1>1, <3>1 DEF ServerInv, TypeOK
    <3>3. ForgetsBeginning
      BY <1>1, <2>2, FreeStorageForgetsBeginning
    <3>4. \A g \in Handlers : KeepsTransaction(g)
      BY <1>1, <3>1, MarksTransactions
    <3> QED
      BY <1>1, <2>1, <3>2, <3>3, <3>4
  <2>3. CASE CacheSnapshot(h)
    <3> DEFINE seq == handler[h].results[1].seq
    <3>1. /\ state' \in {state, [state EXCEPT !.snapSeq = seq, !.snapAt = now],
                         [state EXCEPT !.snapSeq = 0, !.snapAt = 0]}
          /\ rows' = rows
          /\ \E hs \in {handler, MarkStale(handler)} :
               handler' = [hs EXCEPT ![h].phase = "snapshotted"]
      BY <2>3 DEF CacheSnapshot
    <3>2. state'.lastSeq = state.lastSeq
      BY <1>1, <3>1 DEF ServerInv, TypeOK
    <3>3. PICK hs \in {handler, MarkStale(handler)} :
            handler' = [hs EXCEPT ![h].phase = "snapshotted"]
      BY <3>1
    <3>4. DOMAIN hs = Handlers
      BY <1>1 DEF ServerInv, TypeOK, MarkStale
    <3>5. handler'[h].phase # "open"
      <4>1. handler[h] \in HandlerType /\ handler[h].phase = "committed"
        BY <1>1, <2>3 DEF CacheSnapshot, ServerInv, TypeOK
      <4>2. hs[h] = handler[h]
        BY <4>1 DEF MarkStale
      <4> QED
        BY <3>3, <3>4, <4>1, <4>2 DEF HandlerType
    <3>6. \A g \in Handlers : KeepsTransaction(g)
      BY <1>1, <3>3, <3>4, <3>5, EndsTransaction
    <3> QED
      BY <1>1, <1>2, <2>1, <3>1, <3>2, <3>6
  <2>4. CASE ~FreeStorage(h) /\ ~CacheSnapshot(h)
    <3>1. rows' = rows /\ state' = state
      BY <1>3, <2>1, <2>4
         DEF HandlerStep, ReceiveRequest, TakeStorageLock, AnswerExistingImport,
             PassImportCheck, RejectForQuota, AbortUpload, FinishRequest, FailAfterCommit,
             Respond, IsTransactionStep
    <3>2. \A g \in Handlers : KeepsTransaction(g)
      BY <1>1, <1>3, <2>1, <2>4, HandlerEnds
    <3> QED
      BY <1>1, <1>2, <2>1, <3>1, <3>2
  <2> QED
    BY <2>2, <2>3, <2>4
<1>4. CASE Maintenance
  <2>1. ~WipeOps /\ ~(\E inst \in Instances : WipeCommit(inst)) /\ ~WipeAbort
    <3>1. wipe.count = 0
      BY <1>1 DEF ServerInv, TypeOK
    <3> QED
      BY <1>1, <3>1 DEF WipeOps, WipeCommit, WipeAbort
  <2>2. state' = state /\ now' \in Nat /\ now' >= now
    BY <1>1, <1>4, <2>1
       DEF Maintenance, ExpireCache, Restart, SweepStart, SweepDelete, SweepEnd, Tick
  <2>3. ForgetsBeginning
    <3>1. CASE SweepDelete
      BY <1>1, <3>1, SweepForgetsBeginning
    <3>2. CASE ~SweepDelete
      BY <1>2, <1>4, <2>1, <3>2
         DEF Maintenance, ExpireCache, Restart, SweepStart, SweepEnd, Tick
    <3> QED
      BY <3>1, <3>2
  <2>4. ASSUME NEW g \in Handlers
        PROVE  KeepsTransaction(g)
    <3>1. CASE \E inst \in Instances : Restart(inst)
      <4>1. handler'[g] \in {IdleHandler, handler[g]}
        BY <3>1 DEF Restart
      <4> QED
        BY <4>1 DEF KeepsTransaction, IdleHandler
    <3>2. CASE ~(\E inst \in Instances : Restart(inst))
      BY <1>4, <2>1, <3>2
         DEF Maintenance, ExpireCache, SweepStart, SweepDelete, SweepEnd, Tick, KeepsTransaction
    <3> QED
      BY <3>1, <3>2
  <2> QED
    BY <2>2, <2>3, <2>4
<1>5. CASE UNCHANGED vars
  BY <1>1, <1>2, <1>5 DEF vars, KeepsTransaction
<1> QED
  BY <1>3, <1>4, <1>5 DEF Next

-----------------------------------------------------------------------------
(* The steps of a transaction *)

\* The other handlers' transactions are as they were when one handler moves.
LEMMA OthersKeepTransaction ==
  ASSUME ServerInv, NEW h \in Handlers, NEW new, handler' = [handler EXCEPT ![h] = new],
         NEW g \in Handlers, g # h
  PROVE  KeepsTransaction(g)
  BY DEF KeepsTransaction, ServerInv, TypeOK

\* A step that leaves the table alone keeps what is known of a transaction it keeps.
LEMMA BystanderStaysSerial ==
  ASSUME NEW g \in Handlers, KeepsTransaction(g), ViewIsCurrent(g), JudgesFresh(g),
         rows' = rows, now' = now
  PROVE  ViewIsCurrent(g)' /\ JudgesFresh(g)'
  BY DEF KeepsTransaction, ViewIsCurrent, JudgesFresh, Visible

\* A transaction begins with the table as its view.
LEMMA BeginIsSerial ==
  ASSUME RefinementInv, NEW h \in Handlers, BeginUpload(h)
  PROVE  SerialInv'
<1> DEFINE new == [handler[h] EXCEPT !.phase = "open", !.view = rows, !.at = now,
                                     !.base = state.lastSeq]
<1>1. ServerInv /\ SerialInv /\ CounterCoversRows
  BY DEF RefinementInv, NumberingInv
<1>2. /\ handler[h] \in HandlerType /\ handler[h].phase \in {"locked", "checked"}
      /\ handler[h].fresh = {}
  BY <1>1 DEF BeginUpload, MayUpload, ServerInv, TypeOK, HandlerInv, LockedIsFresh
<1>3. /\ handler' = [handler EXCEPT ![h] = new]
      /\ rows' = rows /\ now' = now
  BY <1>1, <1>2 DEF BeginUpload, ServerInv, TypeOK
<1>4. handler'[h] = new
  BY <1>1, <1>3 DEF ServerInv, TypeOK
<1>5. new.view = rows /\ new.at = now /\ new.base = state.lastSeq /\ new.fresh = {}
  BY <1>2 DEF HandlerType
<1> HIDE DEF new
<1>6. JudgesFresh(h)'
  BY <1>4, <1>5 DEF JudgesFresh
<1>7. ViewIsCurrent(h)'
  BY <1>1, <1>3, <1>4, <1>5, TableFacts DEF ViewIsCurrent, CounterCoversRows, SerialInv, RowsAge
<1>8. ASSUME NEW g \in Handlers, g # h
      PROVE  ViewIsCurrent(g)' /\ JudgesFresh(g)'
  BY <1>1, <1>3, <1>8, OthersKeepTransaction, BystanderStaysSerial DEF SerialInv
<1>9. RowsAge'
  BY <1>1, <1>3 DEF SerialInv, RowsAge
<1> QED
  BY <1>6, <1>7, <1>8, <1>9 DEF SerialInv

\* An operation is judged against what is visible, all of which its row will be behind.
LEMMA ProcessIsSerial ==
  ASSUME RefinementInv, NEW h \in Handlers, ProcessOperation(h)
  PROVE  SerialInv'
<1> DEFINE s == handler[h]
           op == s.req.batch[Len(s.results) + 1]
           verdict == Verdict(Visible(h), op, s.ts)
           count == Cardinality(s.fresh)
           seq == s.base + count + 1
           row == Row(op, s.ts, seq, s.at)
           taken == [s EXCEPT !.results = Append(@, Result(op, verdict, seq)),
                              !.fresh = @ \union {row}]
           refused == [s EXCEPT !.results = Append(@, Result(op, verdict, 0))]
<1>1. ServerInv /\ SerialInv /\ ViewIsCurrent(h) /\ JudgesFresh(h)
  BY DEF RefinementInv, NumberingInv, SerialInv
<1>2. s \in HandlerType /\ s.phase = "open" /\ rows' = rows /\ now' = now
  BY <1>1 DEF ProcessOperation, ServerInv, TypeOK
<1>3. \/ verdict = "ACCEPTED" /\ handler' = [handler EXCEPT ![h] = taken]
      \/ handler' = [handler EXCEPT ![h] = refused]
  BY <1>1, <1>2 DEF ProcessOperation, ServerInv, TypeOK
<1>4. ASSUME NEW g \in Handlers, g # h
      PROVE  ViewIsCurrent(g)' /\ JudgesFresh(g)'
  BY <1>1, <1>2, <1>3, <1>4, OthersKeepTransaction, BystanderStaysSerial DEF SerialInv
<1>5. RowsAge'
  BY <1>1, <1>2 DEF SerialInv, RowsAge
<1>6. CASE handler' = [handler EXCEPT ![h] = refused]
  <2>1. KeepsTransaction(h)
    BY <1>1, <1>2, <1>6 DEF KeepsTransaction, HandlerType, ServerInv, TypeOK
  <2>2. ViewIsCurrent(h)' /\ JudgesFresh(h)'
    BY <1>1, <1>2, <2>1, BystanderStaysSerial
  <2> QED
    BY <1>4, <1>5, <2>2 DEF SerialInv
<1>7. CASE verdict = "ACCEPTED" /\ handler' = [handler EXCEPT ![h] = taken]
  <2>1. handler'[h] = taken
    BY <1>1, <1>7 DEF ServerInv, TypeOK
  <2>2. /\ taken.phase = "open" /\ taken.view = s.view /\ taken.fresh = s.fresh \union {row}
        /\ taken.base = s.base /\ taken.at = s.at /\ taken.req = s.req
        /\ taken.stale = s.stale
    BY <1>2 DEF HandlerType
  <2>3. row.seq = seq /\ row.op = op /\ row.at = s.at
    BY DEF Row
  <2>4. ~DetectConflict(Visible(h), op)
    BY <1>7, AcceptedDoesNotConflict
  <2>5. \A seen \in Visible(h) : seen.seq < seq
    <3>1. \A seen \in s.fresh : seen.seq <= s.base + count
      BY <1>1, <1>2 DEF ServerInv, HandlerInv, NumbersRows
    <3>2. \A seen \in s.view : seen.seq <= s.base
      BY <1>1, <1>2 DEF ViewIsCurrent
    <3>3. IsFiniteSet(s.fresh)
      BY <1>1 DEF ServerInv, HandlerInv, ReadsSnapshot
    <3>4. count \in Nat
      BY <3>3, FS_CardinalityType
    <3>5. s.base \in Nat /\ \A seen \in s.view \union s.fresh : seen.seq \in Nat
      BY <1>1, TableFacts
    <3>6. \A seen \in s.view \union s.fresh : seen.seq < seq
      <4> HIDE DEF s, count
      <4> QED
        BY <3>1, <3>2, <3>4, <3>5
    <3> QED
      BY <3>6 DEF Visible
  <2>6. Visible(h)' = Visible(h) \union {row}
    BY <2>1, <2>2 DEF Visible
  <2>7. seq \in Nat /\ \A seen \in Visible(h) : seen.seq \in Nat
    <3>1. IsFiniteSet(s.fresh)
      BY <1>1 DEF ServerInv, HandlerInv, ReadsSnapshot
    <3>2. count \in Nat /\ s.base \in Nat
      BY <1>1, <3>1, FS_CardinalityType, TableFacts
    <3>3. \A seen \in s.view \union s.fresh : seen.seq \in Nat
      BY <1>1, TableFacts
    <3>4. seq \in Nat
      <4> HIDE DEF count, s
      <4> QED
        BY <3>2
    <3> QED
      BY <3>3, <3>4 DEF Visible
  <2> HIDE DEF taken, row, seq, op, verdict
  <2>8. ASSUME NEW new \in s.fresh
        PROVE  /\ new.at = s.at
               /\ ~DetectConflict({seen \in Visible(h)' : seen.seq < new.seq}, new.op)
    <3>1. new \in Visible(h)
      BY DEF Visible
    <3>2. ~(row.seq < new.seq)
      BY <2>3, <2>5, <2>7, <3>1
    <3>3. {seen \in Visible(h)' : seen.seq < new.seq} = {seen \in Visible(h) : seen.seq < new.seq}
      BY <2>6, <3>2
    <3> QED
      BY <1>1, <1>2, <3>3 DEF JudgesFresh
  <2>9. {seen \in Visible(h)' : seen.seq < row.seq} = Visible(h)
    BY <2>3, <2>5, <2>6, <2>7
  <2>10. JudgesFresh(h)'
    BY <2>1, <2>2, <2>3, <2>4, <2>8, <2>9 DEF JudgesFresh
  <2>11. ViewIsCurrent(h)'
    BY <1>1, <1>2, <2>1, <2>2 DEF ViewIsCurrent
  <2> QED
    BY <1>4, <1>5, <2>10, <2>11 DEF SerialInv
<1> QED
  BY <1>3, <1>6, <1>7

\* A transaction that writes commits onto the very table it has read, or replaces it.
LEMMA CommitFacts ==
  ASSUME RefinementInv, NEW h \in Handlers, CommitUpload(h), Writes(h)
  PROVE  /\ ~handler[h].stale /\ rows \subseteq handler[h].view
         /\ KeptRows(h) = IF handler[h].req.clean THEN {} ELSE rows
         /\ \A new \in handler[h].fresh :
              /\ state.lastSeq < new.seq
              /\ new.seq <= state.lastSeq + Cardinality(handler[h].fresh)
              /\ new.seq \in Nat
         /\ \A r \in rows, new \in handler[h].fresh : r.seq < new.seq
         /\ \A seen \in handler[h].view, new \in handler[h].fresh : seen.seq < new.seq
<1>1. ServerInv /\ SerialInv /\ CounterCoversRows /\ handler[h].phase = "open" /\ CanCommit(h)
  BY DEF RefinementInv, NumberingInv, CommitUpload
<1>2. ~handler[h].stale
  BY <1>1 DEF CanCommit
<1>3. rows \subseteq handler[h].view /\ \A seen \in handler[h].view : seen.seq <= handler[h].base
  BY <1>1, <1>2 DEF SerialInv, ViewIsCurrent
<1>4. handler[h].base = state.lastSeq
  BY <1>1, <1>2 DEF ServerInv, HandlerInv, NumbersRows
<1>5. \A new \in handler[h].fresh :
        /\ state.lastSeq < new.seq
        /\ new.seq <= state.lastSeq + Cardinality(handler[h].fresh)
  BY <1>1, <1>2, OpenHandlerFacts
<1>6. /\ state.lastSeq \in Nat
      /\ \A r \in handler[h].view \union handler[h].fresh : r.seq \in Nat
  BY <1>1, TableFacts
<1>7. \A seen \in handler[h].view, new \in handler[h].fresh : seen.seq < new.seq
  BY <1>3, <1>4, <1>5, <1>6
<1>8. KeptRows(h) = IF handler[h].req.clean THEN {} ELSE rows
  BY <1>3 DEF KeptRows
<1> QED
  BY <1>2, <1>3, <1>5, <1>6, <1>7, <1>8

\* The published rows are younger than the table they join, and every other transaction
\* that has read the table can no longer commit.
LEMMA CommitIsSerial ==
  ASSUME RefinementInv, NEW h \in Handlers, CommitUpload(h)
  PROVE  SerialInv'
<1> DEFINE new == [IdleHandler EXCEPT !.phase = "committed", !.req = handler[h].req,
                                      !.results = handler[h].results]
           hs == IF Writes(h) THEN MarkStale(handler) ELSE handler
<1>1. ServerInv /\ SerialInv /\ handler[h].phase = "open"
  BY DEF RefinementInv, NumberingInv, CommitUpload
<1>2. /\ handler' = [hs EXCEPT ![h] = new]
      /\ rows' = handler[h].fresh \union KeptRows(h) /\ now' = now
  BY DEF CommitUpload
<1>3. DOMAIN hs = Handlers
  BY <1>1 DEF MarkStale, ServerInv, TypeOK
<1>4. handler'[h] = new /\ new.phase # "open"
  BY <1>2, <1>3 DEF IdleHandler
<1> HIDE DEF new
<1>5. ViewIsCurrent(h)' /\ JudgesFresh(h)'
  BY <1>4 DEF ViewIsCurrent, JudgesFresh
<1>6. CASE ~Writes(h)
  <2>1. rows' = rows
    BY <1>2, <1>6 DEF Writes, KeptRows
  <2>2. ASSUME NEW g \in Handlers, g # h
        PROVE  ViewIsCurrent(g)' /\ JudgesFresh(g)'
    <3>1. handler'[g] = handler[g]
      BY <1>2, <1>3, <1>6, <2>2
    <3>2. KeepsTransaction(g)
      BY <3>1 DEF KeepsTransaction
    <3> QED
      BY <1>1, <1>2, <2>1, <3>2, BystanderStaysSerial DEF SerialInv
  <2>3. RowsAge'
    BY <1>1, <1>2, <2>1 DEF SerialInv, RowsAge
  <2> QED
    BY <1>5, <2>2, <2>3 DEF SerialInv
<1>7. CASE Writes(h)
  <2>1. ASSUME NEW g \in Handlers, g # h
        PROVE  ViewIsCurrent(g)' /\ JudgesFresh(g)'
    <3>1. handler'[g] = MarkStale(handler)[g] /\ handler[g] \in HandlerType
      BY <1>1, <1>2, <1>3, <1>7, <2>1 DEF ServerInv, TypeOK
    <3>2. handler'[g].phase = "open" =>
            /\ handler[g].phase = "open" /\ handler'[g].stale
            /\ handler'[g].view = handler[g].view /\ handler'[g].fresh = handler[g].fresh
            /\ handler'[g].base = handler[g].base /\ handler'[g].at = handler[g].at
            /\ handler'[g].req = handler[g].req
      BY <3>1 DEF MarkStale, HandlerType
    <3>3. ViewIsCurrent(g) /\ JudgesFresh(g)
      BY <1>1 DEF SerialInv
    <3> QED
      BY <1>2, <3>2, <3>3 DEF ViewIsCurrent, JudgesFresh, Visible
  <2>2. KeptRows(h) \subseteq rows
    BY DEF KeptRows
  <2>3. \A r \in handler[h].fresh : r.at = handler[h].at
    BY <1>1 DEF SerialInv, JudgesFresh
  <2>4. (\A r \in rows : r.at <= handler[h].at) /\ handler[h].at <= now
    BY <1>1, <1>7, CommitFacts DEF SerialInv, ViewIsCurrent
  <2>5. handler[h].at \in Nat /\ now \in Nat /\ \A r \in rows : r.at \in Nat /\ r.seq \in Nat
    BY <1>1, TableFacts
  <2>6. \A r \in rows, fresh \in handler[h].fresh : r.seq < fresh.seq /\ fresh.seq \in Nat
    BY <1>7, CommitFacts
  <2>7. RowsAge'
    <3>1. \A r \in rows' : r.at <= now'
      BY <1>1, <1>2, <2>2, <2>3, <2>4 DEF SerialInv, RowsAge
    <3>2. ASSUME NEW r1 \in rows', NEW r2 \in rows', r1.seq < r2.seq
          PROVE  r1.at <= r2.at
      <4>1. CASE r1 \in rows /\ r2 \in rows
        BY <1>1, <3>2, <4>1 DEF SerialInv, RowsAge
      <4>2. CASE r1 \in rows /\ r2 \in handler[h].fresh
        BY <2>3, <2>4, <4>2
      <4>3. CASE r1 \in handler[h].fresh /\ r2 \in rows
        BY <2>5, <2>6, <3>2, <4>3
      <4>4. CASE r1 \in handler[h].fresh /\ r2 \in handler[h].fresh
        BY <2>3, <2>5, <4>4
      <4> QED
        BY <1>2, <2>2, <4>1, <4>2, <4>3, <4>4
    <3> QED
      BY <3>1, <3>2 DEF RowsAge
  <2> QED
    BY <1>5, <2>1, <2>7 DEF SerialInv
<1> QED
  BY <1>6, <1>7

-----------------------------------------------------------------------------
(* The refinement *)

\* Seen from the log as it is at the commit, each published row follows the rows before
\* it: the transaction's view held nothing newer on an entity than the log still does.
LEMMA CommitIsJudged ==
  ASSUME RefinementInv, NEW h \in Handlers, CommitUpload(h), Writes(h),
         NEW row \in handler[h].fresh
  PROVE  Log!Judged(row, rows')
<1> DEFINE before == {seen \in Visible(h) : seen.seq < row.seq}
<1>1. ServerInv /\ SerialInv /\ handler[h].phase = "open"
      /\ rows' = handler[h].fresh \union KeptRows(h)
  BY DEF RefinementInv, NumberingInv, CommitUpload
<1>2. /\ ~handler[h].stale /\ rows \subseteq handler[h].view
      /\ KeptRows(h) = IF handler[h].req.clean THEN {} ELSE rows
      /\ \A seen \in handler[h].view, new \in handler[h].fresh : seen.seq < new.seq
  BY CommitFacts
<1>3. ~DetectConflict(before, row.op)
  BY <1>1 DEF SerialInv, JudgesFresh
<1>4. \A r \in handler[h].view \union handler[h].fresh : r.seq \in Nat
  BY <1>1, TableFacts
<1>5. rows' \subseteq Visible(h)
  BY <1>1, <1>2 DEF Visible
<1>6. ASSUME ~row.op.full, NEW entity \in row.op.ents,
             NEW prior \in Log!Newest(Log!Before(rows', row), entity)
      PROVE  Log!Succeeds(row.op, prior)
  <2>1. /\ prior \in rows' /\ prior.seq < row.seq /\ entity \in prior.op.ents
        /\ \A other \in rows' : other.seq < row.seq /\ entity \in other.op.ents
                                  => prior.seq >= other.seq
    BY DEF Log!Newest, Log!Before
  <2>2. prior.seq \in Nat /\ row.seq \in Nat
    BY <1>1, <1>2, <1>4, <2>1
  <2>3. ASSUME NEW other \in before, entity \in other.op.ents
        PROVE  prior.seq >= other.seq
    <3>1. other \in Visible(h) /\ other.seq < row.seq /\ other.seq \in Nat
      BY <1>4 DEF Visible
    <3>2. CASE other \in rows'
      BY <2>1, <2>3, <3>1, <3>2
    <3>3. CASE other \notin rows'
      <4>1. other \in handler[h].view /\ ~handler[h].req.clean /\ other \notin rows
        BY <1>1, <1>2, <3>1, <3>3 DEF Visible
      <4>2. CASE prior \in handler[h].fresh
        BY <1>2, <2>2, <3>1, <4>1, <4>2
      <4>3. CASE prior \in rows
        <5>1. ~(other.seq > prior.seq)
          BY <1>1, <1>2, <4>1, <4>3 DEF SerialInv, ViewIsCurrent
        <5> QED
          BY <2>2, <3>1, <5>1
      <4> QED
        BY <1>1, <1>2, <2>1, <4>2, <4>3
    <3> QED
      BY <3>2, <3>3
  <2>4. prior \in LatestTouching(before, entity)
    BY <1>5, <2>1, <2>3 DEF LatestTouching
  <2>5. ~ConflictsWith(row.op, prior)
    BY <1>3, <1>6, <2>4 DEF DetectConflict
  <2> QED
    BY <2>5 DEF ConflictsWith, Log!Succeeds, CompareClocks, Log!CompareClocks
<1> QED
  BY <1>6 DEF Log!Judged

\* The numbers of the published rows are those from the old counter to the new one.
LEMMA CommitNumbersRows ==
  ASSUME RefinementInv, NEW h \in Handlers, CommitUpload(h), Writes(h)
  PROVE  /\ {row.seq : row \in handler[h].fresh} = (state.lastSeq + 1)..state'.lastSeq
         /\ state'.lastSeq \in Nat /\ state'.lastSeq >= state.lastSeq
<1> DEFINE fresh == handler[h].fresh
           numbers == (state.lastSeq + 1)..state'.lastSeq
           number == [row \in fresh |-> row.seq]
<1>1. /\ ServerInv /\ handler[h].phase = "open" /\ CanCommit(h) /\ state' = StateAfter(h)
  BY DEF RefinementInv, NumberingInv, CommitUpload
<1>2. /\ state'.lastSeq = state.lastSeq + Cardinality(fresh)
      /\ Cardinality(fresh) \in Nat /\ state.lastSeq \in Nat
  BY <1>1, StateAfterHasType, OpenHandlerFacts, TableFacts
<1>3. IsFiniteSet(numbers) /\ Cardinality(numbers) = Cardinality(fresh)
  <2>1. /\ state.lastSeq + 1 \in Int /\ state'.lastSeq \in Int
        /\ Cardinality(fresh) = IF state.lastSeq + 1 > state'.lastSeq THEN 0
                                 ELSE state'.lastSeq - (state.lastSeq + 1) + 1
    <3> HIDE DEF fresh
    <3> QED
      BY <1>2
  <2> QED
    BY <2>1, FS_Interval
<1>4. number \in [fresh -> numbers]
  BY <1>2, CommitFacts
<1>5. number \in Injection(fresh, numbers)
  BY <1>1, <1>4, OpenHandlerFacts DEF Injection, AreUnique, IsInjective
<1>6. number \in Surjection(fresh, numbers)
  <2> HIDE DEF number, fresh, numbers
  <2> QED
    BY <1>3, <1>5, FS_Injection
<1>7. {row.seq : row \in fresh} = numbers
  BY <1>4, <1>6 DEF Surjection
<1> QED
  BY <1>2, <1>7

\* A commit that writes is an upload to the abstract log, one that writes nothing is a
\* step that the abstract log does not see.
LEMMA CommitIsUpload ==
  ASSUME RefinementInv, NEW h \in Handlers, CommitUpload(h)
  PROVE  [Log!Next]_<<rows, state.lastSeq>>
<1> DEFINE kept == KeptRows(h)
           fresh == handler[h].fresh
<1>1. ServerInv /\ handler[h].phase = "open" /\ CanCommit(h)
      /\ rows' = fresh \union kept /\ state' = StateAfter(h) /\ CounterCoversRows
  BY DEF RefinementInv, NumberingInv, CommitUpload
<1>2. state'.lastSeq = state.lastSeq + Cardinality(fresh)
        /\ (~Writes(h) => state'.lastSeq = state.lastSeq)
  BY <1>1, StateAfterHasType
<1>3. CASE ~Writes(h)
  BY <1>1, <1>2, <1>3 DEF Writes, KeptRows
<1>4. CASE Writes(h)
  <2>1. kept \in {rows, {}}
    BY <1>4, CommitFacts
  <2>2. /\ \A new \in fresh : state.lastSeq < new.seq /\ new.seq <= state'.lastSeq
        /\ \A r \in rows, new \in fresh : r.seq < new.seq
    BY <1>2, <1>4, CommitFacts
  <2>3. fresh \subseteq RowType /\ IsFiniteSet(fresh)
    BY <1>1, OpenHandlerFacts
  <2>4. \A new \in fresh : Log!IsRow(new)
    <3>1. \A new \in RowType : new.seq \in Nat /\ new.op.clock \in Clock /\ new.clk \in Clock
      BY OpsAssumption, BoundsAssumption DEF RowType
    <3> QED
      BY <2>3, <3>1 DEF Log!IsRow, Log!Clock, Clock
  <2>5. rows' \ kept = fresh
    <3>1. \A r \in rows, new \in fresh : r # new
      BY <2>2, <2>3, <1>1, TableFacts
    <3> QED
      BY <1>1, <2>1, <3>1
  <2>6. \A r1, r2 \in rows' : r1.seq = r2.seq \/ r1.op.id = r2.op.id => r1 = r2
    BY <1>1, CommittedRowsAreUnique DEF AreUnique
  <2>7. \A new \in fresh : Log!Judged(new, rows')
    BY <1>4, CommitIsJudged
  <2> HIDE DEF kept, fresh
  <2>8. Log!Upload(kept)
    <3>1. kept \subseteq rows'
      BY <1>1
    <3>2. {row.seq : row \in fresh} = (state.lastSeq + 1)..state'.lastSeq
            /\ state'.lastSeq \in Nat /\ state'.lastSeq >= state.lastSeq
      BY <1>1, <1>4, CommitNumbersRows DEF fresh
    <3>3. \A row \in rows' \ kept : Log!IsRow(row) /\ Log!Judged(row, rows')
      BY <2>4, <2>5, <2>7
    <3> QED
      BY <2>5, <2>6, <3>1, <3>2, <3>3 DEF Log!Upload
  <2> QED
    BY <2>1, <2>8 DEF Log!Next, Log!Append, Log!Replace
<1> QED
  BY <1>3, <1>4

\* RefinementInv is an invariant of the server of a user whose account is not wiped.
LEMMA RefinementIsInductive ==
  ASSUME MaxWipes = 0
  PROVE  /\ Init => RefinementInv
         /\ RefinementInv /\ [Next]_vars => RefinementInv'
<1>1. Init => RefinementInv
  <2> SUFFICES ASSUME Init PROVE SerialInv
    BY NumberingIsInductive DEF RefinementInv
  <2>1. rows = {} /\ \A h \in Handlers : handler[h].phase = "idle"
    BY DEF Init, IdleHandler
  <2> QED
    BY <2>1 DEF SerialInv, RowsAge, ViewIsCurrent, JudgesFresh
<1>2. ASSUME RefinementInv, [Next]_vars
      PROVE  RefinementInv'
  <2>1. NumberingInv'
    BY <1>2, NumberingIsInductive DEF RefinementInv
  <2>2. CASE \E h \in Handlers : IsTransactionStep(h)
    BY <1>2, <2>1, <2>2, BeginIsSerial, ProcessIsSerial, CommitIsSerial
       DEF IsTransactionStep, RefinementInv
  <2>3. CASE ~(\E h \in Handlers : IsTransactionStep(h))
    <3>1. /\ ForgetsBeginning /\ now' \in Nat /\ now' >= now
          /\ \A g \in Handlers : KeepsTransaction(g)
      BY <1>2, <2>3, OtherSteps
    <3> QED
      BY <1>2, <2>1, <3>1, QuietStep DEF RefinementInv, NumberingInv
  <2> QED
    BY <2>2, <2>3
<1> QED
  BY <1>1, <1>2

\* The server implements the log it promises its devices: for any number of handlers,
\* processes, retries, restarts and cleanup jobs, every step is an upload to the log as
\* it is at that moment, a deletion of its beginning, or invisible.
THEOREM ServerImplementsLog ==
  ASSUME MaxWipes = 0
  PROVE  Spec => BehavesAsLog
<1>1. Init => Log!Init
  BY DEF Init, NoState, Log!Init
<1>2. RefinementInv /\ [Next]_vars => [Log!Next]_<<rows, state.lastSeq>>
  <2> SUFFICES ASSUME RefinementInv, [Next]_vars
               PROVE  [Log!Next]_<<rows, state.lastSeq>>
    OBVIOUS
  <2>1. CASE \E h \in Handlers : CommitUpload(h)
    BY <2>1, CommitIsUpload
  <2>2. CASE \E h \in Handlers : BeginUpload(h) \/ ProcessOperation(h)
    BY <2>2 DEF BeginUpload, ProcessOperation
  <2>3. CASE ~(\E h \in Handlers : IsTransactionStep(h))
    <3>1. ForgetsBeginning /\ state'.lastSeq = state.lastSeq
      BY <2>3, OtherSteps
    <3> QED
      BY <3>1 DEF ForgetsBeginning, Log!Next, Log!Forget
  <2> QED
    BY <2>1, <2>2, <2>3 DEF IsTransactionStep
<1> QED
  BY <1>1, <1>2, RefinementIsInductive, PTL DEF Spec, BehavesAsLog, Log!Spec

\* ... and so no concurrent upload loses an update: on every entity the author of a stored
\* operation had seen the operation that wrote the entity before it.
THEOREM PriorWriterAlwaysSeen ==
  ASSUME MaxWipes = 0
  PROVE  Spec => []SeenPriorWriter
<1>1. Log!Init <=> L!Init
  BY DEF Log!Init, L!Init
<1>2. [Log!Next]_<<rows, state.lastSeq>> <=> [L!Next]_<<rows, state.lastSeq>>
  BY DEF Log!Next, Log!Append, Log!Replace, Log!Forget, Log!Upload, Log!Judged, Log!Newest,
         Log!Before, Log!Succeeds, Log!IsRow, Log!CompareClocks, Log!Clock,
         L!Next, L!Append, L!Replace, L!Forget, L!Upload, L!Judged, L!Newest,
         L!Before, L!Succeeds, L!IsRow, L!CompareClocks, L!Clock
<1>3. BehavesAsLog => L!Spec
  BY <1>1, <1>2, PTL DEF BehavesAsLog, Log!Spec, L!Spec
<1>4. L!NoLostUpdate => SeenPriorWriter
  BY DEF L!NoLostUpdate, L!Newest, L!Before, SeenPriorWriter, LatestTouching, L!Dominates, Dominates
<1>5. L!Spec => []L!NoLostUpdate
  BY L!LogLosesNoUpdate, ClientsAreOrdered, MaxClockSizePositive, PTL
<1>6. Spec => BehavesAsLog
  BY ServerImplementsLog
<1> QED
  BY <1>3, <1>4, <1>5, <1>6, PTL

-----------------------------------------------------------------------------
(* Coverage: what is deleted is covered *)

-----------------------------------------------------------------------------
(* The storage lock *)

ImportInv == ServerInv /\ LockIsExclusive /\ ChecksHold

\* Steps after which no handler is further than it was, and which add no rows.
FallsBack(g) ==
  /\ HoldsLock(g)' => HoldsLock(g)
  /\ handler'[g].phase \in {"checked", "open"} =>
       /\ handler[g].phase \in {"checked", "open"} /\ handler'[g].req = handler[g].req

\* Steps that take no handler further, and add no rows, keep lock and checks.
LEMMA FallingBack ==
  ASSUME ImportInv, rows' \subseteq rows, \A g \in Handlers : FallsBack(g)
  PROVE  LockIsExclusive' /\ ChecksHold'
  BY DEF ImportInv, LockIsExclusive, ChecksHold, FallsBack, FullRows, IsFirstImport

\* A handler that moves on while it holds the lock leaves the others behind.
LEMMA MovingOn ==
  ASSUME ImportInv, NEW h \in Handlers, NEW new, handler' = [handler EXCEPT ![h] = new],
         rows' = rows, HoldsLock(h)' => HoldsLock(h),
         new.phase \in {"checked", "open"} /\ IsFirstImport(h)' => FullRows(rows) = {}
  PROVE  LockIsExclusive' /\ ChecksHold'
<1>1. DOMAIN handler = Handlers
  BY DEF ImportInv, ServerInv, TypeOK
<1>2. handler'[h] = new /\ \A g \in Handlers : g # h => handler'[g] = handler[g]
  BY <1>1
<1>3. \A g \in Handlers : HoldsLock(g)' => HoldsLock(g)
  BY <1>2 DEF HoldsLock
<1>4. LockIsExclusive'
  BY <1>3 DEF ImportInv, LockIsExclusive
<1>5. ChecksHold'
  BY <1>2 DEF ImportInv, ChecksHold, IsFirstImport, FullRows
<1> QED
  BY <1>4, <1>5

\* Every step of a handler keeps the lock exclusive and its check true.
LEMMA HandlerKeepsImports ==
  ASSUME \A g, h \in Handlers : Home[g] = Home[h],
         ImportInv, NEW h \in Handlers, HandlerStep(h)
  PROVE  LockIsExclusive' /\ ChecksHold'
<1>1. /\ handler[h] \in HandlerType /\ DOMAIN handler = Handlers
      /\ \A g \in Handlers : handler[g] \in HandlerType
  BY DEF ImportInv, ServerInv, TypeOK
<1>2. ASSUME NEW new, handler' = [handler EXCEPT ![h] = new], rows' = rows,
             new.phase \in {"idle", "received", "done"}
      PROVE  LockIsExclusive' /\ ChecksHold'
  <2>1. handler'[h] = new /\ ~HoldsLock(h)'
    BY <1>1, <1>2 DEF HoldsLock
  <2> QED
    BY <1>2, <2>1, MovingOn
<1>3. CASE \E req \in Requests : ReceiveRequest(h, req)
  <2>1. PICK req \in Requests : ReceiveRequest(h, req)
    BY <1>3
  <2> DEFINE received(ts) == [IdleHandler EXCEPT !.phase = "received", !.req = req, !.ts = ts]
             cached(results) ==
               [IdleHandler EXCEPT !.phase = "done", !.req = req, !.results = results]
  <2>2. \E new : handler' = [handler EXCEPT ![h] = new] /\ new.phase \in {"received", "done"}
    <3>1. (\E ts : handler' = [handler EXCEPT ![h] = received(ts)])
            \/ \E results : handler' = [handler EXCEPT ![h] = cached(results)]
      BY <2>1 DEF ReceiveRequest
    <3>2. \A any : received(any).phase = "received" /\ cached(any).phase = "done"
      BY DEF IdleHandler
    <3> HIDE DEF received, cached
    <3> QED
      BY <3>1, <3>2
  <2> QED
    BY <1>2, <2>1, <2>2 DEF ReceiveRequest
<1>4. CASE TakeStorageLock(h)
  <2>1. /\ rows' = rows /\ handler'[h] = [handler[h] EXCEPT !.phase = "locked"]
        /\ \A g \in Handlers : g # h => handler'[g] = handler[g] /\ ~HoldsLock(g)
    BY <1>1, <1>4 DEF TakeStorageLock, HoldsLock
  <2>2. handler'[h].phase = "locked"
    BY <1>1, <2>1 DEF HandlerType
  <2>3. \A g \in Handlers : g # h => ~HoldsLock(g)'
    BY <2>1 DEF HoldsLock
  <2>4. \A g \in Handlers : g # h => handler'[g].phase \notin {"checked", "open"}
    BY <2>3 DEF HoldsLock
  <2> QED
    BY <2>2, <2>3, <2>4 DEF LockIsExclusive, ChecksHold
<1>5. CASE AnswerExistingImport(h)
  <2>1. \E results : handler' = [handler EXCEPT ![h] =
           [handler[h] EXCEPT !.phase = "done", !.results = results]]
    BY <1>1, <1>5 DEF AnswerExistingImport
  <2>2. PICK results : handler' = [handler EXCEPT ![h] =
           [handler[h] EXCEPT !.phase = "done", !.results = results]]
    BY <2>1
  <2>3. [handler[h] EXCEPT !.phase = "done", !.results = results].phase = "done"
    BY <1>1 DEF HandlerType
  <2> QED
    BY <1>2, <1>5, <2>2, <2>3 DEF AnswerExistingImport
<1>6. CASE PassImportCheck(h)
  <2> DEFINE new == [handler[h] EXCEPT !.phase = "checked"]
  <2>1. handler' = [handler EXCEPT ![h] = new] /\ rows' = rows /\ FullRows(rows) = {}
    BY <1>6 DEF PassImportCheck
  <2>2. HoldsLock(h)
    BY <1>6 DEF PassImportCheck, HoldsLock
  <2> QED
    BY <2>1, <2>2, MovingOn
<1>7. CASE BeginUpload(h)
  <2> DEFINE new == [handler[h] EXCEPT !.phase = "open", !.view = rows, !.at = now,
                                       !.base = state.lastSeq]
  <2>1. handler' = [handler EXCEPT ![h] = new] /\ rows' = rows
    BY <1>1, <1>7 DEF BeginUpload
  <2>2. HoldsLock(h)
    BY <1>7 DEF BeginUpload, MayUpload, HoldsLock
  <2>3. IsFirstImport(h)' <=> IsFirstImport(h)
    BY <1>1, <2>1 DEF IsFirstImport, HandlerType
  <2>4. IsFirstImport(h) => FullRows(rows) = {}
    BY <1>7 DEF BeginUpload, MayUpload, ImportInv, ChecksHold
  <2> HIDE DEF new
  <2> QED
    BY <2>1, <2>2, <2>3, <2>4, MovingOn
<1>8. CASE ProcessOperation(h)
  <2>1. PICK new : /\ handler' = [handler EXCEPT ![h] = new]
                   /\ new.req = handler[h].req
    <3> DEFINE op == handler[h].req.batch[Len(handler[h].results) + 1]
               verdict == Verdict(Visible(h), op, handler[h].ts)
               seq == handler[h].base + Cardinality(handler[h].fresh) + 1
               accepted == [handler[h] EXCEPT
                 !.results = Append(@, Result(op, verdict, seq)),
                 !.fresh = @ \union {Row(op, handler[h].ts, seq, handler[h].at)}]
               refused == [handler[h] EXCEPT !.results = Append(@, Result(op, verdict, 0))]
    <3>1. \E new \in {accepted, refused} : handler' = [handler EXCEPT ![h] = new]
      BY <1>1, <1>8 DEF ProcessOperation
    <3>2. accepted.req = handler[h].req /\ refused.req = handler[h].req
      BY <1>1 DEF HandlerType
    <3> QED
      BY <3>1, <3>2
  <2>2. handler[h].phase = "open" /\ HoldsLock(h) /\ rows' = rows
    BY <1>8 DEF ProcessOperation, HoldsLock
  <2>3. IsFirstImport(h)' <=> IsFirstImport(h)
    BY <1>1, <2>1 DEF IsFirstImport
  <2>4. IsFirstImport(h) => FullRows(rows) = {}
    BY <2>2 DEF ImportInv, ChecksHold
  <2> QED
    BY <2>1, <2>2, <2>3, <2>4, MovingOn
<1>9. CASE CommitUpload(h)
  <2>1. \A g \in Handlers : g # h => ~HoldsLock(g)
    BY <1>9 DEF CommitUpload, HoldsLock, ImportInv, LockIsExclusive
  <2>2. PICK hs \in {handler, MarkStale(handler)} :
          handler' = [hs EXCEPT ![h] = [IdleHandler EXCEPT !.phase = "committed",
                        !.req = handler[h].req, !.results = handler[h].results]]
    BY <1>9 DEF CommitUpload
  <2>3. DOMAIN hs = Handlers /\ \A g \in Handlers : hs[g].phase = handler[g].phase
    BY <1>1, <2>2 DEF MarkStale, HandlerType
  <2>4. \A g \in Handlers : g # h => handler'[g].phase = handler[g].phase
    BY <2>2, <2>3
  <2>5. handler'[h].phase = "committed"
    BY <2>2, <2>3 DEF IdleHandler
  <2>6. \A g \in Handlers : g # h => ~HoldsLock(g)'
    BY <2>1, <2>4 DEF HoldsLock
  <2> QED
    BY <2>5, <2>6 DEF LockIsExclusive, ChecksHold, HoldsLock
<1>10. CASE FreeStorage(h) \/ CacheSnapshot(h)
  <2>1. /\ rows' \subseteq rows
        /\ \E hs \in {handler, MarkStale(handler)} :
             \/ handler' = hs
             \/ /\ handler[h].phase = "committed"
                /\ handler' = [hs EXCEPT ![h].phase = "snapshotted"]
    BY <1>10 DEF FreeStorage, CacheSnapshot
  <2>2. PICK hs \in {handler, MarkStale(handler)} :
             \/ handler' = hs
             \/ /\ handler[h].phase = "committed"
                /\ handler' = [hs EXCEPT ![h].phase = "snapshotted"]
    BY <2>1
  <2>3. /\ DOMAIN hs = Handlers
        /\ \A g \in Handlers :
             hs[g].phase = handler[g].phase /\ hs[g].req = handler[g].req
    <3>1. CASE hs = handler
      BY <1>1, <3>1
    <3>2. CASE hs = MarkStale(handler)
      <4>1. DOMAIN hs = Handlers
        BY <3>2 DEF MarkStale
      <4>2. ASSUME NEW g \in Handlers
            PROVE  hs[g] \in {handler[g], [handler[g] EXCEPT !.stale = TRUE]}
        BY <3>2 DEF MarkStale
      <4>3. \A g \in Handlers : handler[g] \in HandlerType
        BY <1>1
      <4> QED
        BY <4>1, <4>2, <4>3 DEF HandlerType
    <3> QED
      BY <2>2, <3>1, <3>2
  <2>4. \A g \in Handlers : FallsBack(g)
    <3>1. CASE handler' = hs
      BY <2>3, <3>1 DEF FallsBack, HoldsLock
    <3>2. CASE handler[h].phase = "committed" /\ handler' = [hs EXCEPT ![h].phase = "snapshotted"]
      <4>1. hs[h] = handler[h]
        BY <2>2, <3>2 DEF MarkStale
      <4>2. handler'[h].phase = "snapshotted" /\ \A g \in Handlers : g # h => handler'[g] = hs[g]
        BY <1>1, <2>3, <3>2, <4>1 DEF HandlerType
      <4> QED
        BY <2>3, <3>2, <4>2 DEF FallsBack, HoldsLock
    <3> QED
      BY <2>2, <3>1, <3>2
  <2> QED
    BY <2>1, <2>4, FallingBack
<1>11. CASE AbortUpload(h) \/ FinishRequest(h)
  <2>1. \E results : handler' = [handler EXCEPT ![h] = [IdleHandler EXCEPT
           !.phase = "done", !.req = handler[h].req, !.results = results]]
    BY <1>11 DEF AbortUpload, FinishRequest
  <2>2. PICK results : handler' = [handler EXCEPT ![h] = [IdleHandler EXCEPT
           !.phase = "done", !.req = handler[h].req, !.results = results]]
    BY <2>1
  <2>3. [IdleHandler EXCEPT !.phase = "done", !.req = handler[h].req,
                            !.results = results].phase = "done"
    BY DEF IdleHandler
  <2> QED
    BY <1>2, <1>11, <2>2, <2>3 DEF AbortUpload, FinishRequest
<1>12. CASE RejectForQuota(h) \/ FailAfterCommit(h) \/ Respond(h)
  BY <1>2, <1>12 DEF RejectForQuota, FailAfterCommit, Respond, IdleHandler
<1> QED
  BY <1>3, <1>4, <1>5, <1>6, <1>7, <1>8, <1>9, <1>10, <1>11, <1>12 DEF HandlerStep

\* Lock and checks hold on one process, also over restarts.
LEMMA ImportInvIsInductive ==
  ASSUME \A g, h \in Handlers : Home[g] = Home[h]
  PROVE  /\ Init => ImportInv
         /\ ImportInv /\ [Next]_vars => ImportInv'
<1>1. Init => ImportInv
  BY InitInv DEF Init, IdleHandler, ImportInv, LockIsExclusive, ChecksHold, HoldsLock
<1>2. ASSUME ImportInv, [Next]_vars
      PROVE  ImportInv'
  <2>1. ServerInv'
    BY <1>2, NextInv DEF ImportInv
  <2>2. CASE \E h \in Handlers : HandlerStep(h)
    BY <1>2, <2>1, <2>2, HandlerKeepsImports DEF ImportInv
  <2>3. CASE Maintenance \/ UNCHANGED vars
    <3>1. rows' \subseteq rows
      BY <2>3 DEF Maintenance, ExpireCache, Restart, SweepStart, SweepDelete, SweepEnd,
                  WipeOps, WipeCommit, WipeAbort, Tick, vars
    <3>2. ASSUME NEW g \in Handlers
          PROVE  FallsBack(g)
      <4>1. \/ handler' = handler
            \/ handler' = MarkStale(handler)
            \/ handler'[g] \in {IdleHandler, handler[g]}
        BY <2>3 DEF Maintenance, ExpireCache, Restart, SweepStart, SweepDelete, SweepEnd,
                    WipeOps, WipeCommit, WipeAbort, Tick, vars
      <4>2. handler[g] \in HandlerType
        BY <1>2 DEF ImportInv, ServerInv, TypeOK
      <4> QED
        BY <4>1, <4>2 DEF FallsBack, HoldsLock, MarkStale, HandlerType, IdleHandler
    <3> QED
      BY <1>2, <2>1, <3>1, <3>2, FallingBack DEF ImportInv
  <2> QED
    BY <1>2, <2>2, <2>3 DEF Next
<1> QED
  BY <1>1, <1>2

\* On one server process, a device that imports its state into an empty account is the only
\* one to do so, however many handlers serve such requests at the same time.
THEOREM FirstImportStaysAlone ==
  ASSUME \A g, h \in Handlers : Home[g] = Home[h]
  PROVE  Spec => FirstImportIsAlone
<1>1. ASSUME ImportInv
      PROVE  [ \A h \in Handlers :
                 handler[h].phase = "open" /\ handler'[h].phase = "committed"
                   /\ IsFirstImport(h) => FullRows(rows) = {} ]_vars
  BY <1>1 DEF ImportInv, ChecksHold
<1> QED
  BY <1>1, ImportInvIsInductive, PTL DEF Spec, FirstImportIsAlone

-----------------------------------------------------------------------------
(* The full-state clock, for users whose account is not wiped *)

\* Every step but a commit leaves counter and full-state clock alone and adds no rows.
LEMMA OnlyCommitsPublish ==
  ASSUME MaxWipes = 0, NumberingInv, [Next]_vars,
         ~(\E h \in Handlers : CommitUpload(h))
  PROVE  /\ rows' \subseteq rows /\ ledger' = ledger
         /\ state'.lastSeq = state.lastSeq
         /\ state'.fullSeq = state.fullSeq /\ state'.fullClk = state.fullClk
<1>1. state \in StateType /\ ~wipe.on /\ wipe.count = 0
  BY DEF NumberingInv, ServerInv, TypeOK, StateType
<1>2. /\ rows' \subseteq rows /\ ledger' = ledger
      /\ \/ state' = state
         \/ \E seq, at : state' = [state EXCEPT !.snapSeq = seq, !.snapAt = at]
  <2>1. CASE \E h \in Handlers : HandlerStep(h)
    <3>1. PICK h \in Handlers : HandlerStep(h)
      BY <2>1
    <3>2. CASE FreeStorage(h) \/ CacheSnapshot(h)
      BY <3>2 DEF FreeStorage, CacheSnapshot
    <3>3. CASE ~FreeStorage(h) /\ ~CacheSnapshot(h)
      BY <3>1, <3>3 DEF HandlerStep, ReceiveRequest, TakeStorageLock, AnswerExistingImport,
         PassImportCheck, RejectForQuota, BeginUpload, ProcessOperation, AbortUpload,
         FinishRequest, FailAfterCommit, Respond
    <3> QED
      BY <3>2, <3>3
  <2>2. CASE Maintenance \/ UNCHANGED vars
    BY <1>1, <2>2 DEF Maintenance, ExpireCache, Restart, SweepStart, SweepDelete, SweepEnd,
                      WipeOps, WipeCommit, WipeAbort, Tick, vars
  <2> QED
    BY <2>1, <2>2 DEF Next
<1>3. ASSUME NEW seq, NEW at, state' = [state EXCEPT !.snapSeq = seq, !.snapAt = at]
      PROVE  /\ state'.lastSeq = state.lastSeq
             /\ state'.fullSeq = state.fullSeq /\ state'.fullClk = state.fullClk
  BY <1>1, <1>3 DEF StateType
<1> QED
  BY <1>2, <1>3

\* The merged clock covers what the transaction sees below its last full-state row.
LEMMA MergedClockCovers ==
  ASSUME ServerInv, NEW h \in Handlers, handler[h].phase = "open", NEW last \in RowType,
         NEW seen \in Visible(h), seen.seq < last.seq
  PROVE  Dominates(MergedFullStateClock(h, last), seen.clk)
<1> DEFINE before == {v \in Visible(h) : v.seq < last.seq}
           clocks == {r.clk : r \in before}
           clk == [r \in before |-> r.clk]
<1>1. Visible(h) \in SUBSET RowType /\ IsFiniteSet(Visible(h))
  BY OpenHandlerFacts, FS_Union, FS_EmptySet DEF Visible
<1>2. before \in SUBSET RowType /\ IsFiniteSet(before)
  <2>1. before \subseteq Visible(h)
    OBVIOUS
  <2> HIDE DEF before
  <2> QED
    BY <1>1, <2>1, FS_Subset
<1>3. clocks \in SUBSET Clock /\ seen.clk \in clocks
  BY <1>2 DEF RowType
<1>4. IsFiniteSet(clocks)
  <2>1. clk \in Surjection(before, clocks)
    BY DEF Surjection
  <2> QED
    BY <1>2, <2>1, FS_Surjection
<1>5. /\ MaxOverClocks(clocks) \in Clock /\ seen.clk \in Clock
      /\ Dominates(MaxOverClocks(clocks), seen.clk)
  BY <1>3, <1>4, AggregateDominates
<1>6. last.op.clock \in Clock
  BY OpsAssumption DEF RowType
<1>7. Dominates(MergeClocks(MaxOverClocks(clocks), last.op.clock), MaxOverClocks(clocks))
  BY <1>5, <1>6, MergeIsLeastUpperBound
<1>8. MergeClocks(MaxOverClocks(clocks), last.op.clock) \in Clock
  BY <1>5, <1>6, MergeType
<1>9. MergedFullStateClock(h, last) = MergeClocks(MaxOverClocks(clocks), last.op.clock)
  BY DEF MergedFullStateClock
<1> HIDE DEF clocks
<1> QED
  BY <1>5, <1>7, <1>8, <1>9 DEF Dominates, Clock

\* A commit leaves the stored clock alone, resets it with the rows it covered, or merges it
\* from everything the transaction sees.
LEMMA CommitKeepsFullClock ==
  ASSUME RefinementInv, FullClockInv, NEW h \in Handlers, CommitUpload(h)
  PROVE  FullClockInv'
<1> DEFINE fresh == handler[h].fresh
           kept == IF handler[h].req.clean THEN [NoState EXCEPT !.lastSeq = state.lastSeq]
                                           ELSE state
           moved == [kept EXCEPT !.lastSeq = @ + Cardinality(fresh)]
           last == CHOOSE r \in FullRows(fresh) : r.seq = MaxSeqOf(FullRows(fresh))
<1>1. /\ ServerInv /\ handler[h].phase = "open" /\ CanCommit(h)
      /\ rows' = fresh \union KeptRows(h) /\ state' = StateAfter(h)
      /\ FullStateClockCovers /\ state.fullSeq <= state.lastSeq /\ CounterCoversRows
  BY DEF RefinementInv, NumberingInv, CommitUpload, FullClockInv
<1>2. /\ state \in StateType /\ NoState \in StateType
      /\ state.lastSeq \in Nat /\ state.fullSeq \in Nat
      /\ fresh \in SUBSET RowType /\ Cardinality(fresh) \in Nat
      /\ \A r \in RowType : r.seq \in Nat
  <2>1. state \in StateType /\ NoState \in StateType
    BY <1>1, NoStateHasType DEF ServerInv, TypeOK, StateType
  <2>2. state.lastSeq \in Nat /\ state.fullSeq \in Nat
    BY <2>1, BoundsAssumption DEF StateType
  <2>3. \A r \in RowType : r.seq \in Nat
    BY BoundsAssumption DEF RowType
  <2>4. fresh \in SUBSET RowType /\ Cardinality(fresh) \in Nat
    BY <1>1, OpenHandlerFacts
  <2> QED
    BY <2>1, <2>2, <2>3, <2>4
<1>3. /\ state'.lastSeq = state.lastSeq + Cardinality(fresh)
      /\ StateAfter(h) = IF FullRows(fresh) = {} THEN moved
                         ELSE [moved EXCEPT !.fullSeq = last.seq,
                                            !.fullClk = MergedFullStateClock(h, last)]
  BY <1>1, StateAfterHasType DEF StateAfter
<1>4. moved \in [lastSeq : Nat, fullSeq : 0..MaxSeq, fullClk : Clock,
                 snapSeq : 0..MaxSeq, snapAt : 0..MaxTime]
      /\ moved.fullSeq = (IF handler[h].req.clean THEN 0 ELSE state.fullSeq)
      /\ moved.fullClk = (IF handler[h].req.clean THEN ZeroClock ELSE state.fullClk)
  <2>1. kept \in StateType /\ kept.lastSeq = state.lastSeq
        /\ kept.fullSeq = (IF handler[h].req.clean THEN 0 ELSE state.fullSeq)
        /\ kept.fullClk = (IF handler[h].req.clean THEN ZeroClock ELSE state.fullClk)
    BY <1>2 DEF StateType, NoState
  <2> HIDE DEF kept
  <2> QED
    BY <1>2, <2>1 DEF StateType
<1>5. CASE ~Writes(h)
  <2>1. fresh = {} /\ ~handler[h].req.clean /\ rows' = rows
    BY <1>1, <1>5 DEF Writes, KeptRows
  <2>2. Cardinality(fresh) = 0
    BY <2>1, FS_EmptySet
  <2>3. state' = moved
    BY <1>1, <1>3, <2>1 DEF FullRows
  <2> HIDE DEF moved
  <2>4. /\ state'.fullSeq = state.fullSeq /\ state'.fullClk = state.fullClk
        /\ state'.lastSeq = state.lastSeq
    BY <1>2, <1>3, <1>4, <2>1, <2>2, <2>3
  <2> QED
    BY <1>1, <2>1, <2>4 DEF FullClockInv, FullStateClockCovers
<1>6. CASE Writes(h)
  <2>1. /\ rows \subseteq handler[h].view
        /\ rows' = fresh \union (IF handler[h].req.clean THEN {} ELSE rows)
        /\ \A new \in fresh : state.lastSeq < new.seq
                              /\ new.seq <= state.lastSeq + Cardinality(fresh)
        /\ \A r \in rows, new \in fresh : r.seq < new.seq
    BY <1>1, <1>6, CommitFacts
  <2>2. CASE FullRows(fresh) = {}
    <3>1. state' = moved
      BY <1>1, <1>3, <2>2
    <3> HIDE DEF moved
    <3>2. /\ state'.fullSeq = (IF handler[h].req.clean THEN 0 ELSE state.fullSeq)
          /\ state'.fullClk = (IF handler[h].req.clean THEN ZeroClock ELSE state.fullClk)
      BY <1>4, <3>1
    <3>3. state'.fullSeq <= state'.lastSeq /\ state'.fullSeq <= state.lastSeq
      BY <1>1, <1>2, <1>3, <3>2
    <3>4. ASSUME NEW r \in rows'
          PROVE  /\ r.seq < state'.fullSeq => Dominates(state'.fullClk, r.clk)
                 /\ r.op.full => r.seq <= state'.fullSeq
      <4>1. CASE r \in fresh
        <5>1. state.lastSeq < r.seq /\ ~r.op.full /\ r.seq \in Nat
          BY <1>2, <2>1, <2>2, <4>1 DEF FullRows
        <5>2. state'.fullSeq \in Nat
          BY <1>2, <3>2
        <5> QED
          BY <1>2, <3>3, <5>1, <5>2
      <4>2. CASE r \notin fresh
        <5>1. r \in rows /\ ~handler[h].req.clean
          BY <2>1, <4>2
        <5> QED
          BY <1>1, <3>2, <5>1 DEF FullStateClockCovers
      <4> QED
        BY <4>1, <4>2
    <3> QED
      BY <3>3, <3>4 DEF FullClockInv, FullStateClockCovers
  <2>3. CASE FullRows(fresh) # {}
    <3>1. FullRows(fresh) \in SUBSET RowType
      BY <1>2 DEF FullRows
    <3>2. /\ \E r \in FullRows(fresh) : r.seq = MaxSeqOf(FullRows(fresh))
          /\ \A r \in FullRows(fresh) : r.seq <= MaxSeqOf(FullRows(fresh))
      BY <2>3, <3>1, GreatestRow
    <3>3. last \in FullRows(fresh) /\ last.seq = MaxSeqOf(FullRows(fresh))
      BY <3>2
    <3>4. last \in fresh /\ last \in RowType
      BY <1>2, <3>3 DEF FullRows
    <3>5. state'.fullSeq = last.seq /\ state'.fullClk = MergedFullStateClock(h, last)
      <4>1. state' = [moved EXCEPT !.fullSeq = last.seq,
                                   !.fullClk = MergedFullStateClock(h, last)]
        BY <1>1, <1>3, <2>3
      <4> HIDE DEF moved, last
      <4> QED
        BY <1>4, <4>1
    <3>6. last.seq <= state'.lastSeq
      BY <1>3, <2>1, <3>4
    <3> HIDE DEF last
    <3>7. ASSUME NEW r \in rows'
          PROVE  /\ r.seq < state'.fullSeq => Dominates(state'.fullClk, r.clk)
                 /\ r.op.full => r.seq <= state'.fullSeq
      <4>1. r \in Visible(h)
        BY <2>1 DEF Visible
      <4>2. r.seq < last.seq => Dominates(state'.fullClk, r.clk)
        BY <1>1, <3>4, <3>5, <4>1, MergedClockCovers
      <4>3. r.op.full => r.seq <= last.seq
        <5>1. CASE r \in fresh
          BY <3>2, <3>3, <5>1 DEF FullRows
        <5>2. CASE r \in rows
          <6>1. r.seq \in Nat /\ last.seq \in Nat /\ r.seq < last.seq
            BY <1>1, <1>2, <2>1, <3>4, <5>2, TableFacts
          <6> QED
            BY <6>1
        <5> QED
          BY <2>1, <5>1, <5>2
      <4> QED
        BY <3>5, <4>2, <4>3
    <3> QED
      BY <3>5, <3>6, <3>7 DEF FullClockInv, FullStateClockCovers
  <2> QED
    BY <2>2, <2>3
<1> QED
  BY <1>5, <1>6

\* A device that starts from the stored clock dominates every older row, so that none of its
\* edits conflicts with what the full-state row has replaced.
THEOREM FullStateClockAlwaysCovers ==
  ASSUME MaxWipes = 0
  PROVE  Spec => []FullStateClockCovers
<1>1. Init => RefinementInv /\ FullClockInv
  BY RefinementIsInductive
     DEF Init, NoState, FullClockInv, FullStateClockCovers
<1>2. ASSUME RefinementInv, FullClockInv, [Next]_vars
      PROVE  RefinementInv' /\ FullClockInv'
  <2>1. RefinementInv'
    BY <1>2, RefinementIsInductive
  <2>2. CASE \E h \in Handlers : CommitUpload(h)
    BY <1>2, <2>1, <2>2, CommitKeepsFullClock
  <2>3. CASE ~(\E h \in Handlers : CommitUpload(h))
    <3>1. /\ rows' \subseteq rows /\ state'.lastSeq = state.lastSeq
          /\ state'.fullSeq = state.fullSeq /\ state'.fullClk = state.fullClk
      BY <1>2, <2>3, OnlyCommitsPublish DEF RefinementInv
    <3>2. FullClockInv'
      BY <1>2, <3>1 DEF FullClockInv, FullStateClockCovers
    <3> QED
      BY <2>1, <3>2
  <2> QED
    BY <2>2, <2>3
<1>3. FullClockInv => FullStateClockCovers
  BY DEF FullClockInv
<1> QED
  BY <1>1, <1>2, <1>3, PTL DEF Spec

-----------------------------------------------------------------------------
(* What is deleted, for users whose account is not wiped *)

CoverageInv == RefinementInv /\ LedgerInv

\* What CoverageInv says of the tables in a form that arithmetic can use.
LEMMA CoverageFacts ==
  ASSUME CoverageInv
  PROVE  /\ rows \subseteq ledger /\ ledger \subseteq RowType
         /\ state.lastSeq \in Nat /\ state.snapSeq \in Nat /\ sweep.seq \in Nat
         /\ state \in StateType
         /\ \A r \in RowType : r.seq \in Nat
         /\ \A r1, r2 \in rows : r1.seq = r2.seq => r1 = r2
<1>1. ServerInv
  BY DEF CoverageInv, RefinementInv, NumberingInv
<1>2. /\ state \in StateType /\ ledger \subseteq RowType
      /\ sweep \in [on : BOOLEAN, seq : 0..MaxSeq, cutoff : 0..MaxTime]
  BY <1>1 DEF ServerInv, TypeOK, StateType
<1>3. state.lastSeq \in Nat /\ state.snapSeq \in Nat /\ sweep.seq \in Nat
  BY <1>2, BoundsAssumption DEF StateType
<1>4. \A r \in RowType : r.seq \in Nat
  BY BoundsAssumption DEF RowType
<1>5. \A r1, r2 \in rows : r1.seq = r2.seq => r1 = r2
  BY <1>1 DEF ServerInv, RowsAreUnique, AreUnique
<1> QED
  BY <1>2, <1>3, <1>4, <1>5 DEF CoverageInv, LedgerInv

\* The handler's reply is as it was.
KeepsReply(g) ==
  handler'[g].phase \in {"open", "committed"} =>
    /\ handler'[g].phase = handler[g].phase /\ handler'[g].req = handler[g].req
    /\ handler'[g].results = handler[g].results /\ handler'[g].fresh = handler[g].fresh

\* A reply that is kept stays published while counter and ledger stay.
LEMMA KeptReplyIsPublished ==
  ASSUME CoverageInv, NEW g \in Handlers, KeepsReply(g),
         state'.lastSeq = state.lastSeq, ledger' = ledger
  PROVE  ReplyIsPublished(g)'
  BY DEF CoverageInv, LedgerInv, ReplyIsPublished, KeepsReply, IsPublished

\* A step that neither accepts nor deletes nor touches the snapshot.
LEMMA CalmStep ==
  ASSUME CoverageInv, UNCHANGED <<rows, state, ledger>>,
         sweep' = sweep \/ ~sweep'.on, \A g \in Handlers : ReplyIsPublished(g)'
  PROVE  LedgerInv'
  BY DEF CoverageInv, LedgerInv, SweepIsHarmless, IsCovered, FullRows

\* A handler that does not write the tables and is not at its transaction afterwards, or has
\* just begun one.
LEMMA HandlerStaysCalm ==
  ASSUME CoverageInv, NEW h \in Handlers, NEW new, handler' = [handler EXCEPT ![h] = new],
         new.phase = "open" => new.results = <<>>, new.phase # "committed",
         UNCHANGED <<rows, state, ledger, sweep>>
  PROVE  LedgerInv'
<1>1. DOMAIN handler = Handlers
  BY DEF CoverageInv, RefinementInv, NumberingInv, ServerInv, TypeOK
<1>2. \A g \in Handlers : g # h => KeepsReply(g)
  BY <1>1 DEF KeepsReply
<1>3. ReplyIsPublished(h)'
  BY <1>1 DEF ReplyIsPublished
<1>4. \A g \in Handlers : ReplyIsPublished(g)'
  BY <1>2, <1>3, KeptReplyIsPublished
<1> QED
  BY <1>4, CalmStep

\* The first result of a batch is the only one so far.
LEMMA AppendToNothing == \A x : Append(<<>>, x) = <<x>>
OBVIOUS

\* Of a snapshot request the only operation is a full-state one, and what is accepted of it
\* is among the rows of the transaction.
LEMMA ProcessKeepsLedger ==
  ASSUME CoverageInv, NEW h \in Handlers, ProcessOperation(h)
  PROVE  LedgerInv'
<1> DEFINE s == handler[h]
           op == s.req.batch[Len(s.results) + 1]
           verdict == Verdict(Visible(h), op, s.ts)
           seq == s.base + Cardinality(s.fresh) + 1
           row == Row(op, s.ts, seq, s.at)
           taken == [s EXCEPT !.results = Append(@, Result(op, verdict, seq)),
                              !.fresh = @ \union {row}]
           refused == [s EXCEPT !.results = Append(@, Result(op, verdict, 0))]
<1>1. /\ s \in HandlerType /\ s.req \in Requests /\ s.phase = "open"
      /\ DOMAIN handler = Handlers /\ Len(s.results) < Len(s.req.batch)
      /\ s.results \in Seq(ResultType)
  BY OpenHandlerFacts
     DEF ProcessOperation, CoverageInv, RefinementInv, NumberingInv, ServerInv, TypeOK, HandlerType
<1>2. UNCHANGED <<rows, state, sweep, ledger>>
  BY DEF ProcessOperation
<1>3. \/ verdict = "ACCEPTED" /\ handler' = [handler EXCEPT ![h] = taken]
      \/ verdict # "ACCEPTED" /\ handler' = [handler EXCEPT ![h] = refused]
  BY <1>1 DEF ProcessOperation
<1>4. /\ taken.phase = "open" /\ refused.phase = "open"
      /\ taken.req = s.req /\ refused.req = s.req
      /\ taken.results = Append(s.results, Result(op, verdict, seq))
      /\ refused.results = Append(s.results, Result(op, verdict, 0))
      /\ row \in taken.fresh
  BY <1>1 DEF HandlerType
<1>5. row.seq = seq /\ row.op = op
  BY DEF Row
<1>6. ASSUME s.req.kind = "snapshot"
      PROVE  s.results = <<>> /\ op.full
  <2>1. Len(s.req.batch) = 1 /\ s.req.batch[1].full
    BY <1>1, <1>6, RequestsAssumption
  <2>2. Len(s.results) = 0
    BY <1>1, <2>1, LenProperties
  <2> QED
    BY <1>1, <2>1, <2>2, EmptySeq
<1>7. ReplyIsPublished(h)'
  <2> HIDE DEF taken, refused, op, verdict, seq, row, s
  <2>1. CASE verdict = "ACCEPTED" /\ handler' = [handler EXCEPT ![h] = taken]
    <3>1. handler'[h] = taken
      BY <1>1, <2>1
    <3>2. ASSUME s.req.kind = "snapshot"
          PROVE  \E r \in taken.fresh : r.op.full /\ r.seq = taken.results[1].seq
      <4>1. taken.results = <<Result(op, verdict, seq)>>
        BY <1>4, <1>6, <3>2, AppendToNothing
      <4> QED
        BY <1>4, <1>5, <1>6, <3>2, <4>1 DEF Result
    <3> QED
      BY <1>4, <3>1, <3>2 DEF ReplyIsPublished
  <2>2. CASE verdict # "ACCEPTED" /\ handler' = [handler EXCEPT ![h] = refused]
    <3>1. handler'[h] = refused
      BY <1>1, <2>2
    <3>2. ASSUME s.req.kind = "snapshot"
          PROVE  refused.results[1].verdict # "ACCEPTED"
      <4>1. refused.results = <<Result(op, verdict, 0)>>
        BY <1>4, <1>6, <3>2, AppendToNothing
      <4> QED
        BY <2>2, <4>1 DEF Result
    <3> QED
      BY <1>4, <3>1, <3>2 DEF ReplyIsPublished
  <2> QED
    BY <1>3, <2>1, <2>2
<1>8. \A g \in Handlers : g # h => KeepsReply(g)
  BY <1>1, <1>3 DEF KeepsReply
<1>9. \A g \in Handlers : ReplyIsPublished(g)'
  BY <1>2, <1>7, <1>8, KeptReplyIsPublished
<1> QED
  BY <1>2, <1>9, CalmStep

\* Results carry natural numbers.
LEMMA FirstResultHasNumber ==
  ASSUME ServerInv, NEW g \in Handlers, handler[g].results # <<>>
  PROVE  handler[g].results[1].seq \in Nat
<1>1. handler[g].results \in Seq(ResultType)
  BY DEF ServerInv, TypeOK, HandlerType
<1>2. handler[g].results[1] \in ResultType
  BY <1>1, EmptySeq, LenProperties, ElementOfSeq
<1> QED
  BY <1>2, BoundsAssumption DEF ResultType

\* A commit publishes rows behind every number so far; a clean slate starts the ledger anew.
LEMMA CommitKeepsLedger ==
  ASSUME CoverageInv, NEW h \in Handlers, CommitUpload(h)
  PROVE  LedgerInv'
<1> DEFINE fresh == handler[h].fresh
           clean == handler[h].req.clean
           new == [IdleHandler EXCEPT !.phase = "committed", !.req = handler[h].req,
                                      !.results = handler[h].results]
<1>1. /\ RefinementInv /\ ServerInv /\ handler[h].phase = "open" /\ CanCommit(h)
      /\ rows' = fresh \union KeptRows(h) /\ state' = StateAfter(h)
      /\ ledger' = fresh \union (IF clean THEN {} ELSE ledger) /\ sweep' = sweep
  BY DEF CoverageInv, RefinementInv, NumberingInv, CommitUpload
<1>2. /\ rows \subseteq ledger /\ ledger \subseteq RowType
      /\ state.lastSeq \in Nat /\ state.snapSeq \in Nat /\ sweep.seq \in Nat
      /\ state \in StateType /\ \A r \in RowType : r.seq \in Nat
  BY CoverageFacts
<1>3. /\ \A r \in ledger : r.seq <= state.lastSeq
      /\ \A r \in ledger \ rows : IsCovered(r.seq)
      /\ state.snapSeq <= state.lastSeq /\ SweepIsHarmless
      /\ \A g \in Handlers : ReplyIsPublished(g)
  BY DEF CoverageInv, LedgerInv
<1>4. /\ fresh \in SUBSET RowType /\ Cardinality(fresh) \in Nat
      /\ state'.lastSeq = state.lastSeq + Cardinality(fresh)
  BY <1>1, OpenHandlerFacts, StateAfterHasType
<1>5. state'.snapSeq = IF clean THEN 0 ELSE state.snapSeq
  <2> DEFINE kept == IF clean THEN [NoState EXCEPT !.lastSeq = state.lastSeq] ELSE state
             moved == [kept EXCEPT !.lastSeq = @ + Cardinality(fresh)]
             last == CHOOSE r \in FullRows(fresh) : r.seq = MaxSeqOf(FullRows(fresh))
             full(seq, clk) == [moved EXCEPT !.fullSeq = seq, !.fullClk = clk]
  <2>1. state' = IF FullRows(fresh) = {} THEN moved
                 ELSE full(last.seq, MergedFullStateClock(h, last))
    BY <1>1 DEF StateAfter
  <2>2. moved.snapSeq = (IF clean THEN 0 ELSE state.snapSeq)
        /\ \A seq, clk : full(seq, clk).snapSeq = moved.snapSeq
    BY <1>2 DEF StateType, NoState
  <2> HIDE DEF moved, full, last
  <2> QED
    BY <2>1, <2>2
<1>6. \A r \in fresh : state.lastSeq < r.seq /\ r.seq <= state'.lastSeq
  BY <1>1, <1>4, CommitFacts DEF Writes
<1>7. rows' = fresh \union (IF clean THEN {} ELSE rows)
  <2>1. CASE Writes(h)
    BY <1>1, <2>1, CommitFacts
  <2>2. CASE ~Writes(h)
    BY <1>1, <2>2 DEF Writes, KeptRows
  <2> QED
    BY <2>1, <2>2
<1>8. rows' \subseteq ledger' /\ ledger' \subseteq RowType
  BY <1>1, <1>2, <1>4, <1>7
<1>9. \A r \in ledger' : r.seq <= state'.lastSeq
  BY <1>1, <1>2, <1>3, <1>4, <1>6
<1>10. \A seq \in Nat : ~clean /\ IsCovered(seq) => IsCovered(seq)'
  BY <1>5, <1>7 DEF IsCovered, FullRows
<1>11. \A r \in ledger' \ rows' : IsCovered(r.seq)'
  BY <1>1, <1>2, <1>3, <1>7, <1>10
<1>12. state'.snapSeq <= state'.lastSeq
  BY <1>2, <1>3, <1>4, <1>5
<1>13. \A seq \in Nat :
         seq <= state.lastSeq /\ (clean \/ \A r \in ledger : r.seq > seq)
           => \A r \in ledger' : r.seq > seq
  BY <1>1, <1>2, <1>4, <1>6
<1>14. SweepIsHarmless'
  BY <1>1, <1>2, <1>3, <1>4, <1>10, <1>13 DEF SweepIsHarmless
<1>15. \A seq \in Nat : seq <= state.lastSeq /\ IsPublished(seq) => IsPublished(seq)'
  BY <1>1, <1>13 DEF IsPublished
<1>16. PICK hs \in {handler, MarkStale(handler)} : handler' = [hs EXCEPT ![h] = new]
  BY DEF CommitUpload
<1>17. /\ DOMAIN hs = Handlers /\ handler[h] \in HandlerType
       /\ \A g \in Handlers :
            /\ hs[g].phase = handler[g].phase /\ hs[g].req = handler[g].req
            /\ hs[g].results = handler[g].results /\ hs[g].fresh = handler[g].fresh
  <2>1. /\ DOMAIN handler = Handlers /\ \A g \in Handlers : handler[g] \in HandlerType
        /\ DOMAIN MarkStale(handler) = Handlers
    BY <1>1 DEF ServerInv, TypeOK, MarkStale
  <2>2. ASSUME NEW g \in Handlers
        PROVE  hs[g] \in {handler[g], [handler[g] EXCEPT !.stale = TRUE]}
    BY <1>16 DEF MarkStale
  <2>3. \A g \in Handlers :
            /\ hs[g].phase = handler[g].phase /\ hs[g].req = handler[g].req
            /\ hs[g].results = handler[g].results /\ hs[g].fresh = handler[g].fresh
    BY <2>1, <2>2 DEF HandlerType
  <2> QED
    BY <1>16, <2>1, <2>3
<1>18. ASSUME NEW g \in Handlers, g # h
       PROVE  ReplyIsPublished(g)'
  <2> DEFINE first == handler[g].results[1]
  <2>1. /\ handler'[g].phase = handler[g].phase /\ handler'[g].req = handler[g].req
        /\ handler'[g].results = handler[g].results /\ handler'[g].fresh = handler[g].fresh
    BY <1>16, <1>17, <1>18
  <2>2. ReplyIsPublished(g)
    BY <1>3
  <2>3. handler[g].results # <<>> => first.seq \in Nat
    BY <1>1, FirstResultHasNumber
  <2>4. first.seq \in Nat /\ first.seq <= state.lastSeq => first.seq <= state'.lastSeq
    BY <1>2, <1>4
  <2> QED
    BY <1>15, <2>1, <2>2, <2>3, <2>4 DEF ReplyIsPublished
<1>19. ReplyIsPublished(h)'
  <2>1. handler'[h] = new
    BY <1>16, <1>17
  <2>2. new.phase = "committed" /\ new.req = handler[h].req /\ new.results = handler[h].results
    BY DEF IdleHandler
  <2>3. ASSUME handler[h].req.kind = "snapshot", handler[h].results # <<>>,
               handler[h].results[1].verdict = "ACCEPTED"
        PROVE  /\ handler[h].results[1].seq <= state'.lastSeq
               /\ \E r \in ledger' : r.op.full /\ r.seq = handler[h].results[1].seq
    <3>1. PICK r \in fresh : r.op.full /\ r.seq = handler[h].results[1].seq
      BY <1>1, <1>3, <2>3 DEF ReplyIsPublished
    <3>2. r \in ledger' /\ r.seq <= state'.lastSeq
      BY <1>1, <1>6, <3>1
    <3> QED
      BY <3>1, <3>2
  <2> HIDE DEF new
  <2> QED
    BY <2>1, <2>2, <2>3 DEF ReplyIsPublished, IsPublished
<1> QED
  BY <1>8, <1>9, <1>11, <1>12, <1>14, <1>18, <1>19 DEF LedgerInv

\* Deleting the beginning of the table up to a full-state row that a newer one replaces.
LEMMA FreeStorageKeepsLedger ==
  ASSUME CoverageInv, NEW h \in Handlers, FreeStorage(h)
  PROVE  LedgerInv'
<1>1. PICK oldest \in FullRows(rows) :
        /\ \E second \in FullRows(rows) : oldest.seq < second.seq
        /\ rows' = {r \in rows : r.seq > oldest.seq}
        /\ state' = IF state.snapSeq <= oldest.seq
                    THEN [state EXCEPT !.snapSeq = 0, !.snapAt = 0] ELSE state
  BY DEF FreeStorage, IsSpareRestorePoint
<1>2. handler' = MarkStale(handler) /\ UNCHANGED <<sweep, ledger>>
  BY DEF FreeStorage
<1>3. /\ rows \subseteq ledger /\ ledger \subseteq RowType
      /\ state.lastSeq \in Nat /\ state.snapSeq \in Nat /\ sweep.seq \in Nat
      /\ state \in StateType /\ \A r \in RowType : r.seq \in Nat
      /\ oldest.seq \in Nat /\ \A r \in rows : r.seq \in Nat
  BY CoverageFacts DEF FullRows
<1>4. /\ state'.lastSeq = state.lastSeq
      /\ state'.snapSeq = (IF state.snapSeq <= oldest.seq THEN 0 ELSE state.snapSeq)
  BY <1>1, <1>3 DEF StateType
<1>5. PICK second \in FullRows(rows') : oldest.seq < second.seq
  BY <1>1 DEF FullRows
<1>6. \A r \in FullRows(rows) : r \in FullRows(rows') \/ r.seq <= oldest.seq
  BY <1>1, <1>3 DEF FullRows
<1>7. second.seq \in Nat
  BY <1>1, <1>3, <1>5 DEF FullRows
<1>8. ASSUME NEW seq \in Nat, IsCovered(seq)
      PROVE  IsCovered(seq)'
  <2>1. CASE seq <= oldest.seq
    BY <1>3, <1>5, <1>7, <2>1 DEF IsCovered
  <2>2. CASE ~(seq <= oldest.seq)
    <3>1. \A r \in FullRows(rows) : seq < r.seq => r \in FullRows(rows')
      BY <1>3, <1>6, <2>2 DEF FullRows
    <3>2. seq <= state.snapSeq => seq <= state'.snapSeq
      BY <1>3, <1>4, <2>2
    <3> QED
      BY <1>8, <3>1, <3>2 DEF IsCovered
  <2> QED
    BY <2>1, <2>2
<1>9. ASSUME NEW r \in ledger' \ rows'
      PROVE  IsCovered(r.seq)'
  <2>1. CASE r \in rows
    <3>1. r.seq <= oldest.seq /\ r.seq \in Nat
      BY <1>1, <1>3, <1>9, <2>1
    <3> QED
      BY <1>3, <1>5, <1>7, <3>1 DEF IsCovered
  <2>2. CASE r \notin rows
    BY <1>2, <1>3, <1>8, <1>9, <2>2 DEF CoverageInv, LedgerInv
  <2> QED
    BY <2>1, <2>2
<1>10. SweepIsHarmless'
  BY <1>2, <1>3, <1>4, <1>8 DEF SweepIsHarmless, CoverageInv, LedgerInv
<1>11. ASSUME NEW g \in Handlers
       PROVE  ReplyIsPublished(g)'
  <2>1. handler[g] \in HandlerType
    BY DEF CoverageInv, RefinementInv, NumberingInv, ServerInv, TypeOK
  <2>2. KeepsReply(g)
    BY <1>2, <2>1 DEF KeepsReply, MarkStale, HandlerType
  <2> QED
    BY <1>2, <1>4, <2>2, KeptReplyIsPublished
<1>12. rows' \subseteq ledger' /\ (\A r \in ledger' : r.seq <= state'.lastSeq)
       /\ state'.snapSeq <= state'.lastSeq
  BY <1>1, <1>2, <1>3, <1>4 DEF CoverageInv, LedgerInv
<1> QED
  BY <1>9, <1>10, <1>11, <1>12 DEF LedgerInv

\* The retention job deletes what its copy covers.  It takes the newest full-state row only if
\* the cached snapshot is at least as new as that copy.
LEMMA SweepKeepsLedger ==
  ASSUME CoverageInv, SweepDelete
  PROVE  LedgerInv'
<1>1. PICK doomed \in rows : IsDoomed(doomed) /\ rows' = rows \ {doomed}
  BY DEF SweepDelete
<1>2. UNCHANGED <<state, handler, sweep, ledger>> /\ sweep.on
  BY DEF SweepDelete
<1>3. /\ rows \subseteq ledger /\ ledger \subseteq RowType
      /\ state.lastSeq \in Nat /\ state.snapSeq \in Nat /\ sweep.seq \in Nat
      /\ \A r \in ledger : r.seq \in Nat
  BY CoverageFacts
<1>4. doomed \in ledger /\ doomed.seq \in Nat /\ doomed.seq <= sweep.seq
  BY <1>1, <1>3 DEF IsDoomed
<1>5. IsCovered(sweep.seq)
  BY <1>2, <1>3, <1>4 DEF SweepIsHarmless, CoverageInv, LedgerInv
<1>6. \A r \in FullRows(rows) : r \in FullRows(rows') \/ r = doomed
  BY <1>1 DEF FullRows
<1>7. ASSUME NEW seq \in Nat, IsCovered(seq)
      PROVE  IsCovered(seq)'
  <2>1. CASE sweep.seq <= state.snapSeq
    <3>1. seq < doomed.seq => seq <= state.snapSeq
      BY <1>3, <1>4, <2>1
    <3> QED
      BY <1>2, <1>6, <1>7, <3>1 DEF IsCovered
  <2>2. CASE \E r \in FullRows(rows) : sweep.seq < r.seq
    <3>1. PICK newer \in FullRows(rows) : sweep.seq < newer.seq
      BY <2>2
    <3>2. newer.seq \in Nat
      BY <1>3 DEF FullRows
    <3>3. newer \in FullRows(rows')
      BY <1>3, <1>4, <1>6, <3>1, <3>2
    <3>4. seq < doomed.seq => seq < newer.seq
      BY <1>3, <1>4, <3>1, <3>2
    <3> QED
      BY <1>2, <1>6, <1>7, <3>3, <3>4 DEF IsCovered
  <2> QED
    BY <1>5, <2>1, <2>2 DEF IsCovered
<1>8. IsCovered(doomed.seq)'
  <2>1. IsCovered(doomed.seq)
    <3>1. \A r \in FullRows(rows) : r.seq \in Nat
      BY <1>3 DEF FullRows
    <3> QED
      BY <1>3, <1>4, <1>5, <3>1 DEF IsCovered
  <2> QED
    BY <1>4, <1>7, <2>1
<1>9. \A r \in ledger' \ rows' : IsCovered(r.seq)'
  BY <1>1, <1>2, <1>3, <1>7, <1>8 DEF CoverageInv, LedgerInv
<1>10. SweepIsHarmless'
  BY <1>2, <1>3, <1>5, <1>7 DEF SweepIsHarmless, CoverageInv, LedgerInv
<1>11. \A g \in Handlers : ReplyIsPublished(g)'
  BY <1>2, KeptReplyIsPublished DEF KeepsReply
<1>12. rows' \subseteq ledger' /\ (\A r \in ledger' : r.seq <= state'.lastSeq)
       /\ state'.snapSeq <= state'.lastSeq
  BY <1>1, <1>2, <1>3 DEF CoverageInv, LedgerInv
<1> QED
  BY <1>9, <1>10, <1>11, <1>12 DEF LedgerInv

\* Caching a snapshot moves the mark up.  Clearing it is safe, as the row it would have been
\* made of is a full-state row that is there or is covered itself.
LEMMA CacheSnapshotKeepsLedger ==
  ASSUME CoverageInv, NEW h \in Handlers, CacheSnapshot(h)
  PROVE  LedgerInv'
<1> DEFINE seq == handler[h].results[1].seq
<1>1. /\ handler[h].phase = "committed" /\ handler[h].req.kind = "snapshot"
      /\ handler[h].results[1].verdict = "ACCEPTED" /\ UNCHANGED <<rows, sweep, ledger>>
  BY DEF CacheSnapshot, MustCacheSnapshot
<1>2. /\ rows \subseteq ledger /\ ledger \subseteq RowType
      /\ state.lastSeq \in Nat /\ state.snapSeq \in Nat /\ sweep.seq \in Nat
      /\ state \in StateType /\ \A r \in ledger : r.seq \in Nat
  BY CoverageFacts
<1>3. /\ ServerInv /\ handler[h].results # <<>> /\ DOMAIN handler = Handlers
      /\ \A g \in Handlers : handler[g] \in HandlerType
  <2>1. /\ ServerInv /\ handler[h].req \in Requests /\ handler[h].results \in Seq(ResultType)
        /\ Len(handler[h].results) = Len(handler[h].req.batch)
    BY <1>1 DEF CoverageInv, RefinementInv, NumberingInv, ServerInv, TypeOK, HandlerType,
                HandlerInv, KnowsRequest
  <2>2. Len(handler[h].results) = 1
    BY <1>1, <2>1, RequestsAssumption
  <2>3. handler[h].results # <<>>
    <3>1. Len(<<>>) = 0
      OBVIOUS
    <3> QED
      BY <2>2, <3>1
  <2> QED
    BY <2>1, <2>3 DEF ServerInv, TypeOK
<1>4. seq \in Nat /\ seq <= state.lastSeq /\ IsPublished(seq)
  BY <1>1, <1>3, FirstResultHasNumber DEF CoverageInv, LedgerInv, ReplyIsPublished
<1>5. \/ state'.snapSeq = state.snapSeq
      \/ state.snapSeq < seq /\ state'.snapSeq \in {0, seq}
  <2>1. \/ state' = state
        \/ state.snapSeq < seq /\ state' \in {[state EXCEPT !.snapSeq = seq, !.snapAt = now],
                                              [state EXCEPT !.snapSeq = 0, !.snapAt = 0]}
    BY DEF CacheSnapshot
  <2> QED
    BY <1>2, <2>1 DEF StateType
<1>6. state'.lastSeq = state.lastSeq
  <2>1. \/ state' = state
        \/ \E n, at : state' = [state EXCEPT !.snapSeq = n, !.snapAt = at]
    BY DEF CacheSnapshot
  <2> QED
    BY <1>2, <2>1 DEF StateType
<1>7. \/ \E r \in FullRows(rows) : seq <= r.seq
      \/ seq <= state.snapSeq
      \/ \A r \in ledger : r.seq > seq
  <2>1. ASSUME NEW x \in ledger, x.op.full, x.seq = seq
        PROVE  (\E r \in FullRows(rows) : seq <= r.seq) \/ seq <= state.snapSeq
    <3>1. CASE x \in rows
      BY <1>4, <2>1, <3>1 DEF FullRows
    <3>2. CASE x \notin rows
      <4>1. IsCovered(seq)
        BY <2>1, <3>2 DEF CoverageInv, LedgerInv
      <4>2. \A r \in FullRows(rows) : r.seq \in Nat
        BY <1>2 DEF FullRows
      <4> QED
        BY <1>4, <4>1, <4>2 DEF IsCovered
    <3> QED
      BY <3>1, <3>2
  <2> QED
    BY <1>4, <2>1 DEF IsPublished
<1>8. ASSUME NEW n \in Nat, IsCovered(n), \E r \in ledger : r.seq <= n
      PROVE  IsCovered(n)'
  <2>1. CASE \E r \in FullRows(rows) : n < r.seq
    BY <1>1, <2>1 DEF IsCovered
  <2>2. CASE n <= state.snapSeq /\ state'.snapSeq # 0
    BY <1>1, <1>2, <1>4, <1>5, <2>2 DEF IsCovered
  <2>3. CASE n <= state.snapSeq /\ state'.snapSeq = 0 /\ state.snapSeq < seq
    <3>1. ~(\A r \in ledger : r.seq > seq) /\ ~(seq <= state.snapSeq)
      BY <1>2, <1>4, <1>8, <2>3
    <3>2. PICK r \in FullRows(rows) : seq <= r.seq
      BY <1>7, <3>1
    <3>3. r.seq \in Nat /\ n < r.seq
      BY <1>2, <1>4, <2>3, <3>2 DEF FullRows
    <3> QED
      BY <1>1, <3>3 DEF IsCovered
  <2>4. CASE n <= state.snapSeq /\ state'.snapSeq = state.snapSeq
    BY <2>4 DEF IsCovered
  <2> QED
    BY <1>5, <1>8, <2>1, <2>2, <2>3, <2>4 DEF IsCovered
<1>9. \A r \in ledger' \ rows' : IsCovered(r.seq)'
  BY <1>1, <1>2, <1>8 DEF CoverageInv, LedgerInv
<1>10. SweepIsHarmless'
  <2>1. sweep.on => /\ sweep.seq <= state.lastSeq
                    /\ IsCovered(sweep.seq) \/ \A r \in ledger : r.seq > sweep.seq
    BY DEF CoverageInv, LedgerInv, SweepIsHarmless
  <2>2. (\A r \in ledger : r.seq > sweep.seq) \/ (\E r \in ledger : r.seq <= sweep.seq)
    BY <1>2
  <2> QED
    BY <1>1, <1>2, <1>6, <1>8, <2>1, <2>2 DEF SweepIsHarmless
<1>11. \A g \in Handlers : ReplyIsPublished(g)'
  <2>1. PICK hs \in {handler, MarkStale(handler)} :
          handler' = [hs EXCEPT ![h].phase = "snapshotted"]
    BY DEF CacheSnapshot
  <2>2. DOMAIN hs = Handlers /\ hs[h] = handler[h]
    BY <1>1, <1>3, <2>1 DEF MarkStale
  <2>3. handler'[h].phase = "snapshotted"
    BY <1>3, <2>1, <2>2 DEF HandlerType
  <2>4. ASSUME NEW g \in Handlers, g # h
        PROVE  KeepsReply(g)
    <3>1. handler'[g] \in {handler[g], MarkStale(handler)[g]}
      BY <2>1, <2>2, <2>4
    <3> QED
      BY <1>3, <3>1 DEF KeepsReply, MarkStale, HandlerType
  <2>5. KeepsReply(h)
    BY <2>3 DEF KeepsReply
  <2> QED
    BY <1>1, <1>6, <2>4, <2>5, KeptReplyIsPublished
<1>12. rows' \subseteq ledger' /\ (\A r \in ledger' : r.seq <= state'.lastSeq)
       /\ state'.snapSeq <= state'.lastSeq
  BY <1>1, <1>2, <1>4, <1>5, <1>6 DEF CoverageInv, LedgerInv
<1> QED
  BY <1>9, <1>10, <1>11, <1>12 DEF LedgerInv

\* The remaining steps of a handler end its transaction, or come before it.
LEMMA HandlerKeepsLedger ==
  ASSUME CoverageInv, NEW h \in Handlers, HandlerStep(h)
  PROVE  LedgerInv'
<1>1. handler[h] \in HandlerType /\ DOMAIN handler = Handlers
  BY DEF CoverageInv, RefinementInv, NumberingInv, ServerInv, TypeOK
<1>2. CASE \E req \in Requests : ReceiveRequest(h, req)
  <2>1. PICK req \in Requests : ReceiveRequest(h, req)
    BY <1>2
  <2> DEFINE received(ts) == [IdleHandler EXCEPT !.phase = "received", !.req = req, !.ts = ts]
             cached(results) ==
               [IdleHandler EXCEPT !.phase = "done", !.req = req, !.results = results]
  <2>2. \E new : handler' = [handler EXCEPT ![h] = new] /\ new.phase \in {"received", "done"}
    <3>1. (\E ts : handler' = [handler EXCEPT ![h] = received(ts)])
            \/ \E results : handler' = [handler EXCEPT ![h] = cached(results)]
      BY <2>1 DEF ReceiveRequest
    <3>2. \A any : received(any).phase = "received" /\ cached(any).phase = "done"
      BY DEF IdleHandler
    <3> HIDE DEF received, cached
    <3> QED
      BY <3>1, <3>2
  <2> QED
    BY <2>1, <2>2, HandlerStaysCalm DEF ReceiveRequest
<1>3. CASE TakeStorageLock(h) \/ PassImportCheck(h)
  <2>1. PICK phase \in {"locked", "checked"} :
          handler' = [handler EXCEPT ![h] = [handler[h] EXCEPT !.phase = phase]]
    BY <1>1, <1>3 DEF TakeStorageLock, PassImportCheck
  <2>2. [handler[h] EXCEPT !.phase = phase].phase = phase
    BY <1>1 DEF HandlerType
  <2> QED
    BY <1>3, <2>1, <2>2, HandlerStaysCalm DEF TakeStorageLock, PassImportCheck
<1>4. CASE AnswerExistingImport(h)
  <2>1. \E results : handler' = [handler EXCEPT ![h] =
           [handler[h] EXCEPT !.phase = "done", !.results = results]]
    BY <1>1, <1>4 DEF AnswerExistingImport
  <2>2. PICK results : handler' = [handler EXCEPT ![h] =
           [handler[h] EXCEPT !.phase = "done", !.results = results]]
    BY <2>1
  <2>3. [handler[h] EXCEPT !.phase = "done", !.results = results].phase = "done"
    BY <1>1 DEF HandlerType
  <2> QED
    BY <1>4, <2>2, <2>3, HandlerStaysCalm DEF AnswerExistingImport
<1>5. CASE BeginUpload(h)
  <2> DEFINE new == [handler[h] EXCEPT !.phase = "open", !.view = rows, !.at = now,
                                       !.base = state.lastSeq]
  <2>1. handler' = [handler EXCEPT ![h] = new] /\ UNCHANGED <<rows, state, ledger, sweep>>
    BY <1>1, <1>5 DEF BeginUpload
  <2>2. handler[h].phase \in {"locked", "checked"}
    BY <1>5 DEF BeginUpload, MayUpload
  <2>3. handler[h].results = <<>>
    BY <2>2 DEF CoverageInv, RefinementInv, NumberingInv, ServerInv, HandlerInv, LockedIsFresh
  <2>4. new.phase = "open" /\ new.results = <<>>
    BY <1>1, <2>3 DEF HandlerType
  <2> HIDE DEF new
  <2> QED
    BY <2>1, <2>4, HandlerStaysCalm
<1>6. CASE AbortUpload(h) \/ FinishRequest(h)
  <2>1. \E results : handler' = [handler EXCEPT ![h] = [IdleHandler EXCEPT
           !.phase = "done", !.req = handler[h].req, !.results = results]]
    BY <1>6 DEF AbortUpload, FinishRequest
  <2>2. PICK results : handler' = [handler EXCEPT ![h] = [IdleHandler EXCEPT
           !.phase = "done", !.req = handler[h].req, !.results = results]]
    BY <2>1
  <2>3. [IdleHandler EXCEPT !.phase = "done", !.req = handler[h].req,
                            !.results = results].phase = "done"
    BY DEF IdleHandler
  <2> QED
    BY <1>6, <2>2, <2>3, HandlerStaysCalm DEF AbortUpload, FinishRequest
<1>7. CASE RejectForQuota(h) \/ FailAfterCommit(h) \/ Respond(h)
  <2>1. IdleHandler.phase = "idle"
    BY DEF IdleHandler
  <2> QED
    BY <1>7, <2>1, HandlerStaysCalm DEF RejectForQuota, FailAfterCommit, Respond
<1>8. CASE FreeStorage(h) \/ ProcessOperation(h) \/ CommitUpload(h) \/ CacheSnapshot(h)
  BY <1>8, FreeStorageKeepsLedger, ProcessKeepsLedger, CommitKeepsLedger,
     CacheSnapshotKeepsLedger
<1> QED
  BY <1>2, <1>3, <1>4, <1>5, <1>6, <1>7, <1>8 DEF HandlerStep

\* A row leaves the table only when a newer full-state row or the cached snapshot stands for
\* it, however the quota cleanup of the uploads, the retention job, which works from a
\* copy, and the replacement of the snapshot interleave.
THEOREM DeletedStaysCovered ==
  ASSUME MaxWipes = 0
  PROVE  Spec => []DeletedIsCovered
<1>1. Init => CoverageInv
  <2> SUFFICES ASSUME Init PROVE LedgerInv
    BY RefinementIsInductive DEF CoverageInv
  <2> QED
    BY DEF Init, NoState, NoSweep, IdleHandler, LedgerInv, SweepIsHarmless, ReplyIsPublished
<1>2. ASSUME CoverageInv, [Next]_vars
      PROVE  CoverageInv'
  <2>1. RefinementInv' /\ ~wipe.on /\ wipe.count = 0
    BY <1>2, RefinementIsInductive
       DEF CoverageInv, RefinementInv, NumberingInv, ServerInv, TypeOK
  <2>2. CASE \E h \in Handlers : HandlerStep(h)
    BY <1>2, <2>1, <2>2, HandlerKeepsLedger DEF CoverageInv
  <2>3. CASE SweepDelete
    BY <1>2, <2>1, <2>3, SweepKeepsLedger DEF CoverageInv
  <2>4. CASE \E cutoff \in 2..MaxTime : SweepStart(cutoff)
    <3>1. /\ sweep'.on /\ sweep'.seq = state.snapSeq
          /\ UNCHANGED <<rows, state, handler, ledger>>
      BY <2>4 DEF SweepStart
    <3>2. \A g \in Handlers : ReplyIsPublished(g)'
      BY <1>2, <3>1, KeptReplyIsPublished DEF KeepsReply
    <3>3. SweepIsHarmless'
      BY <1>2, <3>1, CoverageFacts DEF SweepIsHarmless, IsCovered, CoverageInv, LedgerInv
    <3> QED
      BY <1>2, <2>1, <3>1, <3>2, <3>3 DEF CoverageInv, LedgerInv, IsCovered, FullRows
  <2>5. CASE ExpireCache \/ SweepEnd \/ Tick \/ UNCHANGED vars \/ \E inst \in Instances : Restart(inst)
    <3>1. UNCHANGED <<rows, state, ledger>> /\ (sweep' = sweep \/ ~sweep'.on)
      BY <2>5 DEF ExpireCache, SweepEnd, Tick, Restart, NoSweep, vars
    <3>2. ASSUME NEW g \in Handlers
          PROVE  ReplyIsPublished(g)'
      <4>1. handler'[g] \in {IdleHandler, handler[g]}
        BY <2>5 DEF ExpireCache, SweepEnd, Tick, Restart, vars
      <4>2. KeepsReply(g)
        BY <4>1 DEF KeepsReply, IdleHandler
      <4> QED
        BY <1>2, <3>1, <4>2, KeptReplyIsPublished
    <3> QED
      BY <1>2, <2>1, <3>1, <3>2, CalmStep DEF CoverageInv
  <2>6. ~WipeOps /\ ~WipeAbort /\ ~(\E inst \in Instances : WipeCommit(inst))
    BY <2>1 DEF WipeOps, WipeAbort, WipeCommit
  <2> QED
    BY <1>2, <2>2, <2>3, <2>4, <2>5, <2>6 DEF Next, Maintenance
<1>3. ASSUME CoverageInv
      PROVE  DeletedIsCovered
  <2>1. ASSUME NEW r \in ledger \ rows
        PROVE  r.seq < MaxSeqOf(FullRows(rows)) \/ r.seq <= state.snapSeq
    <3>1. IsCovered(r.seq) /\ r.seq \in Nat
      BY <1>3, <2>1, CoverageFacts DEF CoverageInv, LedgerInv
    <3>2. ASSUME NEW full \in FullRows(rows), r.seq < full.seq
          PROVE  r.seq < MaxSeqOf(FullRows(rows))
      <4>1. FullRows(rows) \in SUBSET RowType /\ full.seq \in Nat
        BY <1>3, CoverageFacts DEF FullRows
      <4>2. full.seq <= MaxSeqOf(FullRows(rows)) /\ MaxSeqOf(FullRows(rows)) \in 1..MaxSeq
        BY <3>2, <4>1, GreatestRow
      <4> QED
        BY <3>1, <3>2, <4>1, <4>2, BoundsAssumption
    <3> QED
      BY <3>1, <3>2 DEF IsCovered
  <2> QED
    BY <2>1 DEF DeletedIsCovered
<1> QED
  BY <1>1, <1>2, <1>3, PTL DEF Spec

-----------------------------------------------------------------------------
(* The request cache, on one process and for users whose account is not wiped *)

CacheInv == ImportInv /\ RepliesAreStored /\ rows \subseteq ledger

AtWork == {"open", "committed", "snapshotted"}

\* The handler stays where it is, ends its work or goes on from its commit.
KeepsWork(g) ==
  handler'[g].phase \in AtWork =>
    /\ handler[g].phase \in AtWork
    /\ handler'[g].phase = "open" <=> handler[g].phase = "open"
    /\ handler'[g].req = handler[g].req /\ handler'[g].results = handler[g].results
    /\ handler'[g].fresh = handler[g].fresh /\ handler'[g].view = handler[g].view

\* What a handler knows of stored rows stays true while rows are only deleted.
LEMMA KeptWorkIsStored ==
  ASSUME CacheInv, NEW g \in Handlers, KeepsWork(g), rows' \subseteq rows, ledger' = ledger
  PROVE  ReplyIsStored(g)'
<1>1. ReplyIsStored(g)
  BY DEF CacheInv, RepliesAreStored
<1>2. CASE handler'[g].phase = "open"
  BY <1>1, <1>2 DEF ReplyIsStored, KeepsWork, AtWork, KnowsDuplicates, AreStoredIn, AreUnique
<1>3. CASE handler'[g].phase \in {"committed", "snapshotted"}
  <2>1. /\ handler[g].phase \in {"committed", "snapshotted"}
        /\ handler'[g].req = handler[g].req /\ handler'[g].results = handler[g].results
    BY <1>3 DEF KeepsWork, AtWork
  <2>2. AreStoredIn(handler[g].results, ledger) /\ KnowsDuplicates(g, rows)
    BY <1>1, <2>1 DEF ReplyIsStored
  <2> QED
    BY <1>3, <2>1, <2>2 DEF ReplyIsStored, KnowsDuplicates, AreStoredIn
<1> QED
  BY <1>2, <1>3 DEF ReplyIsStored

\* Steps that keep every handler at its work keep the replies and the cache true.
LEMMA WorkGoesOn ==
  ASSUME CacheInv, rows' \subseteq rows, ledger' = ledger, cache' \subseteq cache,
         \A g \in Handlers : KeepsWork(g)
  PROVE  RepliesAreStored'
<1>1. \A g \in Handlers : ReplyIsStored(g)'
  BY KeptWorkIsStored
<1>2. CachedResultsAreStored'
  BY DEF CacheInv, RepliesAreStored, CachedResultsAreStored
<1> QED
  BY <1>1, <1>2 DEF RepliesAreStored

\* A handler that is not at work afterwards has nothing to answer for.
LEMMA HandlerLeavesWork ==
  ASSUME CacheInv, NEW h \in Handlers, NEW new, handler' = [handler EXCEPT ![h] = new],
         new.phase \notin AtWork, UNCHANGED <<rows, ledger>>, cache' \subseteq cache
  PROVE  RepliesAreStored'
<1>1. DOMAIN handler = Handlers
  BY DEF CacheInv, ImportInv, ServerInv, TypeOK
<1>2. \A g \in Handlers : KeepsWork(g)
  BY <1>1 DEF KeepsWork
<1> QED
  BY <1>2, WorkGoesOn

\* A transaction begins with the whole table in view and nothing accepted.
LEMMA BeginKeepsReplies ==
  ASSUME CacheInv, NEW h \in Handlers, BeginUpload(h)
  PROVE  RepliesAreStored'
<1> DEFINE new == [handler[h] EXCEPT !.phase = "open", !.view = rows, !.at = now,
                                     !.base = state.lastSeq]
<1>1. /\ handler[h] \in HandlerType /\ DOMAIN handler = Handlers
      /\ handler[h].results = <<>> /\ RowsAreUnique
  BY DEF BeginUpload, MayUpload, CacheInv, ImportInv, ServerInv, TypeOK, HandlerInv, LockedIsFresh
<1>2. handler' = [handler EXCEPT ![h] = new] /\ UNCHANGED <<rows, ledger, cache>>
  BY <1>1 DEF BeginUpload
<1>3. handler'[h] = new /\ new.phase = "open" /\ new.view = rows /\ new.results = <<>>
  BY <1>1, <1>2 DEF HandlerType
<1> HIDE DEF new
<1>4. AreUnique(rows)
  BY <1>1 DEF RowsAreUnique, AreUnique
<1>5. DOMAIN <<>> = {}
  OBVIOUS
<1>6. ReplyIsStored(h)'
  BY <1>2, <1>3, <1>4, <1>5 DEF ReplyIsStored, AreStoredIn, KnowsDuplicates, AreUnique
<1>7. \A g \in Handlers : g # h => KeepsWork(g)
  BY <1>1, <1>2 DEF KeepsWork
<1>8. \A g \in Handlers : ReplyIsStored(g)'
  BY <1>2, <1>6, <1>7, KeptWorkIsStored
<1> QED
  BY <1>2, <1>8 DEF CacheInv, RepliesAreStored, CachedResultsAreStored

\* A duplicate is one of a row that is visible.
LEMMA DuplicateIsKnown ==
  ASSUME NEW table, NEW op, NEW ts, Verdict(table, op, ts) = "DUPLICATE_OPERATION"
  PROVE  \E r \in table : r.op = op /\ r.op.id = op.id
<1> DEFINE known == {r \in table : r.op.id = op.id}
<1>1. CASE ~op.valid
  BY <1>1 DEF Verdict
<1>2. CASE op.valid /\ \E r \in known : SameOperation(r, op, ts)
  BY <1>2 DEF SameOperation
<1>3. CASE op.valid /\ known # {} /\ \A r \in known : ~SameOperation(r, op, ts)
  BY <1>3 DEF Verdict
<1>4. CASE op.valid /\ known = {}
  <2>1. CASE DetectConflict(table, op)
    BY <1>4, <2>1 DEF Verdict
  <2>2. CASE ~DetectConflict(table, op)
    BY <1>4, <2>2 DEF Verdict
  <2> QED
    BY <2>1, <2>2
<1> QED
  BY <1>1, <1>2, <1>3, <1>4

\* What is accepted joins the rows of the transaction under the number of its result, and a
\* duplicate is a row the transaction sees.
LEMMA ProcessKeepsReplies ==
  ASSUME CacheInv, NEW h \in Handlers, ProcessOperation(h)
  PROVE  RepliesAreStored'
<1> DEFINE s == handler[h]
           op == s.req.batch[Len(s.results) + 1]
           verdict == Verdict(Visible(h), op, s.ts)
           seq == s.base + Cardinality(s.fresh) + 1
           row == Row(op, s.ts, seq, s.at)
           accepted == Result(op, verdict, seq)
           other == Result(op, verdict, 0)
           taken == [s EXCEPT !.results = Append(@, accepted), !.fresh = @ \union {row}]
           refused == [s EXCEPT !.results = Append(@, other)]
<1>1. /\ s \in HandlerType /\ s.req \in Requests /\ s.phase = "open"
      /\ DOMAIN handler = Handlers /\ Len(s.results) < Len(s.req.batch)
      /\ s.results \in Seq(ResultType)
  BY OpenHandlerFacts DEF ProcessOperation, CacheInv, ImportInv, ServerInv, TypeOK, HandlerType
<1>2. UNCHANGED <<rows, ledger, cache>>
  BY DEF ProcessOperation
<1>3. \/ verdict = "ACCEPTED" /\ handler' = [handler EXCEPT ![h] = taken]
      \/ verdict # "ACCEPTED" /\ handler' = [handler EXCEPT ![h] = refused]
  BY <1>1 DEF ProcessOperation
<1>4. /\ taken.phase = "open" /\ refused.phase = "open"
      /\ taken.req = s.req /\ refused.req = s.req
      /\ taken.view = s.view /\ refused.view = s.view
      /\ taken.results = Append(s.results, accepted)
      /\ refused.results = Append(s.results, other)
      /\ taken.fresh = s.fresh \union {row} /\ refused.fresh = s.fresh
  BY <1>1 DEF HandlerType
<1>5. /\ row.seq = seq /\ row.op = op
      /\ accepted.op = op /\ accepted.seq = seq /\ accepted.verdict = verdict
      /\ other.op = op /\ other.verdict = verdict
  BY DEF Row, Result
<1>6. /\ rows \subseteq s.view /\ AreUnique(s.view)
      /\ AreStoredIn(s.results, s.fresh)
      /\ KnowsDuplicates(h, s.view \union s.fresh)
  BY <1>1 DEF CacheInv, RepliesAreStored, ReplyIsStored
<1>7. \A i \in DOMAIN s.results : s.results[i] \in ResultType
  BY <1>1, ElementOfSeq, LenProperties
<1>8. ASSUME NEW x
      PROVE  \A i \in DOMAIN Append(s.results, x) :
               \/ i \in DOMAIN s.results /\ Append(s.results, x)[i] = s.results[i]
               \/ Append(s.results, x)[i] = x
  <2>1. s.results \in Seq(ResultType \union {x})
    BY <1>1
  <2>2. /\ Len(Append(s.results, x)) = Len(s.results) + 1
        /\ Append(s.results, x) \in Seq(ResultType \union {x})
        /\ \A i \in 1..Len(s.results) : Append(s.results, x)[i] = s.results[i]
        /\ Append(s.results, x)[Len(s.results) + 1] = x
    BY <2>1, AppendProperties
  <2>3. /\ DOMAIN s.results = 1..Len(s.results) /\ Len(s.results) \in Nat
        /\ DOMAIN Append(s.results, x) = 1..(Len(s.results) + 1)
    BY <2>1, <2>2, LenProperties
  <2> HIDE DEF s
  <2> QED
    BY <2>2, <2>3
<1>9. ASSUME s.req.kind = "snapshot"
      PROVE  s.results = <<>> /\ s.fresh = {}
  <2>1. Len(s.req.batch) = 1
    BY <1>1, <1>9, RequestsAssumption
  <2>2. Len(s.results) = 0
    BY <1>1, <2>1, LenProperties
  <2>3. Cardinality(s.fresh) <= Len(s.results) /\ IsFiniteSet(s.fresh)
    BY <1>1 DEF CacheInv, ImportInv, ServerInv, HandlerInv, NumbersRows, ReadsSnapshot
  <2>4. Cardinality(s.fresh) \in Nat /\ (Cardinality(s.fresh) = 0 => s.fresh = {})
    BY <2>3, FS_CardinalityType, FS_EmptySet
  <2> HIDE DEF s
  <2> QED
    BY <1>1, <2>2, <2>3, <2>4, EmptySeq
<1>10. ASSUME s.req.kind = "snapshot", verdict = "DUPLICATE_OPERATION"
       PROVE  \A r \in s.view : r.op.id = op.id => r.op = op
  <2>1. PICK same \in Visible(h) : same.op = op /\ same.op.id = op.id
    BY <1>10, DuplicateIsKnown
  <2>2. same \in s.view
    BY <1>9, <1>10, <2>1 DEF Visible
  <2> QED
    BY <1>6, <2>1, <2>2 DEF AreUnique
<1>11. ReplyIsStored(h)'
  <2> HIDE DEF taken, refused, accepted, other, verdict, seq, row, op, s
  <2>1. CASE verdict = "ACCEPTED" /\ handler' = [handler EXCEPT ![h] = taken]
    <3>1. handler'[h] = taken
      BY <1>1, <2>1
    <3>2. AreStoredIn(taken.results, taken.fresh)
      BY <1>4, <1>5, <1>6, <1>8 DEF AreStoredIn
    <3>3. taken.req.kind = "snapshot" =>
            \A i \in DOMAIN taken.results, r \in taken.view \union taken.fresh :
              /\ taken.results[i].verdict = "DUPLICATE_OPERATION"
              /\ r.op.id = taken.results[i].op.id
              => r.op = taken.results[i].op
      <4>1. taken.req.kind = "snapshot" => taken.results = <<accepted>>
        BY <1>4, <1>9, AppendToNothing
      <4>2. DOMAIN <<accepted>> = {1} /\ <<accepted>>[1].verdict = "ACCEPTED"
        BY <1>5, <2>1
      <4> QED
        BY <4>1, <4>2
    <3> QED
      BY <1>2, <1>4, <1>6, <3>1, <3>2, <3>3 DEF ReplyIsStored, AreStoredIn, AreUnique, KnowsDuplicates
  <2>2. CASE verdict # "ACCEPTED" /\ handler' = [handler EXCEPT ![h] = refused]
    <3>1. handler'[h] = refused
      BY <1>1, <2>2
    <3>2. AreStoredIn(refused.results, refused.fresh)
      BY <1>4, <1>5, <1>6, <1>8, <2>2 DEF AreStoredIn
    <3>3. refused.req.kind = "snapshot" =>
            \A i \in DOMAIN refused.results, r \in refused.view \union refused.fresh :
              /\ refused.results[i].verdict = "DUPLICATE_OPERATION"
              /\ r.op.id = refused.results[i].op.id
              => r.op = refused.results[i].op
      <4>1. ASSUME refused.req.kind = "snapshot"
            PROVE  refused.results = <<other>> /\ refused.fresh = {}
        BY <1>4, <1>9, <4>1, AppendToNothing
      <4>2. DOMAIN <<other>> = {1} /\ <<other>>[1] = other
        OBVIOUS
      <4> QED
        BY <1>4, <1>5, <1>10, <4>1, <4>2
    <3> QED
      BY <1>2, <1>4, <1>6, <3>1, <3>2, <3>3 DEF ReplyIsStored, AreStoredIn, AreUnique, KnowsDuplicates
  <2> QED
    BY <1>3, <2>1, <2>2
<1>12. \A g \in Handlers : g # h => KeepsWork(g)
  BY <1>1, <1>3 DEF KeepsWork
<1>13. \A g \in Handlers : ReplyIsStored(g)'
  BY <1>2, <1>11, <1>12, KeptWorkIsStored
<1> QED
  BY <1>2, <1>13 DEF CacheInv, RepliesAreStored, CachedResultsAreStored

\* On one process the commit meets no other work.
LEMMA CommitKeepsReplies ==
  ASSUME \A a, b \in Instances : a = b, CacheInv, NEW h \in Handlers, CommitUpload(h)
  PROVE  RepliesAreStored'
<1> DEFINE fresh == handler[h].fresh
           clean == handler[h].req.clean
           new == [IdleHandler EXCEPT !.phase = "committed", !.req = handler[h].req,
                                      !.results = handler[h].results]
<1>1. /\ handler[h].phase = "open" /\ HoldsLock(h) /\ ServerInv
      /\ rows' = fresh \union KeptRows(h) /\ KeptRows(h) \subseteq rows
      /\ ledger' = fresh \union (IF clean THEN {} ELSE ledger)
      /\ cache' = CacheAfter(h)
  BY DEF CommitUpload, HoldsLock, KeptRows, CacheInv, ImportInv
<1>2. \A g \in Handlers : Home[g] = Home[h] /\ Home[g] \in Instances
  BY HomeAssumption
<1>3. PICK hs \in {handler, MarkStale(handler)} : handler' = [hs EXCEPT ![h] = new]
  BY DEF CommitUpload
<1>4. /\ DOMAIN hs = Handlers
      /\ \A g \in Handlers : hs[g].phase = handler[g].phase
  <2>1. /\ DOMAIN handler = Handlers /\ \A g \in Handlers : handler[g] \in HandlerType
        /\ DOMAIN MarkStale(handler) = Handlers
    BY <1>1 DEF ServerInv, TypeOK, MarkStale
  <2>2. ASSUME NEW g \in Handlers
        PROVE  hs[g] \in {handler[g], [handler[g] EXCEPT !.stale = TRUE]}
    BY <1>3 DEF MarkStale
  <2> QED
    BY <1>3, <2>1, <2>2 DEF HandlerType
<1>5. ASSUME NEW g \in Handlers, g # h
      PROVE  ReplyIsStored(g)'
  <2>1. ~HoldsLock(g)
    BY <1>1, <1>2, <1>5 DEF CacheInv, ImportInv, LockIsExclusive
  <2>2. handler'[g].phase = handler[g].phase
    BY <1>3, <1>4, <1>5
  <2> QED
    BY <2>1, <2>2 DEF HoldsLock, ReplyIsStored
<1>6. ReplyIsStored(h)
  BY DEF CacheInv, RepliesAreStored
<1>7. ReplyIsStored(h)'
  <2>1. /\ handler'[h] = new /\ new.phase = "committed"
        /\ new.req = handler[h].req /\ new.results = handler[h].results
    BY <1>3, <1>4 DEF IdleHandler
  <2> HIDE DEF new
  <2>2. AreStoredIn(handler[h].results, ledger')
    BY <1>1, <1>6 DEF ReplyIsStored, AreStoredIn
  <2>3. rows' \subseteq handler[h].view \union fresh
    BY <1>1, <1>6 DEF ReplyIsStored
  <2>4. KnowsDuplicates(h, handler[h].view \union fresh)
    BY <1>1, <1>6 DEF ReplyIsStored
  <2> QED
    BY <2>1, <2>2, <2>3, <2>4 DEF ReplyIsStored, KnowsDuplicates, AreStoredIn
<1>8. CachedResultsAreStored'
  <2>1. CASE clean
    <3>1. \A e \in cache : e.inst = Home[h]
      BY <1>1, <1>2 DEF ServerInv, TypeOK
    <3>2. cache' = {}
      BY <1>1, <2>1, <3>1 DEF CacheAfter
    <3> QED
      BY <3>2 DEF CachedResultsAreStored
  <2>2. CASE ~clean
    <3>1. cache' = cache /\ ledger \subseteq ledger'
      BY <1>1, <2>2 DEF CacheAfter
    <3> QED
      BY <3>1 DEF CacheInv, RepliesAreStored, CachedResultsAreStored
  <2> QED
    BY <2>1, <2>2
<1> QED
  BY <1>5, <1>7, <1>8 DEF RepliesAreStored

\* What the reply says is still true when it is cached, also of a snapshot that was there.
LEMMA FinishKeepsReplies ==
  ASSUME CacheInv, NEW h \in Handlers, FinishRequest(h)
  PROVE  RepliesAreStored'
<1> DEFINE final == FinalResults(h)
           results == handler[h].results
           entry == [inst |-> Home[h], req |-> handler[h].req, results |-> final]
           new == [IdleHandler EXCEPT !.phase = "done", !.req = handler[h].req,
                                      !.results = final]
<1>1. /\ handler' = [handler EXCEPT ![h] = new] /\ UNCHANGED <<rows, ledger>>
      /\ cache' \subseteq cache \union {entry}
      /\ handler[h].phase \in {"committed", "snapshotted"}
  BY DEF FinishRequest
<1>2. DOMAIN handler = Handlers /\ rows \in SUBSET RowType /\ rows \subseteq ledger
  BY DEF CacheInv, ImportInv, ServerInv, TypeOK
<1>3. new.phase = "done"
  BY DEF IdleHandler
<1>4. \A g \in Handlers : KeepsWork(g)
  BY <1>1, <1>2, <1>3 DEF KeepsWork, AtWork
<1>5. \A g \in Handlers : ReplyIsStored(g)'
  BY <1>1, <1>4, KeptWorkIsStored
<1>6. AreStoredIn(results, ledger) /\ KnowsDuplicates(h, rows)
  BY <1>1 DEF CacheInv, RepliesAreStored, ReplyIsStored
<1>7. ASSUME NEW i \in DOMAIN final, final[i].verdict = "ACCEPTED"
      PROVE  \E r \in ledger : r.op = final[i].op /\ r.seq = final[i].seq
  <2> DEFINE same == {r \in rows : r.op.id = results[i].op.id}
             found == handler[h].req.kind = "snapshot"
                        /\ results[i].verdict = "DUPLICATE_OPERATION" /\ same # {}
  <2>1. i \in DOMAIN results
        /\ final[i] = IF found THEN Result(results[i].op, "ACCEPTED", MaxSeqOf(same))
                               ELSE results[i]
    BY DEF FinalResults
  <2>2. CASE found
    <3>1. same \in SUBSET RowType /\ same # {}
      BY <1>2, <2>2
    <3>2. PICK r \in same : r.seq = MaxSeqOf(same)
      BY <3>1, GreatestRow
    <3>3. r.op = results[i].op /\ r \in ledger
      BY <1>2, <1>6, <2>1, <2>2, <3>2 DEF KnowsDuplicates
    <3>4. final[i].op = results[i].op /\ final[i].seq = MaxSeqOf(same)
      BY <2>1, <2>2 DEF Result
    <3> QED
      BY <3>2, <3>3, <3>4
  <2>3. CASE ~found
    <3>1. final[i] = results[i]
      BY <2>1, <2>3
    <3> QED
      BY <1>6, <1>7, <2>1, <3>1 DEF AreStoredIn
  <2> QED
    BY <2>2, <2>3
<1>8. CachedResultsAreStored'
  <2>1. entry.results = final
    OBVIOUS
  <2> HIDE DEF entry, final
  <2> QED
    BY <1>1, <1>7, <2>1 DEF CacheInv, RepliesAreStored, CachedResultsAreStored
<1> QED
  BY <1>5, <1>8 DEF RepliesAreStored

\* Every step of a handler keeps replies and cache true.
LEMMA HandlerKeepsReplies ==
  ASSUME \A a, b \in Instances : a = b, CacheInv, NEW h \in Handlers, HandlerStep(h)
  PROVE  RepliesAreStored'
<1>1. /\ handler[h] \in HandlerType /\ DOMAIN handler = Handlers
      /\ \A g \in Handlers : handler[g] \in HandlerType
  BY DEF CacheInv, ImportInv, ServerInv, TypeOK
<1>2. CASE \E req \in Requests : ReceiveRequest(h, req)
  <2>1. PICK req \in Requests : ReceiveRequest(h, req)
    BY <1>2
  <2> DEFINE received(ts) == [IdleHandler EXCEPT !.phase = "received", !.req = req, !.ts = ts]
             cached(results) ==
               [IdleHandler EXCEPT !.phase = "done", !.req = req, !.results = results]
  <2>2. \E new : handler' = [handler EXCEPT ![h] = new] /\ new.phase \in {"received", "done"}
    <3>1. (\E ts : handler' = [handler EXCEPT ![h] = received(ts)])
            \/ \E results : handler' = [handler EXCEPT ![h] = cached(results)]
      BY <2>1 DEF ReceiveRequest
    <3>2. \A any : received(any).phase = "received" /\ cached(any).phase = "done"
      BY DEF IdleHandler
    <3> HIDE DEF received, cached
    <3> QED
      BY <3>1, <3>2
  <2> QED
    BY <2>1, <2>2, HandlerLeavesWork DEF ReceiveRequest, AtWork
<1>3. CASE TakeStorageLock(h) \/ PassImportCheck(h)
  <2>1. PICK phase \in {"locked", "checked"} :
          handler' = [handler EXCEPT ![h] = [handler[h] EXCEPT !.phase = phase]]
    BY <1>1, <1>3 DEF TakeStorageLock, PassImportCheck
  <2>2. [handler[h] EXCEPT !.phase = phase].phase = phase
    BY <1>1 DEF HandlerType
  <2> QED
    BY <1>3, <2>1, <2>2, HandlerLeavesWork DEF TakeStorageLock, PassImportCheck, AtWork
<1>4. CASE AnswerExistingImport(h)
  <2>1. \E results : handler' = [handler EXCEPT ![h] =
           [handler[h] EXCEPT !.phase = "done", !.results = results]]
    BY <1>1, <1>4 DEF AnswerExistingImport
  <2>2. PICK results : handler' = [handler EXCEPT ![h] =
           [handler[h] EXCEPT !.phase = "done", !.results = results]]
    BY <2>1
  <2>3. [handler[h] EXCEPT !.phase = "done", !.results = results].phase = "done"
    BY <1>1 DEF HandlerType
  <2> QED
    BY <1>4, <2>2, <2>3, HandlerLeavesWork DEF AnswerExistingImport, AtWork
<1>5. CASE AbortUpload(h)
  <2> DEFINE new == [IdleHandler EXCEPT !.phase = "done", !.req = handler[h].req,
                                        !.results = AllFailed(handler[h].req.batch)]
  <2>1. handler' = [handler EXCEPT ![h] = new] /\ new.phase = "done"
    BY <1>5 DEF AbortUpload, IdleHandler
  <2> HIDE DEF new
  <2> QED
    BY <1>5, <2>1, HandlerLeavesWork DEF AbortUpload, AtWork
<1>6. CASE RejectForQuota(h) \/ FailAfterCommit(h) \/ Respond(h)
  <2>1. IdleHandler.phase = "idle"
    BY DEF IdleHandler
  <2> QED
    BY <1>6, <2>1, HandlerLeavesWork DEF RejectForQuota, FailAfterCommit, Respond, AtWork
<1>7. CASE FreeStorage(h) \/ CacheSnapshot(h)
  <2>1. /\ rows' \subseteq rows /\ ledger' = ledger /\ cache' = cache
        /\ \E hs \in {handler, MarkStale(handler)} :
             \/ handler' = hs
             \/ /\ handler[h].phase = "committed"
                /\ handler' = [hs EXCEPT ![h].phase = "snapshotted"]
    BY <1>7 DEF FreeStorage, CacheSnapshot
  <2>2. PICK hs \in {handler, MarkStale(handler)} :
             \/ handler' = hs
             \/ /\ handler[h].phase = "committed"
                /\ handler' = [hs EXCEPT ![h].phase = "snapshotted"]
    BY <2>1
  <2>3. ASSUME NEW g \in Handlers
        PROVE  /\ hs[g].phase = handler[g].phase /\ hs[g].req = handler[g].req
               /\ hs[g].results = handler[g].results /\ hs[g].fresh = handler[g].fresh
               /\ hs[g].view = handler[g].view
    <3>1. hs[g] \in {handler[g], [handler[g] EXCEPT !.stale = TRUE]}
      BY <2>2 DEF MarkStale
    <3> QED
      BY <1>1, <3>1 DEF HandlerType
  <2>4. DOMAIN hs = Handlers
    BY <1>1, <2>2 DEF MarkStale
  <2>5. ASSUME NEW g \in Handlers
        PROVE  KeepsWork(g)
    <3>1. CASE handler' = hs
      BY <2>3, <3>1 DEF KeepsWork
    <3>2. CASE /\ handler[h].phase = "committed"
               /\ handler' = [hs EXCEPT ![h].phase = "snapshotted"]
      <4>1. hs[h] = handler[h]
        BY <2>2, <3>2 DEF MarkStale
      <4>2. CASE g = h
        <5>1. handler'[g] = [handler[g] EXCEPT !.phase = "snapshotted"]
          BY <2>4, <3>2, <4>1, <4>2
        <5> QED
          BY <1>1, <3>2, <4>2, <5>1 DEF KeepsWork, AtWork, HandlerType
      <4>3. CASE g # h
        BY <2>3, <2>4, <3>2, <4>3 DEF KeepsWork
      <4> QED
        BY <4>2, <4>3
    <3> QED
      BY <2>2, <3>1, <3>2
  <2> QED
    BY <2>1, <2>5, WorkGoesOn
<1> QED
  BY <1>2, <1>3, <1>4, <1>5, <1>6, <1>7, BeginKeepsReplies, ProcessKeepsReplies,
     CommitKeepsReplies, FinishKeepsReplies DEF HandlerStep

\* On one process, a retry that the request cache answers is told the truth: what it calls
\* accepted is stored under that number, through cleanup, clean slates and restarts.
THEOREM CachedResultsStayTrue ==
  ASSUME MaxWipes = 0, \A a, b \in Instances : a = b
  PROVE  Spec => []CachedResultsAreStored
<1>1. \A g, h \in Handlers : Home[g] = Home[h]
  BY HomeAssumption
<1>2. Init => ImportInv
  BY <1>1, ImportInvIsInductive
<1>3. Init => NumberingInv /\ CacheInv
  BY <1>2, NumberingIsInductive DEF Init, IdleHandler, CacheInv, RepliesAreStored,
     CachedResultsAreStored, ReplyIsStored
<1>4. ASSUME NumberingInv, CacheInv, [Next]_vars
      PROVE  NumberingInv' /\ CacheInv'
  <2>1. /\ ImportInv' /\ NumberingInv' /\ ~wipe.on /\ wipe.count = 0
    BY <1>1, <1>4, ImportInvIsInductive, NumberingIsInductive
       DEF CacheInv, NumberingInv, ServerInv, TypeOK
  <2>2. rows' \subseteq ledger'
    <3>1. CASE \E h \in Handlers : CommitUpload(h)
      <4>1. PICK h \in Handlers : CommitUpload(h)
        BY <3>1
      <4>2. /\ rows' = handler[h].fresh \union KeptRows(h)
            /\ ledger' = handler[h].fresh
                           \union (IF handler[h].req.clean THEN {} ELSE ledger)
            /\ handler[h].phase = "open"
        BY <4>1 DEF CommitUpload
      <4>3. rows \subseteq handler[h].view
        BY <1>4, <4>2 DEF CacheInv, RepliesAreStored, ReplyIsStored
      <4> QED
        BY <1>4, <4>2, <4>3 DEF KeptRows, CacheInv
    <3>2. CASE ~(\E h \in Handlers : CommitUpload(h))
      BY <1>4, <3>2, OnlyCommitsPublish DEF CacheInv
    <3> QED
      BY <3>1, <3>2
  <2>3. CASE \E h \in Handlers : HandlerStep(h)
    BY <1>4, <2>1, <2>2, <2>3, HandlerKeepsReplies DEF CacheInv
  <2>4. CASE Maintenance \/ UNCHANGED vars
    <3>1. ~WipeOps /\ ~WipeAbort /\ ~(\E inst \in Instances : WipeCommit(inst))
      BY <2>1 DEF WipeOps, WipeAbort, WipeCommit
    <3>2. rows' \subseteq rows /\ ledger' = ledger /\ cache' \subseteq cache
      BY <2>4, <3>1 DEF Maintenance, ExpireCache, Restart, SweepStart, SweepDelete,
                        SweepEnd, Tick, vars
    <3>3. ASSUME NEW g \in Handlers
          PROVE  KeepsWork(g)
      <4>1. handler'[g] \in {IdleHandler, handler[g]}
        BY <2>4, <3>1 DEF Maintenance, ExpireCache, Restart, SweepStart, SweepDelete,
                          SweepEnd, Tick, vars
      <4> QED
        BY <4>1 DEF KeepsWork, AtWork, IdleHandler
    <3> QED
      BY <1>4, <2>1, <2>2, <3>2, <3>3, WorkGoesOn DEF CacheInv
  <2> QED
    BY <1>4, <2>3, <2>4 DEF Next
<1>5. CacheInv => CachedResultsAreStored
  BY DEF CacheInv, RepliesAreStored
<1> QED
  BY <1>3, <1>4, <1>5, PTL DEF Spec
=============================================================================
