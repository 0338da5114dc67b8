--------------------------- MODULE SuperSyncServer ---------------------------
(***************************************************************************)
(* The operation log that the SuperSync server keeps for one user.         *)
(*                                                                         *)
(* Upload requests run in handlers.  A handler looks its request up in the *)
(* request cache of its server process, takes that process's storage lock  *)
(* of the user, and opens a REPEATABLE READ transaction: every read of the *)
(* transaction sees the rows committed when it began (view), and its write *)
(* of the user_sync_state and users rows fails when another transaction    *)
(* has written them in between (stale).  Retention, quota cleanup and the  *)
(* account wipe delete rows beside the uploads.                            *)
(*                                                                         *)
(* The batch path and the per-operation path of uploadOps read the same    *)
(* snapshot, reach the same verdicts and publish the same rows (but for    *)
(* one id twice in a batch), so one set of actions stands for both.        *)
(***************************************************************************)
EXTENDS SyncVectorClock, Sequences

CONSTANTS
  Handlers,      \* concurrent request handlers of the user
  Instances,     \* server processes
  Home,          \* the server process a handler runs in
  Ops,           \* operations that clients may upload
  Requests,      \* upload requests that clients may send
  MaxSeq,        \* bound on server sequence numbers
  MaxTime,       \* bound on the coarse wall clock
  MaxWipes       \* bound on account wipes

ASSUME HomeAssumption == Home \in [Handlers -> Instances]
ASSUME BoundsAssumption == MaxSeq \in Nat /\ MaxTime \in Nat \ {0} /\ MaxWipes \in Nat
ASSUME OpsAssumption ==
  \A op \in Ops : op.client \in Clients /\ op.clock \in Clock /\ op.full \in BOOLEAN
ASSUME RequestsAssumption ==
  \A req \in Requests :
    /\ req.batch \in Seq(Ops) /\ req.clean \in BOOLEAN
    /\ req.kind = "snapshot" => Len(req.batch) = 1 /\ req.batch[1].full
    /\ req.initial => req.kind = "snapshot"

VARIABLES
  rows,      \* the operations table: records [op, ts, seq, clk, at]
  state,     \* the user_sync_state row; NULL sequence numbers are 0
  handler,   \* the request each handler is processing and how far it got
  cache,     \* RequestDeduplicationService: records [inst, req, results]
  sweep,     \* the daily retention job
  wipe,      \* the account wipe in progress
  now,       \* coarse wall clock
  ledger     \* history: rows accepted since the user's data was last reset

vars == <<rows, state, handler, cache, sweep, wipe, now, ledger>>

NoState == [lastSeq |-> 0, fullSeq |-> 0, fullClk |-> ZeroClock, snapSeq |-> 0, snapAt |-> 0]

NoSweep == [on |-> FALSE, seq |-> 0, cutoff |-> 0]

NoWipe == [on |-> FALSE, doomed |-> {}, count |-> 0]

NoRequest == [kind |-> "none", batch |-> <<>>, clean |-> FALSE, initial |-> FALSE,
              enc |-> FALSE]

\* Mutant: the reserved range starts one too low.
RowOffByOne(op, ts, seq, at) ==
  [op |-> op, ts |-> ts, seq |-> seq - 1, clk |-> LimitClock(op.clock, {op.client}), at |-> at]

\* ts is the operation's own timestamp: the client's for the operations of a batch
\* (0), the time of the request for the operation that the snapshot route builds.
Row(op, ts, seq, at) ==
  [op |-> op, ts |-> ts, seq |-> seq, clk |-> LimitClock(op.clock, {op.client}), at |-> at]

FullRows(table) == {r \in table : r.op.full}

SeqsOf(table) == {r.seq : r \in table}

MaxSeqOf(table) ==
  IF table = {} THEN 0
  ELSE CHOOSE s \in SeqsOf(table) : \A t \in SeqsOf(table) : s >= t

-----------------------------------------------------------------------------
(* Verdicts *)

\* The row that last touched an entity, if there is one.
LatestTouching(table, entity) ==
  LET touching == {r \in table : entity \in r.op.ents}
  IN  {r \in touching : \A other \in touching : r.seq >= other.seq}

\* resolveConflictForExistingOp: only a successor, or an equal clock of the same
\* client, may follow the row.
ConflictsWith(op, prior) ==
  LET cmp == CompareClocks(op.clock, prior.clk)
  IN  ~ \/ cmp = "GREATER_THAN"
        \/ cmp = "EQUAL" /\ op.client = prior.op.client

\* Mutant: operations on several entities are not matched, as before issue 8334.
DetectConflictOfSingles(table, op) ==
  /\ ~op.full
  /\ \E entity \in op.ents : op.ents = {entity} /\
       \E prior \in LatestTouching(table, entity) : ConflictsWith(op, prior)

DetectConflict(table, op) ==
  /\ ~op.full
  /\ \E entity \in op.ents : \E prior \in LatestTouching(table, entity) :
       ConflictsWith(op, prior)

\* isSameDuplicateOperation compares every field, the timestamp included.
SameOperation(row, op, ts) == row.op = op /\ row.ts = ts

Verdict(table, op, ts) ==
  LET known == {r \in table : r.op.id = op.id}
  IN  CASE ~op.valid -> "VALIDATION_ERROR"
        [] op.valid /\ \E r \in known : SameOperation(r, op, ts) -> "DUPLICATE_OPERATION"
        [] op.valid /\ known # {} /\ \A r \in known : ~SameOperation(r, op, ts) -> "INVALID_OP_ID"
        [] op.valid /\ known = {} /\ DetectConflict(table, op) -> "CONFLICT"
        [] OTHER -> "ACCEPTED"

Result(op, verdict, seq) == [op |-> op, verdict |-> verdict, seq |-> seq]

AllFailed(batch) == [i \in DOMAIN batch |-> Result(batch[i], "INTERNAL_ERROR", 0)]

-----------------------------------------------------------------------------
(* Handlers *)

Phases == {"idle", "received", "locked", "checked", "open", "committed", "snapshotted", "done"}

IdleHandler == [phase |-> "idle", req |-> NoRequest, ts |-> 0, view |-> {}, base |-> 0,
                at |-> 0, fresh |-> {}, results |-> <<>>, stale |-> FALSE]

\* What the transaction sees: its snapshot, unless it has deleted it, and its own rows.
Visible(h) ==
  (IF handler[h].req.clean THEN {} ELSE handler[h].view) \union handler[h].fresh

HoldsLock(h) ==
  handler[h].phase \in {"locked", "checked", "open", "committed", "snapshotted"}

\* Another transaction has written the user_sync_state row: the transactions that
\* are open can no longer write it.
MarkStale(hs) ==
  [h \in Handlers |-> IF hs[h].phase = "open" THEN [hs[h] EXCEPT !.stale = TRUE] ELSE hs[h]]

CachedFor(h, req) == {e \in cache : e.inst = Home[h] /\ e.req = req}

\* A request arrives; a cached result answers it before lock and quota.
ReceiveRequest(h, req) ==
  /\ handler[h].phase = "idle"
  /\ \/ /\ CachedFor(h, req) = {}
        /\ handler' = [handler EXCEPT ![h] =
             [IdleHandler EXCEPT !.phase = "received", !.req = req,
                                 !.ts = IF req.kind = "snapshot" THEN now ELSE 0]]
     \/ \E e \in CachedFor(h, req) :
          handler' = [handler EXCEPT ![h] =
             [IdleHandler EXCEPT !.phase = "done", !.req = req, !.results = e.results]]
  /\ UNCHANGED <<rows, state, cache, sweep, wipe, now, ledger>>

\* Mutant: nobody waits for the user's lock.
TakeNoLock(h) ==
  /\ handler[h].phase = "received"
  /\ handler' = [handler EXCEPT ![h].phase = "locked"]
  /\ UNCHANGED <<rows, state, cache, sweep, wipe, now, ledger>>

TakeStorageLock(h) ==
  /\ handler[h].phase = "received"
  /\ \A other \in Handlers : Home[other] = Home[h] => ~HoldsLock(other)
  /\ handler' = [handler EXCEPT ![h].phase = "locked"]
  /\ UNCHANGED <<rows, state, cache, sweep, wipe, now, ledger>>

\* An "initial" import is refused once any full-state operation exists; the retry of
\* the very operation that exists is answered with its sequence number.  Both are looked
\* up before the lock, to save the waiting, and again under it.
IsFirstImport(h) == handler[h].req.initial /\ ~handler[h].req.clean

AnswerExistingImport(h) ==
  /\ handler[h].phase \in {"received", "locked"}
  /\ IsFirstImport(h) /\ FullRows(rows) # {}
  /\ LET op   == handler[h].req.batch[1]
         same == {r \in FullRows(rows) : r.op.id = op.id}
     IN  handler' = [handler EXCEPT ![h].phase = "done", ![h].results =
           IF same = {} THEN <<Result(op, "SYNC_IMPORT_EXISTS", 0)>>
                        ELSE <<Result(op, "ACCEPTED", MaxSeqOf(same))>>]
  /\ UNCHANGED <<rows, state, cache, sweep, wipe, now, ledger>>

PassImportCheck(h) ==
  /\ handler[h].phase = "locked"
  /\ IsFirstImport(h) /\ FullRows(rows) = {}
  /\ handler' = [handler EXCEPT ![h].phase = "checked"]
  /\ UNCHANGED <<rows, state, cache, sweep, wipe, now, ledger>>

MayUpload(h) == handler[h].phase = IF IsFirstImport(h) THEN "checked" ELSE "locked"

\* Over quota with nothing left to free: 413, before any transaction.
RejectForQuota(h) ==
  /\ MayUpload(h)
  /\ handler' = [handler EXCEPT ![h] = IdleHandler]
  /\ UNCHANGED <<rows, state, cache, sweep, wipe, now, ledger>>

\* Mutant: even the last restore point may go.
IsOldestRestorePoint(point) == \A r \in FullRows(rows) : point.seq <= r.seq

IsSpareRestorePoint(point) ==
  /\ \A r \in FullRows(rows) : point.seq <= r.seq
  /\ \E second \in FullRows(rows) : point.seq < second.seq

\* Over quota: drop the oldest of two or more restore points and all rows up to it,
\* and the cached snapshot if it is not newer.
FreeStorage(h) ==
  /\ MayUpload(h)
  /\ ~handler[h].req.clean
  /\ \E oldest \in FullRows(rows) :
       /\ IsSpareRestorePoint(oldest)
       /\ {r \in rows : r.seq <= oldest.seq} \cap wipe.doomed = {}
       /\ rows' = {r \in rows : r.seq > oldest.seq}
       /\ state' = IF state.snapSeq <= oldest.seq
                   THEN [state EXCEPT !.snapSeq = 0, !.snapAt = 0] ELSE state
  /\ handler' = MarkStale(handler)
  /\ UNCHANGED <<cache, sweep, wipe, now, ledger>>

BeginUpload(h) ==
  /\ MayUpload(h)
  /\ state.lastSeq + Len(handler[h].req.batch) <= MaxSeq
  /\ handler' = [handler EXCEPT ![h].phase = "open", ![h].view = rows, ![h].at = now,
                                ![h].base = state.lastSeq]
  /\ UNCHANGED <<rows, state, cache, sweep, wipe, now, ledger>>

\* The next operation of the batch gets its verdict; an accepted one gets the
\* next sequence number and becomes visible to the rest of the batch.
ProcessOperation(h) ==
  /\ handler[h].phase = "open"
  /\ Len(handler[h].results) < Len(handler[h].req.batch)
  /\ LET op      == handler[h].req.batch[Len(handler[h].results) + 1]
         verdict == Verdict(Visible(h), op, handler[h].ts)
         seq     == handler[h].base + Cardinality(handler[h].fresh) + 1
     IN  \/ /\ verdict = "ACCEPTED"
            /\ handler' = [handler EXCEPT
                 ![h].results = Append(@, Result(op, verdict, seq)),
                 ![h].fresh   = @ \union {Row(op, handler[h].ts, seq, handler[h].at)}]
         \/ /\ verdict # "ACCEPTED"
            /\ handler' = [handler EXCEPT ![h].results = Append(@, Result(op, verdict, 0))]
  /\ UNCHANGED <<rows, state, cache, sweep, wipe, now, ledger>>

Processed(h) == Len(handler[h].results) = Len(handler[h].req.batch)

Writes(h) == handler[h].fresh # {} \/ handler[h].req.clean

\* The rows that the transaction of h leaves beside its own.
KeptRows(h) == IF handler[h].req.clean THEN rows \ handler[h].view ELSE rows

\* A writing transaction commits only if nothing it must update or delete was written
\* since its snapshot, and if ids and sequence numbers stay unique.
CanCommit(h) ==
  Writes(h) =>
    /\ ~handler[h].stale
    /\ handler[h].req.clean => handler[h].view \subseteq rows \ wipe.doomed
    /\ \A new \in handler[h].fresh, old \in KeptRows(h) :
         new.seq # old.seq /\ new.op.id # old.op.id

\* Mutant: the full-state operation's own clock, without the history before it.
BareFullStateClock(h, last) == last.op.clock

\* persistMergedFullStateClock, for the last full-state operation of the batch.
MergedFullStateClock(h, last) ==
  MergeClocks(MaxOverClocks({r.clk : r \in {v \in Visible(h) : v.seq < last.seq}}),
              last.op.clock)

\* Mutant: one number for the whole batch.
StateAfterOneStep(h) ==
  IF handler[h].fresh = {} THEN state ELSE [state EXCEPT !.lastSeq = @ + 1]

\* Mutant: the refused operations of the batch use up numbers, too.
StateAfterWholeBatch(h) ==
  LET full  == FullRows(handler[h].fresh)
      moved == [state EXCEPT !.lastSeq = @ + Len(handler[h].req.batch)]
  IN  CASE handler[h].fresh = {} -> state
        [] handler[h].fresh # {} /\ full = {} -> moved
        [] full # {} -> [moved EXCEPT !.fullSeq = moved.lastSeq, !.fullClk =
                           MergedFullStateClock(h, CHOOSE r \in full : TRUE)]

\* Mutant: a clean slate that resets the counter with the rest of the row.
StateAfterReset(h) ==
  LET kept == IF handler[h].req.clean THEN NoState ELSE state
  IN  [kept EXCEPT !.lastSeq = @ + Cardinality(handler[h].fresh)]

StateAfter(h) ==
  LET fresh == handler[h].fresh
      kept  == IF handler[h].req.clean THEN [NoState EXCEPT !.lastSeq = state.lastSeq] ELSE state
      moved == [kept EXCEPT !.lastSeq = @ + Cardinality(fresh)]
  IN  IF FullRows(fresh) = {} THEN moved
      ELSE LET last == CHOOSE r \in FullRows(fresh) : r.seq = MaxSeqOf(FullRows(fresh))
           IN  [moved EXCEPT !.fullSeq = last.seq, !.fullClk = MergedFullStateClock(h, last)]

\* Mutant: the cached results of requests before a clean slate stay.
CacheKept(h) == cache

\* After its commit a clean slate clears this process's request cache.
CacheAfter(h) ==
  IF handler[h].req.clean THEN {e \in cache : e.inst # Home[h]} ELSE cache

CommitUpload(h) ==
  /\ handler[h].phase = "open" /\ Processed(h)
  /\ CanCommit(h)
  /\ rows' = handler[h].fresh \union KeptRows(h)
  /\ state' = StateAfter(h)
  /\ ledger' = handler[h].fresh \union (IF handler[h].req.clean THEN {} ELSE ledger)
  /\ cache' = CacheAfter(h)
  /\ handler' = [(IF Writes(h) THEN MarkStale(handler) ELSE handler)
                   EXCEPT ![h] = [IdleHandler EXCEPT !.phase = "committed",
                                    !.req = handler[h].req, !.results = handler[h].results]]
  /\ UNCHANGED <<sweep, wipe, now>>

\* A conflicting transaction, a unique violation, a deadlock or the 60 s timeout
\* rolls the transaction back; every operation of the batch has failed.
AbortUpload(h) ==
  /\ handler[h].phase = "open"
  /\ handler' = [handler EXCEPT ![h] = [IdleHandler EXCEPT
       !.phase = "done", !.req = handler[h].req, !.results = AllFailed(handler[h].req.batch)]]
  /\ UNCHANGED <<rows, state, cache, sweep, wipe, now, ledger>>

MustCacheSnapshot(h) ==
  /\ handler[h].req.kind = "snapshot" /\ ~handler[h].req.enc
  /\ handler[h].results[1].verdict = "ACCEPTED"

\* Outside the transaction: replace the cached snapshot unless a newer one is there; a
\* snapshot too large to be cached clears the older one.
CacheSnapshot(h) ==
  /\ handler[h].phase = "committed" /\ MustCacheSnapshot(h)
  /\ LET seq == handler[h].results[1].seq
     IN  \/ /\ state.snapSeq < seq
            /\ state' \in {[state EXCEPT !.snapSeq = seq, !.snapAt = now],
                           [state EXCEPT !.snapSeq = 0, !.snapAt = 0]}
            /\ handler' = [(IF state' = state THEN handler ELSE MarkStale(handler))
                             EXCEPT ![h].phase = "snapshotted"]
         \/ /\ state.snapSeq >= seq
            /\ handler' = [handler EXCEPT ![h].phase = "snapshotted"]
            /\ UNCHANGED state
  /\ UNCHANGED <<rows, cache, sweep, wipe, now, ledger>>

\* The snapshot route turns a duplicate whose row it finds into a success.
FinalResults(h) ==
  [i \in DOMAIN handler[h].results |->
     LET res  == handler[h].results[i]
         same == {r \in rows : r.op.id = res.op.id}
     IN  IF /\ handler[h].req.kind = "snapshot"
            /\ res.verdict = "DUPLICATE_OPERATION" /\ same # {}
         THEN Result(res.op, "ACCEPTED", MaxSeqOf(same)) ELSE res]

\* The results are cached for retries of the request and the reply is sent.
FinishRequest(h) ==
  /\ \/ handler[h].phase = "snapshotted"
     \/ handler[h].phase = "committed" /\ ~MustCacheSnapshot(h)
  /\ LET final == FinalResults(h)
         entry == [inst |-> Home[h], req |-> handler[h].req, results |-> final]
         skip  == /\ handler[h].req.kind = "snapshot"
                  /\ final[1].verdict = "DUPLICATE_OPERATION"
     IN  /\ handler' = [handler EXCEPT ![h] = [IdleHandler EXCEPT
              !.phase = "done", !.req = handler[h].req, !.results = final]]
         /\ cache' = IF skip THEN cache
                     ELSE (cache \ CachedFor(h, handler[h].req)) \union {entry}
  /\ UNCHANGED <<rows, state, sweep, wipe, now, ledger>>

\* An error after the commit: the client gets a 500 and nothing is cached.
FailAfterCommit(h) ==
  /\ handler[h].phase = "committed" /\ MustCacheSnapshot(h)
  /\ handler' = [handler EXCEPT ![h] = IdleHandler]
  /\ UNCHANGED <<rows, state, cache, sweep, wipe, now, ledger>>

Respond(h) ==
  /\ handler[h].phase = "done"
  /\ handler' = [handler EXCEPT ![h] = IdleHandler]
  /\ UNCHANGED <<rows, state, cache, sweep, wipe, now, ledger>>

-----------------------------------------------------------------------------
(* The server process, retention and the account wipe *)

\* The entry's time to live is over, or a full cache evicts it.
ExpireCache ==
  /\ \E e \in cache : cache' = cache \ {e}
  /\ UNCHANGED <<rows, state, handler, sweep, wipe, now, ledger>>

\* A server process stops and starts again: its requests and its cache are gone, its
\* open transactions are rolled back.
Restart(inst) ==
  /\ handler' = [h \in Handlers |-> IF Home[h] = inst THEN IdleHandler ELSE handler[h]]
  /\ cache' = {e \in cache : e.inst # inst}
  /\ UNCHANGED <<rows, state, sweep, wipe, now, ledger>>

\* The job reads the snapshot's sequence number and time and works from that copy.
SweepStart(cutoff) ==
  /\ ~sweep.on
  /\ state.snapSeq > 0 /\ state.snapAt >= cutoff
  /\ sweep' = [on |-> TRUE, seq |-> state.snapSeq, cutoff |-> cutoff]
  /\ UNCHANGED <<rows, state, handler, cache, wipe, now, ledger>>

\* Old and covered by the snapshot.
IsDoomed(r) == r.seq <= sweep.seq /\ r.at < sweep.cutoff

\* Mutant: the batches are not ordered.
SweepDeleteAny ==
  /\ sweep.on
  /\ \E doomed \in rows \ wipe.doomed : IsDoomed(doomed) /\ rows' = rows \ {doomed}
  /\ UNCHANGED <<state, handler, cache, sweep, wipe, now, ledger>>

\* One more row in sequence order; a batch of the code is several of these.
SweepDelete ==
  /\ sweep.on
  /\ \E doomed \in rows \ wipe.doomed :
       /\ IsDoomed(doomed)
       /\ \A r \in rows : IsDoomed(r) => doomed.seq <= r.seq
       /\ rows' = rows \ {doomed}
  /\ UNCHANGED <<state, handler, cache, sweep, wipe, now, ledger>>

\* Nothing left to delete, the budget is used up, or the job fails.
SweepEnd ==
  /\ sweep.on
  /\ sweep' = NoSweep
  /\ UNCHANGED <<rows, state, handler, cache, wipe, now, ledger>>

\* deleteAllUserData: its first statement takes the rows committed at that moment.
WipeOps ==
  /\ ~wipe.on /\ wipe.count < MaxWipes
  /\ wipe' = [on |-> TRUE, doomed |-> rows, count |-> wipe.count + 1]
  /\ UNCHANGED <<rows, state, handler, cache, sweep, now, ledger>>

\* Mutant: the open uploads write no row that the wipe has written or deleted, as when
\* the counters were kept outside of the transaction.
WipeCommitUnnoticed(inst) ==
  /\ wipe.on
  /\ rows' = rows \ wipe.doomed
  /\ state' = NoState
  /\ ledger' = rows \ wipe.doomed
  /\ cache' = {e \in cache : e.inst # inst}
  /\ wipe' = [wipe EXCEPT !.on = FALSE, !.doomed = {}]
  /\ UNCHANGED <<handler, sweep, now>>

\* ... its later statements delete the user_sync_state row as it is by then and reset the
\* storage counter of the user, which every upload writes; after the commit it clears the
\* request cache of its own process.
WipeCommit(inst) ==
  /\ wipe.on
  /\ rows' = rows \ wipe.doomed
  /\ state' = NoState
  /\ ledger' = rows \ wipe.doomed
  /\ cache' = {e \in cache : e.inst # inst}
  /\ handler' = MarkStale(handler)
  /\ wipe' = [wipe EXCEPT !.on = FALSE, !.doomed = {}]
  /\ UNCHANGED <<sweep, now>>

WipeAbort ==
  /\ wipe.on
  /\ wipe' = [wipe EXCEPT !.on = FALSE, !.doomed = {}]
  /\ UNCHANGED <<rows, state, handler, cache, sweep, now, ledger>>

Tick ==
  /\ now < MaxTime
  /\ now' = now + 1
  /\ UNCHANGED <<rows, state, handler, cache, sweep, wipe, ledger>>

-----------------------------------------------------------------------------
Init ==
  /\ rows = {} /\ ledger = {} /\ cache = {}
  /\ state = NoState
  /\ handler = [h \in Handlers |-> IdleHandler]
  /\ sweep = NoSweep /\ wipe = NoWipe
  /\ now = 1

HandlerStep(h) ==
  \/ \E req \in Requests : ReceiveRequest(h, req)
  \/ TakeStorageLock(h)
  \/ AnswerExistingImport(h)
  \/ PassImportCheck(h)
  \/ RejectForQuota(h)
  \/ FreeStorage(h)
  \/ BeginUpload(h)
  \/ ProcessOperation(h)
  \/ CommitUpload(h)
  \/ AbortUpload(h)
  \/ CacheSnapshot(h)
  \/ FinishRequest(h)
  \/ FailAfterCommit(h)
  \/ Respond(h)

Maintenance ==
  \/ ExpireCache
  \/ \E inst \in Instances : Restart(inst)
  \/ \E cutoff \in 2..MaxTime : cutoff <= now /\ SweepStart(cutoff)
  \/ SweepDelete
  \/ SweepEnd
  \/ WipeOps
  \/ \E inst \in Instances : WipeCommit(inst)
  \/ WipeAbort
  \/ Tick

Next == (\E h \in Handlers : HandlerStep(h)) \/ Maintenance

Spec == Init /\ [][Next]_vars

-----------------------------------------------------------------------------
(* Properties *)

RowType ==
  [op : Ops, ts : 0..MaxTime, seq : 1..MaxSeq, clk : Clock, at : 1..MaxTime]

Verdicts == {"ACCEPTED", "VALIDATION_ERROR", "DUPLICATE_OPERATION", "INVALID_OP_ID",
             "CONFLICT", "SYNC_IMPORT_EXISTS", "INTERNAL_ERROR"}

ResultType == [op : Ops, verdict : Verdicts, seq : 0..MaxSeq]

HandlerType ==
  [phase : Phases, req : Requests \union {NoRequest}, ts : 0..MaxTime,
   view : SUBSET RowType, base : 0..MaxSeq, at : 0..MaxTime,
   fresh : SUBSET RowType, results : Seq(ResultType), stale : BOOLEAN]

\* The type invariant of the server's state.
TypeOK ==
  /\ rows \subseteq RowType
  /\ state \in [lastSeq : 0..MaxSeq, fullSeq : 0..MaxSeq, fullClk : Clock,
               snapSeq : 0..MaxSeq, snapAt : 0..MaxTime]
  /\ handler \in [Handlers -> HandlerType]
  /\ cache \subseteq [inst : Instances, req : Requests, results : Seq(ResultType)]
  /\ sweep \in [on : BOOLEAN, seq : 0..MaxSeq, cutoff : 0..MaxTime]
  /\ wipe \in [on : BOOLEAN, doomed : SUBSET RowType, count : 0..MaxWipes]
  /\ now \in 1..MaxTime
  /\ ledger \subseteq RowType

\* The counter of user_sync_state covers every stored row: uploadOps' transactions never
\* publish a row that is beyond the counter which devices compare their cursors with.
CounterCoversRows == \A r \in rows : r.seq <= state.lastSeq

\* Conflict detection holds across concurrent transactions: whoever wrote an entity
\* had seen the clock of the row that wrote it before, so no update is lost.
SeenPriorWriter ==
  \A r \in rows : ~r.op.full =>
    \A entity \in r.op.ents :
      \A prior \in LatestTouching({p \in rows : p.seq < r.seq}, entity) :
        Dominates(r.op.clock, prior.clk)

\* A device that starts from the stored full-state clock can edit every entity that
\* an older row touched: the clock covers all older rows, and no full-state row is
\* newer than the one it belongs to.
FullStateClockCovers ==
  \A r \in rows :
    /\ r.seq < state.fullSeq => Dominates(state.fullClk, r.clk)
    /\ r.op.full => r.seq <= state.fullSeq

\* What retention and quota cleanup have deleted is covered by a newer full-state row
\* or by the cached snapshot.
DeletedIsCovered ==
  \A r \in ledger \ rows : r.seq < MaxSeqOf(FullRows(rows)) \/ r.seq <= state.snapSeq

\* A retry that the request cache answers is told the truth: what a cached result calls
\* accepted was stored, under that number, after the user's last clean slate.
CachedResultsAreStored ==
  \A e \in cache : \A i \in DOMAIN e.results :
    e.results[i].verdict = "ACCEPTED" =>
      \E r \in ledger : r.op = e.results[i].op /\ r.seq = e.results[i].seq

\* Sequence numbers only grow, over clean slates too: a new row is behind every number
\* that was ever published, so that no device's cursor has passed it.
NewRowsGoLast ==
  [][ /\ state'.lastSeq >= state.lastSeq
      /\ \A r \in rows' \ rows : r.seq > state.lastSeq ]_vars

\* Rows come with the numbers that their transaction publishes, also when an account wipe
\* takes the counter away beneath it: an upload that began before a wipe stores nothing
\* after it, and no row gets a number that a device is told only later or never.
NumbersArePublished ==
  [][ \A r \in rows' \ rows : state.lastSeq < r.seq /\ r.seq <= state'.lastSeq ]_vars

\* Of the devices that find an empty server and import their state at the same time, one
\* wins: under the storage lock of one process no "initial" import is stored behind
\* another full-state operation, which would replace the first device's data.
FirstImportIsAlone ==
  [][ \A h \in Handlers :
        handler[h].phase = "open" /\ handler'[h].phase = "committed" /\ IsFirstImport(h)
        => FullRows(rows) = {} ]_vars

\* What the code says of itself and does not keep: sync.routes.snapshot-handler.ts calls the
\* retry of a snapshot upload idempotent.  So the retry of an import that replaced the
\* history has no second effect: what was uploaded after its first attempt stays.
RetriedSnapshotKeepsHistory ==
  [][ \A h \in Handlers :
        handler[h].phase = "open" /\ handler'[h].phase = "committed"
          /\ handler[h].req.kind = "snapshot"
        => \A first \in rows : first.op = handler[h].req.batch[1] =>
             {r \in rows : r.seq > first.seq} \subseteq rows' ]_vars

-----------------------------------------------------------------------------
(* The abstract log *)

Log == INSTANCE OperationLog WITH log <- rows, last <- state.lastSeq

\* However the handlers' transactions, retention and quota cleanup interleave, the table
\* is one that uploads which run one at a time could have built.
BehavesAsLog == Log!Spec

-----------------------------------------------------------------------------
(* What makes TypeOK, CounterCoversRows and NumbersArePublished inductive *)

AreUnique(table) ==
  \A r1, r2 \in table : r1.seq = r2.seq \/ r1.op.id = r2.op.id => r1 = r2

RowsAreUnique == AreUnique(rows)

\* A busy handler knows its request, and has a result for each operation once the
\* transaction has ended.
KnowsRequest(h) ==
  /\ handler[h].phase # "idle" => handler[h].req \in Requests
  /\ handler[h].phase \in {"committed", "snapshotted"} =>
       Len(handler[h].results) = Len(handler[h].req.batch)

\* Nothing is left over from an earlier request when a transaction begins.
LockedIsFresh(h) ==
  handler[h].phase \in {"received", "locked", "checked"} =>
    handler[h].fresh = {} /\ handler[h].results = <<>> /\ ~handler[h].stale

\* The numbers a transaction hands out are consecutive from the counter it has read, and
\* that counter is still the published one unless the transaction is doomed to abort.
NumbersRows(h) ==
  handler[h].phase = "open" =>
    /\ handler[h].base + Len(handler[h].req.batch) <= MaxSeq
    /\ Len(handler[h].results) <= Len(handler[h].req.batch)
    /\ Cardinality(handler[h].fresh) <= Len(handler[h].results)
    /\ \A r \in handler[h].fresh :
         handler[h].base < r.seq /\ r.seq <= handler[h].base + Cardinality(handler[h].fresh)
    /\ AreUnique(handler[h].fresh)
    /\ handler[h].stale \/ handler[h].base = state.lastSeq

\* A transaction reads finitely many rows and stamps its own with the time it began.
ReadsSnapshot(h) ==
  /\ IsFiniteSet(handler[h].view) /\ IsFiniteSet(handler[h].fresh)
  /\ handler[h].phase = "open" => handler[h].at \in 1..MaxTime

HandlerInv(h) ==
  KnowsRequest(h) /\ LockedIsFresh(h) /\ NumbersRows(h) /\ ReadsSnapshot(h)

\* What an open transaction sees are rows below its numbers; while it may still commit they
\* contain the table, which has lost nothing but a beginning since then.
ViewIsCurrent(h) ==
  handler[h].phase = "open" =>
    /\ \A seen \in handler[h].view : seen.seq <= handler[h].base
    /\ handler[h].stale \/
         /\ rows \subseteq handler[h].view
         /\ \A seen \in handler[h].view, r \in rows : seen.seq > r.seq => seen \in rows
         /\ \A r \in rows : r.at <= handler[h].at
    /\ handler[h].at <= now

\* Each of its rows was found to follow what is visible before the row.
JudgesFresh(h) ==
  handler[h].phase = "open" =>
    \A new \in handler[h].fresh :
      /\ new.at = handler[h].at
      /\ ~DetectConflict({seen \in Visible(h) : seen.seq < new.seq}, new.op)

\* A later number means a later time, so that the rows that are old are a beginning.
RowsAge ==
  /\ \A r \in rows : r.at <= now
  /\ \A r1, r2 \in rows : r1.seq < r2.seq => r1.at <= r2.at

SerialInv ==
  /\ RowsAge
  /\ \A h \in Handlers : ViewIsCurrent(h) /\ JudgesFresh(h)

ServerInv ==
  /\ TypeOK
  /\ IsFiniteSet(rows)
  /\ RowsAreUnique
  /\ \A h \in Handlers : HandlerInv(h)

-----------------------------------------------------------------------------
(* What makes FirstImportIsAlone, FullStateClockCovers and DeletedIsCovered inductive *)

\* One handler of a process at a time is between the storage lock and its reply.
LockIsExclusive ==
  \A g, h \in Handlers : Home[g] = Home[h] /\ HoldsLock(g) /\ HoldsLock(h) => g = h

\* What the check under the lock has found stays true until the transaction ends.
ChecksHold ==
  \A h \in Handlers :
    IsFirstImport(h) /\ handler[h].phase \in {"checked", "open"} => FullRows(rows) = {}

IsCovered(seq) == (\E r \in FullRows(rows) : seq < r.seq) \/ seq <= state.snapSeq

\* The number of a full-state row that was accepted, or of one before the last clean slate.
IsPublished(seq) ==
  \/ \E r \in ledger : r.op.full /\ r.seq = seq
  \/ \A r \in ledger : r.seq > seq

\* The snapshot that a handler is about to cache is one of a row it has published.
ReplyIsPublished(h) ==
  LET first == handler[h].results[1] IN
  handler[h].req.kind = "snapshot" /\ handler[h].results # <<>> /\ first.verdict = "ACCEPTED" =>
    /\ handler[h].phase = "open" =>
         \E r \in handler[h].fresh : r.op.full /\ r.seq = first.seq
    /\ handler[h].phase = "committed" => first.seq <= state.lastSeq /\ IsPublished(first.seq)

\* The copy that the retention job works from may be outdated, but a newer full-state row or
\* a newer snapshot has taken its place, or the job has nothing left to delete.
SweepIsHarmless ==
  sweep.on =>
    /\ sweep.seq <= state.lastSeq
    /\ IsCovered(sweep.seq) \/ \A r \in ledger : r.seq > sweep.seq

LedgerInv ==
  /\ rows \subseteq ledger
  /\ \A r \in ledger : r.seq <= state.lastSeq
  /\ \A r \in ledger \ rows : IsCovered(r.seq)
  /\ state.snapSeq <= state.lastSeq
  /\ SweepIsHarmless
  /\ \A h \in Handlers : ReplyIsPublished(h)

FullClockInv == FullStateClockCovers /\ state.fullSeq <= state.lastSeq

-----------------------------------------------------------------------------
(* What makes CachedResultsAreStored inductive, on one process *)

\* A result that says so speaks of one of these rows.
AreStoredIn(results, table) ==
  \A i \in DOMAIN results : results[i].verdict = "ACCEPTED" =>
    \E r \in table : r.op = results[i].op /\ r.seq = results[i].seq

\* A snapshot that was found to be there is the row with its id.
KnowsDuplicates(h, table) ==
  handler[h].req.kind = "snapshot" =>
    \A i \in DOMAIN handler[h].results, r \in table :
      /\ handler[h].results[i].verdict = "DUPLICATE_OPERATION"
      /\ r.op.id = handler[h].results[i].op.id
      => r.op = handler[h].results[i].op

\* Nothing is added beside a transaction, or between its commit and its reply.
ReplyIsStored(h) ==
  /\ handler[h].phase = "open" =>
       /\ rows \subseteq handler[h].view /\ AreUnique(handler[h].view)
       /\ AreStoredIn(handler[h].results, handler[h].fresh)
       /\ KnowsDuplicates(h, handler[h].view \union handler[h].fresh)
  /\ handler[h].phase \in {"committed", "snapshotted"} =>
       /\ AreStoredIn(handler[h].results, ledger)
       /\ KnowsDuplicates(h, rows)

RepliesAreStored ==
  CachedResultsAreStored /\ \A h \in Handlers : ReplyIsStored(h)
=============================================================================
