---------------------------- MODULE ClockExchange ----------------------------
(***************************************************************************)
(* Devices that edit the same entities offline and exchange their          *)
(* operations through the server's log.                                    *)
(*                                                                         *)
(* A device keeps its own log of operations, the vector clock it builds    *)
(* new operations on, and a cursor into the server's log.  It downloads    *)
(* the rows of the others, settles conflicts with its pending operations   *)
(* by last writer wins, uploads what is pending and settles what the       *)
(* server rejects.  One synchronisation runs at a time on a device; edits  *)
(* come between any two of its steps.  A crash may come between the writes *)
(* with which it processes rows or settles what was rejected.              *)
(*                                                                         *)
(* An operation sets the whole of one entity.  Deletions, archiving,       *)
(* full-state operations and pages of more rows than a reply carries are   *)
(* left out; the local log is too short to be compacted or to get a second *)
(* snapshot, and the server only appends.                                  *)
(***************************************************************************)
EXTENDS SyncVectorClock, SequencesExt, Subsequences

CONSTANTS
  Entities,
  Stamps,        \* timestamps that the devices' wall clocks may show
  SharedTime,    \* whether the devices' wall clocks agree
  MaxEdits,      \* bound on the edits of a device
  MaxFailures,   \* bound on lost replies and failed downloads
  MaxRestarts,   \* bound on restarts of the application
  MaxAttempts    \* MAX_CONCURRENT_RESOLUTION_ATTEMPTS, 3 in the code

ASSUME StampsAssumption == Stamps \subseteq Nat /\ Stamps # {}
ASSUME LimitsAssumption == {MaxEdits, MaxFailures, MaxRestarts, MaxAttempts} \subseteq Nat

VARIABLES
  rows,      \* the server's log: operations with pruned clocks, in sequence order
  device,    \* each device's log, clock, cursor and synchronisation
  failures,  \* the number of failures so far
  restarts   \* the number of restarts so far

vars == <<rows, device, failures, restarts>>

\* An operation has the fields id, ent, clk, ts and val; val is the edit from which the
\* state that it carries stems.
Author(op) == op.id[1]

\* The value of an entity before its first edit.
NoEdit == <<0, 0>>

NoReply == [results |-> <<>>, newRows |-> <<>>, latest |-> 0]

\* The state snapshot covers the first upto entries of the log; clock is that of the device
\* when the snapshot was taken.
NoSnapshot == [upto |-> 0, clock |-> ZeroClock]

FreshDevice ==
  [log |-> <<>>, clock |-> ZeroClock, value |-> [e \in Entities |-> NoEdit], cursor |-> 0,
   attempts |-> [e \in Entities |-> 0], phase |-> "idle", reply |-> NoReply,
   rejected |-> <<>>, extra |-> ZeroClock, snapshot |-> NoSnapshot]

ClocksOf(ops) == {op.clk : op \in ops}

\* The operations of a sequence that are on an entity, by position, and the last of them.
OnEntity(ops, ent) == {i \in DOMAIN ops : ops[i].ent = ent}

LatestOn(ops, ent) ==
  ops[CHOOSE i \in OnEntity(ops, ent) : \A j \in OnEntity(ops, ent) : j <= i]

-----------------------------------------------------------------------------
(* The server *)

\* Mutant: only an operation that is superseded is refused.
FollowsLoosely(op, prior) == CompareClocks(op.clk, prior.clk) # "LESS_THAN"

\* resolveConflictForExistingOp
Follows(op, prior) ==
  LET cmp == CompareClocks(op.clk, prior.clk)
  IN  \/ cmp = "GREATER_THAN"
      \/ cmp = "EQUAL" /\ Author(op) = Author(prior)

Verdict(table, op) ==
  IF \E r \in ToSet(table) : r.id = op.id THEN "DUPLICATE_OPERATION"
  ELSE IF OnEntity(table, op.ent) = {} \/ Follows(op, LatestOn(table, op.ent)) THEN "ACCEPTED"
  ELSE "CONFLICT"

Stored(op) == [op EXCEPT !.clk = LimitClock(@, {Author(op)})]

ServeOne(served, op) ==
  LET verdict  == Verdict(served.rows, op)
      existing == IF verdict = "CONFLICT" THEN LatestOn(served.rows, op.ent).clk
                  ELSE ZeroClock
  IN  [rows    |-> IF verdict = "ACCEPTED" THEN Append(served.rows, Stored(op))
                   ELSE served.rows,
       results |-> Append(served.results,
                          [op |-> op, verdict |-> verdict, existing |-> existing])]

Serve(table, batch) ==
  LET after[n \in 0..Len(batch)] ==
        IF n = 0 THEN [rows |-> table, results |-> <<>>]
        ELSE ServeOne(after[n - 1], batch[n])
  IN  after[Len(batch)]

\* What a request of c after row number from brings: the others' rows.
RowsOfOthers(c, table, from) ==
  Chosen(table, {i \in from + 1..Len(table) : Author(table[i]) # c})

-----------------------------------------------------------------------------
(* A device's log *)

Entry(op, status) == [op |-> op, status |-> status]

OpsOf(log) == [i \in DOMAIN log |-> log[i].op]

PendingAt(dev) == {i \in DOMAIN dev.log : dev.log[i].status = "pending"}

\* In the order of the log, and as a set.
Pending(dev) == Chosen(OpsOf(dev.log), PendingAt(dev))

PendingOps(dev) == {dev.log[i].op : i \in PendingAt(dev)}

PendingOn(dev, ent) == {op \in PendingOps(dev) : op.ent = ent}

IsPending(dev, op) == op \in PendingOps(dev)

Knows(dev, op) == \E i \in DOMAIN dev.log : dev.log[i].op.id = op.id

\* Those of the operations that are pending get a new status.
Mark(log, ops, status) ==
  [i \in DOMAIN log |->
     IF log[i].status = "pending" /\ log[i].op \in ops THEN Entry(log[i].op, status) ELSE log[i]]

LogEntries(ops, status) == [i \in DOMAIN ops |-> Entry(ops[i], status)]

-----------------------------------------------------------------------------
(* Rows of the others *)

\* The clock of the last operation on the entity that was not rejected, as far as it
\* comes after the snapshot; otherwise, for an entity in the snapshot, the snapshot's.
LastClock(dev, ent) ==
  LET on   == OnEntity(OpsOf(dev.log), ent)
      kept == {i \in on : i > dev.snapshot.upto /\ dev.log[i].status # "rejected"}
  IN  IF kept # {} THEN dev.log[CHOOSE i \in kept : \A j \in kept : j <= i].op.clk
      ELSE IF \E i \in on : i <= dev.snapshot.upto THEN dev.snapshot.clock
      ELSE ZeroClock

\* buildEntityFrontier: it is merged with the clocks of the pending operations.
Frontier(dev, ent) == MaxOverClocks({LastClock(dev, ent)} \union ClocksOf(PendingOn(dev, ent)))

MaxStamp(ops) ==
  CHOOSE ts \in {op.ts : op \in ops} : \A op \in ops : ts >= op.ts

\* Last writer wins, and the remote writer wins a tie.
LocalWins(dev, row) == MaxStamp(PendingOn(dev, row.ent)) > row.ts

\* What becomes of a downloaded row.
Outcome(dev, row) ==
  LET cmp == CompareClocks(Frontier(dev, row.ent), row.clk)
  IN  IF cmp \in {"GREATER_THAN", "EQUAL"} THEN "skip"
      ELSE IF cmp = "LESS_THAN" \/ PendingOn(dev, row.ent) = {} THEN "apply"
      ELSE IF LocalWins(dev, row) THEN "local wins" ELSE "remote wins"

\* The n-th operation that the device makes from now on.
NewOp(c, dev, n, ent, clk, ts, val) ==
  LET own == Cardinality({i \in DOMAIN dev.log : Author(dev.log[i].op) = c})
  IN  [id |-> <<c, own + n>>, ent |-> ent, clk |-> clk, ts |-> ts, val |-> val]

\* Mutant: the settling operation takes the time of the present.
LocalWinOpOfNow(c, dev, n, row) ==
  LET local == PendingOn(dev, row.ent)
  IN  NewOp(c, dev, n, row.ent,
            IncrementClock(MaxOverClocks(ClocksOf(local) \union {row.clk}), c),
            CHOOSE ts \in Stamps : \A other \in Stamps : other <= ts, dev.value[row.ent])

\* _createLocalWinUpdateOp: the present state under a clock that succeeds the clocks of
\* both sides, with the time of the edit that won.
LocalWinOp(c, dev, n, row) ==
  LET local == PendingOn(dev, row.ent)
  IN  NewOp(c, dev, n, row.ent,
            IncrementClock(MaxOverClocks(ClocksOf(local) \union {row.clk}), c),
            MaxStamp(local), dev.value[row.ent])

\* appendWithVectorClockUpdate replaces the clock by that of the appended operation.
ClockAfter(c, dev, applied, made) ==
  IF made # <<>> THEN Last(made).clk
  ELSE IF applied = {} THEN dev.clock
  ELSE LimitClock(MergeClocks(dev.clock, MaxOverClocks(ClocksOf(applied))), {c})

\* processRemoteOps under the lock of the log.  All outcomes are decided on the log as
\* it was: the positions of the rows in the batch by what becomes of them.
Outcomes(dev, batch) ==
  LET Are(outcome) == {i \in DOMAIN batch : Outcome(dev, batch[i]) = outcome}
  IN  [localWins |-> Are("local wins"), remoteWins |-> Are("remote wins"), apply |-> Are("apply")]

\* Then the database is written in this order: the winning rows, the beaten
\* rows, the rows without a conflict (rows that are stored already are left out), the
\* rejection of the contested pending operations, that of the beaten rows, and one by
\* one the operations of the local winners.  The plan says what each of them writes.
Plan(c, dev, batch, are) ==
  LET New(part) == Chosen(batch, {i \in part : ~Knows(dev, batch[i])})
      beaten    == Chosen(batch, are.localWins)
  IN  [winners   |-> New(are.remoteWins),
       beaten    |-> New(are.localWins),
       others    |-> New(are.apply),
       contested |-> {op \in PendingOps(dev) :
                        \E i \in are.localWins \union are.remoteWins : batch[i].ent = op.ent},
       made      |-> [n \in DOMAIN beaten |-> LocalWinOp(c, dev, n, beaten[n])]]

AllWrites(plan) == 5 + Len(plan.made)

\* The log after the first n writes of a plan.
LogAfter(log, plan, n) ==
  LET Upto(k, part) == IF n >= k THEN part ELSE <<>>
  IN  (IF n >= 4 THEN Mark(log, plan.contested, "rejected") ELSE log)
        \o Upto(1, LogEntries(plan.winners, "applied"))
        \o Upto(2, LogEntries(plan.beaten, IF n >= 5 THEN "rejected" ELSE "applied"))
        \o Upto(3, LogEntries(plan.others, "applied"))
        \o Upto(6, LogEntries(SubSeq(plan.made, 1, n - 5), "pending"))

\* An operation sets the whole of its entity.
Applied(value, ops) ==
  [e \in Entities |-> IF OnEntity(ops, e) = {} THEN value[e] ELSE LatestOn(ops, e).val]

\* The device when all writes of a plan have been made and its rows are applied.
Processed(c, dev, plan) ==
  LET applied == plan.winners \o plan.others
  IN  [dev EXCEPT
        !.log   = LogAfter(@, plan, AllWrites(plan)),
        !.value = Applied(@, applied),
        !.clock = ClockAfter(c, dev, ToSet(applied), plan.made)]

\* Rows from+1.. of the others that are not in the device's log yet.
Unknown(c, dev, from) ==
  Chosen(rows, {i \in from + 1..Len(rows) : Author(rows[i]) # c /\ ~Knows(dev, rows[i])})

\* A start of the application: the snapshot, if there is one, is loaded and its clock
\* replaces the stored one; then the rest of the log is replayed, rejected operations
\* included, and its clocks are merged.  A replay of the whole log ends with a snapshot.
Started(c, dev) ==
  LET ops      == OpsOf(dev.log)
      first    == dev.snapshot = NoSnapshot
      restored == IF first THEN dev ELSE [dev EXCEPT !.clock = LimitClock(dev.snapshot.clock, {c})]
      tail     == {ops[i] : i \in dev.snapshot.upto + 1..Len(ops)}
      clock    == ClockAfter(c, restored, tail, <<>>)
  IN  [dev EXCEPT
        !.value = Applied([e \in Entities |-> NoEdit], ops),
        !.clock = clock,
        !.snapshot = IF first THEN [upto |-> Len(ops), clock |-> LimitClock(clock, {c})] ELSE @,
        !.phase = "idle", !.reply = NoReply, !.rejected = <<>>, !.extra = ZeroClock,
        !.attempts = [e \in Entities |-> 0]]

-----------------------------------------------------------------------------
(* What a device does *)

\* The wall clock of a device never goes back.
LastStamp(c) ==
  LET own == {x \in ToSet(device[c].log) : Author(x.op) = c}
  IN  IF own = {} THEN 0
      ELSE CHOOSE ts \in {x.op.ts : x \in own} : \A x \in own : ts >= x.op.ts

IsEditOf(c, op) == op.val = op.id /\ Author(op) = c

EditsMade(c) == Cardinality({x \in ToSet(device[c].log) : IsEditOf(c, x.op)})

\* The user edits an entity; the operation and the clock are stored together.
Edit(c, ent, ts) ==
  LET dev == device[c]
      op  == NewOp(c, dev, 1, ent, IncrementClock(dev.clock, c), ts, NoEdit)
      new == [op EXCEPT !.val = op.id]
  IN  /\ \A d \in IF SharedTime THEN Clients ELSE {c} : ts >= LastStamp(d)
      /\ EditsMade(c) < MaxEdits
      /\ device' = [device EXCEPT ![c] = [dev EXCEPT
           !.log = Append(@, Entry(new, "pending")), !.clock = new.clk, !.value[ent] = new.id]]
      /\ UNCHANGED <<rows, failures, restarts>>

\* A download: rows stored after its last page was read come with the next one.
Download(c) ==
  LET dev == device[c]
  IN  /\ dev.phase = "idle" /\ dev.cursor < Len(rows)
      /\ \E new \in {Unknown(c, dev, dev.cursor)} : \E are \in {Outcomes(dev, new)} :
         \E plan \in {Plan(c, dev, new, are)} :
           device' = [device EXCEPT ![c] =
                       [Processed(c, dev, plan) EXCEPT !.cursor = Len(rows)]]
      /\ UNCHANGED <<rows, failures, restarts>>

\* Mutant: the cursor moves with the request.
UploadAndMove(c) ==
  LET served == Serve(rows, Pending(device[c]))
  IN  /\ device[c].phase = "idle" /\ PendingOps(device[c]) # {}
      /\ rows' = served.rows
      /\ device' = [device EXCEPT ![c].phase = "uploading", ![c].cursor = Len(served.rows),
           ![c].reply = [results |-> served.results, latest |-> Len(served.rows),
             newRows |-> RowsOfOthers(c, served.rows, device[c].cursor)]]
      /\ UNCHANGED <<failures, restarts>>

\* The server takes what is pending and piggybacks the rows behind the cursor.
Upload(c) ==
  /\ device[c].phase = "idle" /\ PendingOps(device[c]) # {}
  /\ \E batch \in {Pending(device[c])} : \E served \in {Serve(rows, batch)} :
       /\ rows' = served.rows
       /\ device' = [device EXCEPT ![c].phase = "uploading", ![c].reply =
            [results |-> served.results, latest |-> Len(served.rows),
             newRows |-> RowsOfOthers(c, served.rows, device[c].cursor)]]
  /\ UNCHANGED <<failures, restarts>>

\* A synchronisation with nothing to upload and hence nothing rejected.
UploadNothing(c) ==
  /\ device[c].phase = "idle" /\ PendingOps(device[c]) = {}
  /\ device' = [device EXCEPT ![c].attempts = [e \in Entities |-> 0]]
  /\ UNCHANGED <<rows, failures, restarts>>

ResultsWith(reply, verdict) == {r \in ToSet(reply.results) : r.verdict = verdict}

\* Mutant: all operations of the request are taken as accepted.
UploadedAll(dev) ==
  LET sent == {r.op : r \in ToSet(dev.reply.results)}
  IN  [dev EXCEPT !.log = Mark(@, sent, "synced")]

\* Accepted operations are synced before anything else is done with a reply.
Uploaded(dev) ==
  LET accepted == {r.op : r \in ResultsWith(dev.reply, "ACCEPTED")}
  IN  [dev EXCEPT !.log = Mark(@, accepted, "synced")]

\* Mutant: a duplicate is left pending.
KeepDuplicates(log, reply) == log

\* Duplicates were stored by an upload whose reply got lost.
MarkDuplicates(log, reply) ==
  LET stored == {r.op : r \in ResultsWith(reply, "DUPLICATE_OPERATION")}
  IN  Mark(log, stored, "synced")

\* Mutant: one attempt more than the limit.
GivesUpLate(dev, ent) == dev.attempts[ent] > MaxAttempts

GivesUp(dev, ent) == dev.attempts[ent] >= MaxAttempts

\* Conflicts that are still pending after a reply wait for a download, unless their entity
\* has been tried too often: then they are rejected for good.
Answered(dev, reply) ==
  LET AllAccepted == ResultsWith(reply, "ACCEPTED") = ToSet(reply.results)
      open     == {r \in ResultsWith(reply, "CONFLICT") : IsPending(dev, r.op)}
      tried    == {r.op.ent : r \in open}
      over     == {e \in tried : GivesUp(dev, e)}
      retry    == Chosen(reply.results, {i \in DOMAIN reply.results :
                    reply.results[i] \in open /\ reply.results[i].op.ent \notin over})
      hopeless == {r.op : r \in {x \in open : x.op.ent \in over}}
  IN  [dev EXCEPT
        !.log      = Mark(@, hopeless, "rejected"),
        !.cursor   = reply.latest,
        !.attempts = [e \in Entities |->
           IF AllAccepted \/ e \in over THEN 0
           ELSE IF e \in tried THEN @[e] + 1 ELSE @[e]],
        !.phase    = IF retry = <<>> THEN "idle" ELSE "resolving",
        !.reply    = NoReply,
        !.rejected = retry]

\* The reply: accepted operations are synced, piggybacked rows processed, duplicates
\* marked as synced; then the conflicts are looked at.
ReceiveReply(c) ==
  LET reply == device[c].reply
  IN  /\ device[c].phase = "uploading"
      /\ \E old \in {Uploaded(device[c])} :
         \E are \in {Outcomes(old, reply.newRows)} :
         \E plan \in {Plan(c, old, reply.newRows, are)} :
         \E merged \in {Processed(c, old, plan)} :
         \E dev \in {[merged EXCEPT !.log = MarkDuplicates(@, reply)]} :
           device' = [device EXCEPT ![c] = Answered(dev, reply)]
      /\ UNCHANGED <<rows, failures, restarts>>

StillPending(dev) ==
  Chosen(dev.rejected, {i \in DOMAIN dev.rejected : IsPending(dev, dev.rejected[i].op)})

ExistingClocks(rejected) == {r.existing : r \in ToSet(rejected)}

\* The download after a rejection brings new rows: conflict detection settles what it
\* can; the rest is settled with the clocks that the server has sent.
DownloadForRejected(c) ==
  LET dev == device[c]
      new == Unknown(c, dev, dev.cursor)
  IN  /\ dev.phase = "resolving" /\ new # <<>>
      /\ \E batch \in {new} : \E are \in {Outcomes(dev, batch)} :
         \E plan \in {Plan(c, dev, batch, are)} : \E after \in {Processed(c, dev, plan)} :
           device' = [device EXCEPT ![c] = [after EXCEPT
             !.cursor   = Len(rows), !.rejected = StillPending(after),
             !.phase    = IF StillPending(after) = <<>> THEN "idle" ELSE "settling",
             !.extra    = MaxOverClocks(ExistingClocks(StillPending(after)))]]
      /\ UNCHANGED <<rows, failures, restarts>>

\* It brings nothing new: there will be a second one.
DownloadNothing(c) ==
  /\ device[c].phase = "resolving"
  /\ Unknown(c, device[c], device[c].cursor) = <<>>
  /\ device' = [device EXCEPT ![c].cursor = Len(rows), ![c].phase = "forcing"]
  /\ UNCHANGED <<rows, failures, restarts>>

\* The second download starts at the beginning of the log and collects the clocks of
\* all rows.  What is still pending was looked up before it.
ForceDownload(c) ==
  LET dev == device[c]
  IN  /\ dev.phase = "forcing"
      /\ \E all \in {Unknown(c, dev, 0)} : \E are \in {Outcomes(dev, all)} :
         \E plan \in {Plan(c, dev, all, are)} :
           device' = [device EXCEPT ![c] = [Processed(c, dev, plan) EXCEPT
             !.cursor = Len(rows), !.phase = "settling",
             !.extra = MaxOverClocks(ClocksOf(ToSet(RowsOfOthers(c, rows, 0)))
                                       \union ExistingClocks(dev.rejected))]]
      /\ UNCHANGED <<rows, failures, restarts>>

Superseded(dev) == [i \in DOMAIN dev.rejected |-> dev.rejected[i].op]

\* resolveSupersededLocalOps: one new operation for each entity of the rejected ones, all
\* on top of the same clock.
Settling(c, dev) ==
  LET old     == Superseded(dev)
      global  == MergeClocks(dev.clock, dev.extra)
      On(ent) == {op \in ToSet(old) : op.ent = ent}
      firsts  == Chosen(old, {i \in DOMAIN old : \A j \in 1..i - 1 : old[j].ent # old[i].ent})
  IN  [n \in DOMAIN firsts |->
         LET ops == On(firsts[n].ent)
         IN  NewOp(c, dev, n, firsts[n].ent,
                   IncrementClock(MaxOverClocks({global} \union ClocksOf(ops)), c),
                   MaxStamp(ops), dev.value[firsts[n].ent])]

\* After the first of the writes the old operations are rejected; each further write
\* appends a new one.
LogAfterSettling(dev, made, n) ==
  Mark(dev.log, ToSet(Superseded(dev)), "rejected")
    \o (IF n >= 2 THEN LogEntries(SubSeq(made, 1, n - 1), "pending") ELSE <<>>)

Settle(c) ==
  LET dev == device[c]
  IN  /\ dev.phase = "settling"
      /\ \E made \in {Settling(c, dev)} :
           device' = [device EXCEPT ![c] = [dev EXCEPT
             !.log   = LogAfterSettling(dev, made, 1 + Len(made)),
             !.clock = ClockAfter(c, dev, {}, made),
             !.phase = "idle", !.rejected = <<>>, !.extra = ZeroClock]]
      /\ UNCHANGED <<rows, failures, restarts>>

\* The reply to an upload is lost; what is pending stays pending.
LoseReply(c) ==
  /\ failures < MaxFailures
  /\ device[c].phase = "uploading"
  /\ device' = [device EXCEPT ![c].phase = "idle", ![c].reply = NoReply]
  /\ failures' = failures + 1
  /\ UNCHANGED <<rows, restarts>>

\* The download after a rejection fails: it does not count as an attempt.
FailDownload(c) ==
  LET tried == {r.op.ent : r \in ToSet(device[c].rejected)}
  IN  /\ failures < MaxFailures
      /\ device[c].phase \in {"resolving", "forcing"}
      /\ device' = [device EXCEPT ![c].phase = "idle", ![c].rejected = <<>>,
           ![c].attempts = [e \in Entities |-> IF e \in tried THEN @[e] - 1 ELSE @[e]]]
      /\ failures' = failures + 1
      /\ UNCHANGED <<rows, restarts>>

\* The application starts again; what was not stored is gone.
Restart(c) ==
  /\ restarts < MaxRestarts
  /\ device' = [device EXCEPT ![c] = Started(c, @)]
  /\ device' # device
  /\ restarts' = restarts + 1
  /\ UNCHANGED <<rows, failures>>

\* What a device that may process a batch of rows would work on.
Incoming(c) ==
  LET dev == device[c]
  IN  CASE dev.phase = "uploading"           -> dev.reply.newRows
        [] dev.phase \in {"idle", "resolving"} -> Unknown(c, dev, dev.cursor)
        [] dev.phase = "forcing"             -> Unknown(c, dev, 0)
        [] dev.phase = "settling"            -> <<>>

\* The application crashes after the first n writes of a batch and starts again.  The
\* cursor moves after the last of them.
Crash(c, n, moved) ==
  LET dev  == Uploaded(device[c])
      next == IF dev.phase = "uploading" THEN dev.reply.latest ELSE Len(rows)
  IN  /\ restarts < MaxRestarts
      /\ Incoming(c) # <<>> \/ dev.phase = "uploading"
      /\ \E batch \in {Incoming(c)} : \E are \in {Outcomes(dev, batch)} :
         \E plan \in {Plan(c, dev, batch, are)} :
           /\ n <= AllWrites(plan)
           /\ moved => n = AllWrites(plan)
           /\ device' = [device EXCEPT ![c] =
                Started(c, [dev EXCEPT !.log    = LogAfter(@, plan, n),
                                       !.cursor = IF moved THEN next ELSE @])]
      /\ restarts' = restarts + 1
      /\ UNCHANGED <<rows, failures>>

\* It crashes after the first n writes with which it settles what was rejected.
CrashSettling(c, n) ==
  LET dev == device[c]
  IN  /\ restarts < MaxRestarts
      /\ dev.phase = "settling"
      /\ \E made \in {Settling(c, dev)} :
           /\ n <= 1 + Len(made)
           /\ device' = [device EXCEPT ![c] =
                Started(c, [dev EXCEPT !.log = LogAfterSettling(dev, made, n)])]
      /\ restarts' = restarts + 1
      /\ UNCHANGED <<rows, failures>>

-----------------------------------------------------------------------------
Init ==
  /\ rows = <<>> /\ failures = 0 /\ restarts = 0
  /\ device = [c \in Clients |-> FreshDevice]

SyncStep(c) ==
  \/ Download(c)
  \/ Upload(c)
  \/ UploadNothing(c)
  \/ ReceiveReply(c)
  \/ DownloadForRejected(c)
  \/ DownloadNothing(c)
  \/ ForceDownload(c)
  \/ Settle(c)

DeviceStep(c) ==
  \/ \E ent \in Entities, ts \in Stamps : Edit(c, ent, ts)
  \/ SyncStep(c)
  \/ LoseReply(c)
  \/ FailDownload(c)
  \/ Restart(c)
  \/ \E n \in 0..5 + Len(rows), moved \in BOOLEAN : Crash(c, n, moved)
  \/ \E n \in 1..1 + Len(device[c].rejected) : CrashSettling(c, n)

Next == \E c \in Clients : DeviceStep(c)

Spec == Init /\ [][Next]_vars

\* Synchronisation is repeated as long as the application runs.
FairSpec == Spec /\ \A c \in Clients : WF_vars(SyncStep(c))

-----------------------------------------------------------------------------
(* Properties *)

\* Types, and the limit on the attempts to settle the conflicts of an entity.
TypeOK ==
  /\ failures \in 0..MaxFailures /\ restarts \in 0..MaxRestarts
  /\ \A c \in Clients :
       /\ device[c].clock \in Clock
       /\ device[c].cursor \in 0..Len(rows)
       /\ device[c].attempts \in [Entities -> 0..MaxAttempts]
       /\ device[c].value \in [Entities -> (Clients \X Nat) \union {NoEdit}]
       /\ \A x \in ToSet(device[c].log) :
            /\ x.op.clk \in Clock /\ x.op.ts \in Stamps
            /\ x.status \in {"pending", "synced", "applied", "rejected"}

\* Nothing is in progress, pending or waiting to be downloaded anywhere.
IsSettled ==
  \A c \in Clients : /\ device[c].phase = "idle"
                     /\ PendingOps(device[c]) = {}
                     /\ device[c].cursor = Len(rows)

\* Devices that have exchanged everything agree on every entity, whatever the order of
\* their downloads, uploads and conflict resolutions was.
Converged ==
  IsSettled => \A c, d \in Clients : device[c].value = device[d].value

\* When everything has been exchanged no device shows an edit that is older than another
\* edit of the same entity: last writer wins over all rounds of conflict resolution.
Edits(ent) ==
  {op \in UNION {{x.op : x \in ToSet(device[c].log)} : c \in Clients} :
     op.ent = ent /\ IsEditOf(Author(op), op)}

NewestEditWins ==
  IsSettled =>
    \A c \in Clients, ent \in Entities : \A op, shown \in Edits(ent) :
      shown.id = device[c].value[ent] => op.ts <= shown.ts

\* An edit has a clock that dominates every row the device had applied before it, so
\* that nothing the user saw counts as concurrent with what the user did next.  The
\* code does not keep this up: see section 5 of the README.
EditsDominateApplied ==
  \A c \in Clients :
    LET log == device[c].log
    IN  \A i \in DOMAIN log : IsEditOf(c, log[i].op) =>
          \A j \in 1..i - 1 :
            log[j].status = "applied" => Dominates(log[i].op.clk, log[j].op.clk)

\* What a device has marked as synced is in the server's log, also after lost replies
\* and crashes: nothing is taken for uploaded that is not.
SyncedIsStored ==
  \A c \in Clients : \A x \in ToSet(device[c].log) :
    x.status = "synced" => \E r \in ToSet(rows) : r.id = x.op.id

\* A cursor never passes a row that the device has neither stored nor superseded, also
\* when it crashes while it processes rows.
NothingMissed ==
  \A c \in Clients :
    \A r \in ToSet(RowsOfOthers(c, SubSeq(rows, 1, device[c].cursor), 0)) :
      Knows(device[c], r) \/ Dominates(Frontier(device[c], r.ent), r.clk)

\* Synchronisation comes to an end: rejections, retries and conflict resolutions do not
\* go round for ever, and nobody is left with a pending operation.
Settles == <>[]IsSettled
-----------------------------------------------------------------------------
(* What makes TypeOK and SyncedIsStored inductive *)

Values == (Clients \X Nat) \union {NoEdit}

Operations == [id : Clients \X Nat, ent : Entities, clk : Clock, ts : Stamps, val : Values]

IsStored(table, op) == \E i \in DOMAIN table : table[i].id = op.id

\* Log entries and results of an upload that say the truth about the server's log.
TrueEntries(table) ==
  {x \in [op : Operations, status : {"pending", "synced", "applied", "rejected"}] :
     x.status = "synced" => IsStored(table, x.op)}

TrueResults(table) ==
  {r \in [op : Operations, verdict : {"ACCEPTED", "CONFLICT", "DUPLICATE_OPERATION"},
           existing : Clock] :
     r.verdict # "CONFLICT" => IsStored(table, r.op)}

Replies(table) ==
  [results : Seq(TrueResults(table)), newRows : Seq(Operations), latest : 0..Len(table)]

DevicesOn(table) ==
  [log : Seq(TrueEntries(table)), clock : Clock, value : [Entities -> Values],
   cursor : 0..Len(table), attempts : [Entities -> 0..MaxAttempts],
   phase : {"idle", "uploading", "resolving", "forcing", "settling"},
   reply : Replies(table), rejected : Seq(TrueResults(table)), extra : Clock,
   snapshot : [upto : Nat, clock : Clock]]

\* A conflict whose download may still fail has been counted as an attempt.
AttemptsCounted(dev) ==
  dev.phase \in {"resolving", "forcing"} =>
    \A i \in DOMAIN dev.rejected : dev.attempts[dev.rejected[i].op.ent] > 0

ExchangeInv ==
  /\ rows \in Seq(Operations)
  /\ device \in [Clients -> DevicesOn(rows)]
  /\ \A c \in Clients : AttemptsCounted(device[c])
  /\ failures \in 0..MaxFailures /\ restarts \in 0..MaxRestarts
=============================================================================
