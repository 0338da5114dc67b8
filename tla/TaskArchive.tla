------------------------------ MODULE TaskArchive ------------------------------
(***************************************************************************)
(* The archive of finished tasks on the devices of a user.                 *)
(*                                                                         *)
(* A task is shown in the store or kept in one of two records of the       *)
(* device's database, the young and the old archive.  The store is         *)
(* rebuilt from the operation log at every start; the archives are not:    *)
(* they change only by the side effects of operations, and a side effect   *)
(* is a sequence of reads and writes of whole records under no lock.       *)
(* Three jobs of a device make them: the archive service after the user    *)
(* archives tasks, the effect that handles local operations one by one,    *)
(* and the replay of a batch of remote operations.                         *)
(*                                                                         *)
(* What the user does changes the store at once.  The row of the operation *)
(* is written later, in the order of the dispatches, and nothing waits for *)
(* it: neither the jobs nor the user.  When a row cannot be written the    *)
(* error is shown and forgotten.                                           *)
(*                                                                         *)
(* An operation is in everybody's reach when its row is written: upload    *)
(* and conflicts between operations on one task are the matter of          *)
(* ClockExchange.  Time tracking, subtasks, the contents of a task and the *)
(* other operations that change archived tasks are left out.               *)
(***************************************************************************)
EXTENDS Naturals, Sequences, FiniteSets, Subsequences

CONSTANTS
  Devices,
  Tasks,
  Old,          \* the tasks done longer ago than ARCHIVE_TASK_YOUNG_TO_OLD_THRESHOLD
  MaxOps,       \* bound on the operations
  MaxRestarts,  \* bound on the restarts
  MaxFailures   \* bound on failed writes; fewer than MAX_CONFLICT_RETRY_ATTEMPTS

Jobs == {"service", "effect", "replay"}

ASSUME OldAssumption == Old \subseteq Tasks
ASSUME BoundsAssumption == {MaxOps, MaxRestarts, MaxFailures} \subseteq Nat

VARIABLES
  ops,      \* the operations of all devices, in the order their rows were written
  waiting,  \* the operations of a device that were dispatched and have no row yet
  log,      \* the operations in each device's log: numbers in ops, in log order
  failed,   \* those of them marked failed
  live,     \* the tasks in each device's store
  young,    \* the young archive of each device
  old,      \* the old archive of each device
  job,      \* the job each device's three actors are at
  queue,    \* the restored tasks that wait for the effect of a device
  batch,    \* the remote operations that the replay has taken, and those left
  spent,    \* the bounded events so far: operations, restarts, failures
  exposed   \* the tasks of a device that a race, a cut or a failure left in doubt

vars == <<ops, waiting, log, failed, live, young, old, job, queue, batch, spent, exposed>>

Ops == [kind : {"create", "archive", "restore", "flush"}, tasks : SUBSET Tasks]

\* What a job has read: copies of the archives that may be stale when it writes.
Idle == [kind |-> "none", pc |-> "rest", tasks |-> {}, young |-> {}, old |-> {}]

Started(kind, tasks) ==
  [kind |-> kind, pc |-> "loadYoung", tasks |-> tasks, young |-> {}, old |-> {}]

NoBatch == [all |-> <<>>, left |-> <<>>]

-----------------------------------------------------------------------------
(* The store *)

\* The tasks in the store after the reducers of an operation.
Reduced(shown, op) ==
  CASE op.kind \in {"create", "restore"} -> shown \union op.tasks
    [] op.kind = "archive" -> shown \ op.tasks
    [] op.kind = "flush" -> shown

\* bulkApplyOperations: the reducers of a sequence of operations, in one go.
ReducedAll(shown, run) ==
  LET after[n \in 0..Len(run)] ==
        IF n = 0 THEN shown ELSE Reduced(after[n - 1], run[n])
  IN  after[Len(run)]

OpsOf(numbers) == [k \in DOMAIN numbers |-> ops[numbers[k]]]

Replayed(shown, numbers) == ReducedAll(shown, OpsOf(numbers))

Archived(d) == young[d] \union old[d]

NumbersOf(s) == {s[k] : k \in DOMAIN s}

TasksOf(run) == UNION {op.tasks : op \in NumbersOf(run)}

\* The operations on a task.
On(t) == {i \in DOMAIN ops : t \in ops[i].tasks}

\* No operation on the task is concurrent with the next one of the device.
UpToDate(d, t) ==
  /\ On(t) \subseteq NumbersOf(log[d])
  /\ \A e \in Devices \ {d} : t \notin TasksOf(waiting[e])

-----------------------------------------------------------------------------
(* Tasks in doubt: what the code is known to lose is told apart task by task, so that the
   properties speak of all other tasks. *)

\* What the local jobs still are to write of what the user archived or restored.
Pending(d) ==
  (IF job[d]["service"].pc \in {"loadYoung", "saveYoung"} THEN job[d]["service"].tasks ELSE {})
    \union job[d]["effect"].tasks \union NumbersOf(queue[d])

\* The old tasks that the service has taken out of the young archive.
InTransit(d) ==
  IF job[d]["service"].pc = "flushOld" THEN job[d]["service"].young \intersect Old ELSE {}

\* The tasks that somebody on the device is still to write, now or at a retry.
InHand(d) ==
  Pending(d) \union InTransit(d)
    \union UNION {ops[i].tasks : i \in failed[d] \union NumbersOf(batch[d].left)}

\* A second operation on a task that is in hand: the jobs of a device do not wait for
\* each other, and a retry does not ask what has happened since.
Contested(d, tasks) == tasks \intersect InHand(d)

HoldsCopy(d, a) == job[d][a].pc \notin {"rest", "loadYoung"}

\* What a job writes about these tasks while another one holds copies: it may be lost when
\* the other writes its copies back.
Overwritten(d, a, tasks) ==
  IF \E b \in Jobs \ {a} : HoldsCopy(d, b) THEN tasks ELSE {}

\* The store that a restart would show if the rows that wait were written.
Shown(d) == ReducedAll(Replayed({}, log[d]), waiting[d])

\* Tasks that the store shows against the log, as a row was not written or an operation
\* was dispatched again.  What the user does with them reaches the other devices.
Strayed(d) == (live[d] \ Shown(d)) \union (Shown(d) \ live[d])

Exposing(d, here, everywhere) ==
  exposed' = [e \in Devices |->
    exposed[e] \union everywhere \union (IF e = d THEN here ELSE {})]

-----------------------------------------------------------------------------
(* The user *)

\* persistOperation$ takes the action behind those that wait.
Dispatched(d, op) ==
  /\ spent.made < MaxOps
  /\ spent' = [spent EXCEPT !.made = @ + 1]
  /\ waiting' = [waiting EXCEPT ![d] = Append(@, op)]
  /\ Exposing(d, Contested(d, op.tasks), op.tasks \intersect Strayed(d))
  /\ UNCHANGED <<ops, log>>

Unused(t) ==
  /\ On(t) = {}
  /\ \A d \in Devices : t \notin live[d] \union exposed[d] \union TasksOf(waiting[d])

Create(d, t) ==
  /\ Unused(t)
  /\ Dispatched(d, [kind |-> "create", tasks |-> {t}])
  /\ live' = [live EXCEPT ![d] = @ \union {t}]
  /\ UNCHANGED <<failed, young, old, job, queue, batch>>

\* The action is dispatched first, then the service writes the archive.
MoveToArchive(d, tasks) ==
  /\ tasks # {} /\ tasks \subseteq live[d]
  /\ \A t \in tasks : UpToDate(d, t)
  /\ job[d]["service"] = Idle
  /\ Dispatched(d, [kind |-> "archive", tasks |-> tasks])
  /\ live' = [live EXCEPT ![d] = @ \ tasks]
  /\ job' = [job EXCEPT ![d]["service"] = Started("archive", tasks)]
  /\ UNCHANGED <<failed, young, old, queue, batch>>

RestoreTask(d, t) ==
  /\ t \in Archived(d) \ live[d]
  /\ UpToDate(d, t)
  /\ Dispatched(d, [kind |-> "restore", tasks |-> {t}])
  /\ live' = [live EXCEPT ![d] = @ \union {t}]
  /\ queue' = [queue EXCEPT ![d] = Append(@, t)]
  /\ UNCHANGED <<failed, young, old, job, batch>>

-----------------------------------------------------------------------------
(* The rows *)

\* Mutant: the log takes a number beyond the operation's.
WriteRowAhead(d) ==
  /\ waiting[d] # <<>> /\ batch[d] = NoBatch
  /\ ops' = Append(ops, Head(waiting[d]))
  /\ log' = [log EXCEPT ![d] = Append(@, Len(ops') + 1)]
  /\ waiting' = [waiting EXCEPT ![d] = Tail(@)]
  /\ UNCHANGED <<failed, live, young, old, job, queue, batch, spent, exposed>>

\* Mutant: the rows are written all at once instead of one after another (concatMap).
WriteAnyRow(d) ==
  /\ batch[d] = NoBatch
  /\ \E k \in DOMAIN waiting[d] :
       /\ ops' = Append(ops, waiting[d][k])
       /\ log' = [log EXCEPT ![d] = Append(@, Len(ops'))]
       /\ waiting' = [waiting EXCEPT ![d] = Chosen(@, DOMAIN @ \ {k})]
  /\ UNCHANGED <<failed, live, young, old, job, queue, batch, spent, exposed>>

\* writeOperation, one row after another; while a batch is applied the OPERATION_LOG lock
\* is taken, or the action is deferred to its end.
WriteRow(d) ==
  /\ waiting[d] # <<>> /\ batch[d] = NoBatch
  /\ ops' = Append(ops, Head(waiting[d]))
  /\ log' = [log EXCEPT ![d] = Append(@, Len(ops'))]
  /\ waiting' = [waiting EXCEPT ![d] = Tail(@)]
  /\ UNCHANGED <<failed, live, young, old, job, queue, batch, spent, exposed>>

\* The error is shown to the user and swallowed: store and archive stay as they are.
RowFails(d) ==
  /\ waiting[d] # <<>> /\ batch[d] = NoBatch
  /\ spent.failures < MaxFailures
  /\ spent' = [spent EXCEPT !.failures = @ + 1]
  /\ waiting' = [waiting EXCEPT ![d] = Tail(@)]
  /\ LET lost == Head(waiting[d]).tasks
     IN  Exposing(d, lost, lost \intersect TasksOf(Tail(waiting[d])))
  /\ UNCHANGED <<ops, log, failed, live, young, old, job, queue, batch>>

-----------------------------------------------------------------------------
(* The steps of a job *)

\* The job is over; the replay goes on to its next operation or marks the batch applied.
Leave(d, a, left) ==
  /\ job' = [job EXCEPT ![d][a] = Idle]
  /\ IF a # "replay" THEN UNCHANGED <<batch, failed>>
     ELSE IF left # <<>>
       THEN batch' = [batch EXCEPT ![d].left = left] /\ UNCHANGED failed
       ELSE /\ batch' = [batch EXCEPT ![d] = NoBatch]
            /\ failed' = [failed EXCEPT ![d] = @ \ NumbersOf(batch[d].all)]

Ended(d, a) ==
  /\ Leave(d, a, IF a = "replay" THEN Tail(batch[d].left) ELSE <<>>)
  /\ UNCHANGED <<ops, waiting, log, live, queue, spent>>

Continued(d, a, j) ==
  /\ job' = [job EXCEPT ![d][a] = j]
  /\ UNCHANGED <<ops, waiting, log, failed, live, queue, batch, spent>>

Wrote(d, a, tasks) == Exposing(d, Overwritten(d, a, tasks), {})

At(d, a, kind, pc) == job[d][a].kind = kind /\ job[d][a].pc = pc

\* concatMap: one operation after another.
StartEffect(d) ==
  /\ queue[d] # <<>> /\ job[d]["effect"] = Idle
  /\ job' = [job EXCEPT ![d]["effect"] = Started("delete", {Head(queue[d])})]
  /\ queue' = [queue EXCEPT ![d] = Tail(@)]
  /\ UNCHANGED <<ops, waiting, log, failed, live, young, old, batch, spent, exposed>>

SideEffect == [archive |-> "archive", restore |-> "delete", flush |-> "flush"]

StartSideEffect(d) ==
  /\ batch[d].left # <<>> /\ job[d]["replay"] = Idle
  /\ LET op == ops[Head(batch[d].left)] IN
       IF op.kind = "create" THEN Ended(d, "replay")
       ELSE Continued(d, "replay", Started(SideEffect[op.kind], op.tasks))
  /\ UNCHANGED <<young, old, exposed>>

AfterYoung(j, copy) ==
  CASE j.kind = "archive" -> "saveYoung"
    [] j.kind = "delete" -> IF j.tasks \intersect copy = {} THEN "loadOld" ELSE "saveYoung"
    [] j.kind = "flush" -> "loadOld"

LoadYoung(d, a) ==
  /\ job[d][a].pc = "loadYoung"
  /\ LET j == job[d][a] IN
       Continued(d, a, [j EXCEPT !.young = young[d], !.pc = AfterYoung(j, young[d])])
  /\ UNCHANGED <<young, old, exposed>>

\* moveTasksToArchiveAndFlushArchiveIfDue goes on to see whether a flush is due.
AddToYoung(d, a) ==
  /\ At(d, a, "archive", "saveYoung")
  /\ LET j == job[d][a]
         added == j.young \union j.tasks
     IN /\ young' = [young EXCEPT ![d] = added]
        /\ IF a = "service" THEN Continued(d, a, [j EXCEPT !.young = added, !.pc = "loadOld"])
           ELSE Ended(d, a)
  /\ Wrote(d, a, job[d][a].tasks)
  /\ UNCHANGED old

DeleteFromYoung(d, a) ==
  /\ At(d, a, "delete", "saveYoung")
  /\ young' = [young EXCEPT ![d] = job[d][a].young \ job[d][a].tasks]
  /\ Ended(d, a)
  /\ Wrote(d, a, job[d][a].tasks)
  /\ UNCHANGED old

LoadOld(d, a) ==
  /\ job[d][a].pc = "loadOld"
  /\ LET read(pc) == [job[d][a] EXCEPT !.old = old[d], !.pc = pc] IN
       CASE job[d][a].kind = "archive" -> Ended(d, a) \/ Continued(d, a, read("flushYoung"))
         [] job[d][a].kind = "delete" -> Continued(d, a, read("saveOld"))
         [] job[d][a].kind = "flush" -> Continued(d, a, read("saveBoth"))
  /\ UNCHANGED <<young, old, exposed>>

DeleteFromOld(d, a) ==
  /\ At(d, a, "delete", "saveOld")
  /\ old' = [old EXCEPT ![d] = job[d][a].old \ job[d][a].tasks]
  /\ Ended(d, a)
  /\ Wrote(d, a, job[d][a].tasks)
  /\ UNCHANGED young

\* Mutant: the tasks that move to the old archive stay in the young one.
FlushedCopied(j) == j.young

\* sortTimeTrackingAndTasksFromArchiveYoungToOld
FlushedYoung(j) == j.young \ Old
FlushedOld(j) == j.old \union (j.young \intersect Old)

\* The service writes one archive after the other, from copies read before its own write.
FlushYoung(d) ==
  /\ At(d, "service", "archive", "flushYoung")
  /\ young' = [young EXCEPT ![d] = FlushedYoung(job[d]["service"])]
  /\ Continued(d, "service", [job[d]["service"] EXCEPT !.pc = "flushOld"])
  /\ Wrote(d, "service", job[d]["service"].young \intersect Old)
  /\ UNCHANGED old

FlushOld(d) ==
  /\ At(d, "service", "archive", "flushOld")
  /\ old' = [old EXCEPT ![d] = FlushedOld(job[d]["service"])]
  /\ Continued(d, "service", [job[d]["service"] EXCEPT !.pc = "tellFlush"])
  /\ Wrote(d, "service", job[d]["service"].young \intersect Old)
  /\ UNCHANGED young

\* ... and tells the other devices by an operation.
FlushYoungToOld(d) ==
  /\ At(d, "service", "archive", "tellFlush")
  /\ Dispatched(d, [kind |-> "flush", tasks |-> {}])
  /\ Leave(d, "service", <<>>)
  /\ UNCHANGED <<live, young, old, queue>>

\* The replay of a flush writes both archives in one transaction.
FlushBoth(d, a) ==
  /\ At(d, a, "flush", "saveBoth")
  /\ young' = [young EXCEPT ![d] = FlushedYoung(job[d][a])]
  /\ old' = [old EXCEPT ![d] = FlushedOld(job[d][a])]
  /\ Ended(d, a)
  /\ Wrote(d, a, job[d][a].young \intersect Old)

JobStep(d, a) ==
  \/ LoadYoung(d, a)
  \/ AddToYoung(d, a)
  \/ DeleteFromYoung(d, a)
  \/ LoadOld(d, a)
  \/ DeleteFromOld(d, a)
  \/ FlushBoth(d, a)

-----------------------------------------------------------------------------
(* Synchronisation *)

Missing(d) == Chosen([i \in DOMAIN ops |-> i], DOMAIN ops \ NumbersOf(log[d]))

\* Once the rows that wait are written, the operations of others that the log lacks are
\* appended as pending and reduced at once.
Download(d) ==
  /\ batch[d] = NoBatch /\ waiting[d] = <<>>
  /\ LET missing == Missing(d)
     IN /\ missing # <<>>
        /\ log' = [log EXCEPT ![d] = @ \o missing]
        /\ live' = [live EXCEPT ![d] = Replayed(@, missing)]
        /\ batch' = [batch EXCEPT ![d] = [all |-> missing, left |-> missing]]
        /\ Exposing(d, Contested(d, TasksOf(OpsOf(missing))), {})
  /\ UNCHANGED <<ops, waiting, failed, young, old, job, queue, spent>>

-----------------------------------------------------------------------------
(* Failed writes *)

Failing(d, a) ==
  /\ spent.failures < MaxFailures
  /\ job[d][a].pc \notin {"rest", "loadYoung", "loadOld", "tellFlush"}
  /\ spent' = [spent EXCEPT !.failures = @ + 1]
  /\ job' = [job EXCEPT ![d][a] = Idle]
  /\ UNCHANGED <<ops, waiting, log, live>>

\* Nobody takes the dispatched action back when the service cannot write.
ArchivingFails(d) ==
  /\ At(d, "service", "archive", "saveYoung")
  /\ Failing(d, "service")
  /\ exposed' = [exposed EXCEPT ![d] = @ \union job[d]["service"].tasks]
  /\ UNCHANGED <<failed, young, old, queue, batch>>

\* Mutant: what was written before the failure stays.
FlushStops(d) ==
  /\ \/ At(d, "service", "archive", "flushYoung")
     \/ At(d, "service", "archive", "flushOld")
  /\ Failing(d, "service")
  /\ UNCHANGED <<young, old, failed, queue, batch, exposed>>

\* Both archives are set back to what they were before the flush; no operation is made.
FlushFails(d) ==
  /\ \/ At(d, "service", "archive", "flushYoung")
     \/ At(d, "service", "archive", "flushOld")
  /\ Failing(d, "service")
  /\ young' = [young EXCEPT ![d] = job[d]["service"].young]
  /\ old' = [old EXCEPT ![d] = job[d]["service"].old]
  /\ Wrote(d, "service", job[d]["service"].young \intersect Old)
  /\ UNCHANGED <<failed, queue, batch>>

\* The effect reports the error and goes on.
EffectFails(d) ==
  /\ Failing(d, "effect")
  /\ exposed' = [exposed EXCEPT ![d] = @ \union job[d]["effect"].tasks]
  /\ UNCHANGED <<failed, young, old, queue, batch>>

\* Mutant: the operations after the failed one pass for applied.
UnappliedOne(left) == {Head(left)}

\* getFailedOpIds: the failed operation and all after it.
Unapplied(left) == NumbersOf(left)

ReplayFails(d) ==
  /\ Failing(d, "replay")
  /\ failed' = [failed EXCEPT ![d] =
                  (@ \ NumbersOf(batch[d].all)) \union Unapplied(batch[d].left)]
  /\ batch' = [batch EXCEPT ![d] = NoBatch]
  /\ UNCHANGED <<young, old, queue, exposed>>

-----------------------------------------------------------------------------
(* Restarts *)

\* Of the user's archiving or restoring of a task, the row or the archive write got lost
\* without the other: no row waits and the jobs are not done, or the other way round.
Torn(d) ==
  {t \in Tasks :
     Cardinality({k \in DOMAIN waiting[d] : /\ waiting[d][k].kind # "create"
                                            /\ t \in waiting[d][k].tasks})
       # IF t \in Pending(d) THEN 1 ELSE 0}

\* The side effects of a batch that the recovery takes for applied.
TakenForApplied(d) ==
  UNION {ops[i].tasks : i \in {n \in NumbersOf(batch[d].left) \ failed[d] :
                                 ops[n].kind # "create"}}

\* Old tasks of the operations that a retry was done with when it was cut: the next retry
\* begins with them again, and may put tasks in the young archive that are in the old one.
Repeated(d) ==
  Old \intersect UNION {ops[i].tasks :
    i \in (NumbersOf(batch[d].all) \ NumbersOf(batch[d].left)) \intersect failed[d]}

Retried(d) == Chosen(log[d], {k \in DOMAIN log[d] : log[d][k] \in failed[d]})

\* The rows that wait are lost.  The store is rebuilt from the log; pending operations count
\* as applied; failed ones are dispatched again, in log order, and get their side effects.
Restart(d) ==
  /\ spent.restarts < MaxRestarts
  /\ spent' = [spent EXCEPT !.restarts = @ + 1]
  /\ waiting' = [waiting EXCEPT ![d] = <<>>]
  /\ live' = [live EXCEPT ![d] = Replayed(Replayed({}, log[d]), Retried(d))]
  /\ batch' = [batch EXCEPT ![d] = [all |-> Retried(d), left |-> Retried(d)]]
  /\ job' = [job EXCEPT ![d] = [a \in Jobs |-> Idle]]
  /\ queue' = [queue EXCEPT ![d] = <<>>]
  /\ Exposing(d, Torn(d) \union InTransit(d) \union TakenForApplied(d) \union Repeated(d), {})
  /\ UNCHANGED <<ops, log, failed, young, old>>

-----------------------------------------------------------------------------
(* The specification *)

Init ==
  /\ ops = <<>>
  /\ waiting = [d \in Devices |-> <<>>]
  /\ log = [d \in Devices |-> <<>>]
  /\ failed = [d \in Devices |-> {}]
  /\ live = [d \in Devices |-> {}]
  /\ young = [d \in Devices |-> {}]
  /\ old = [d \in Devices |-> {}]
  /\ job = [d \in Devices |-> [a \in Jobs |-> Idle]]
  /\ queue = [d \in Devices |-> <<>>]
  /\ batch = [d \in Devices |-> NoBatch]
  /\ spent = [made |-> 0, restarts |-> 0, failures |-> 0]
  /\ exposed = [d \in Devices |-> {}]

Next ==
  \E d \in Devices :
    \/ \E t \in Tasks : Create(d, t) \/ RestoreTask(d, t)
    \/ \E tasks \in SUBSET Tasks : MoveToArchive(d, tasks)
    \/ StartEffect(d)
    \/ StartSideEffect(d)
    \/ \E a \in Jobs : JobStep(d, a)
    \/ FlushYoung(d)
    \/ FlushOld(d)
    \/ FlushYoungToOld(d)
    \/ WriteRow(d)
    \/ RowFails(d)
    \/ Download(d)
    \/ ArchivingFails(d)
    \/ FlushFails(d)
    \/ EffectFails(d)
    \/ ReplayFails(d)
    \/ Restart(d)

Spec == Init /\ [][Next]_vars

-----------------------------------------------------------------------------
(* Properties *)

JobStates ==
  [kind : {"none", "archive", "delete", "flush"},
   pc : {"rest", "loadYoung", "saveYoung", "loadOld", "saveOld",
         "flushYoung", "flushOld", "tellFlush", "saveBoth"},
   tasks : SUBSET Tasks, young : SUBSET Tasks, old : SUBSET Tasks]

TypeOK ==
  /\ ops \in Seq(Ops)
  /\ waiting \in [Devices -> Seq(Ops)]
  /\ log \in [Devices -> Seq(DOMAIN ops)]
  /\ failed \in [Devices -> SUBSET DOMAIN ops]
  /\ \A d \in Devices : failed[d] \subseteq NumbersOf(log[d])
  /\ {live, young, old, exposed} \subseteq [Devices -> SUBSET Tasks]
  /\ job \in [Devices -> [Jobs -> JobStates]]
  /\ queue \in [Devices -> Seq(Tasks)]
  /\ batch \in [Devices -> [all : Seq(DOMAIN ops), left : Seq(DOMAIN ops)]]
  /\ spent \in [made : 0..MaxOps, restarts : 0..MaxRestarts, failures : 0..MaxFailures]

AtRest(d) ==
  /\ waiting[d] = <<>> /\ queue[d] = <<>> /\ batch[d] = NoBatch /\ failed[d] = {}
  /\ \A a \in Jobs : job[d][a] = Idle

\* The operations on a task in the device's log, and the last of them, 0 when there is none.
KnownOn(d, t) == On(t) \intersect NumbersOf(log[d])

Greatest(numbers) == CHOOSE i \in numbers : \A k \in numbers : i >= k

LastOn(d, t) == Greatest({0} \union KnownOn(d, t))

KnownTasks(d) == {t \in Tasks : LastOn(d, t) # 0}

\* The two parts of a device's data, one rebuilt from the log and one changed by side
\* effects, agree at rest: a task is in the archive if the last operation on it in the
\* log archived it, and in the store otherwise, however the jobs of the device overlap,
\* and wherever a row or a write failed or the application ended, unless that was in the
\* midst of an operation on this very task.
PlacedAsLogged ==
  \A d \in Devices : AtRest(d) =>
    \A t \in KnownTasks(d) \ exposed[d] :
      IF ops[LastOn(d, t)].kind = "archive"
        THEN t \in Archived(d) \ live[d]
        ELSE t \in live[d] \ Archived(d)

\* At no moment is a task nowhere: it is shown or archived, or else a job that runs or an
\* operation marked for a retry is still to write it, also after a failed flush or batch.
NeverNowhere ==
  \A d \in Devices :
    KnownTasks(d) \ exposed[d] \subseteq live[d] \union Archived(d) \union InHand(d)

\* No task is in both archives when a device is at rest: deleteTasks, which stops after
\* the young archive, would leave the second copy behind.
InOneArchive ==
  \A d \in Devices : AtRest(d) => young[d] \intersect old[d] \subseteq exposed[d]

\* What the user sees is what the log will show after a restart, once the rows that wait
\* are written: rows are written in the order of the dispatches, batches come between
\* them, and a retry does not undo what came after the operation that failed.
ShownAsLogged == \A d \in Devices : Strayed(d) \subseteq exposed[d]
===============================================================================
