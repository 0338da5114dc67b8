# Formal models of the synchronisation of Super Productivity

This directory holds TLA+ models of the part of the program that is hard to test:
how devices that work offline exchange operations through a server or a shared
file, how the server keeps their log in order, and what the operations do to
tasks, projects and archives when they arrive in another order. TLC checks the models on small instances, and
the TLA+ proof system proves their main results for all values of the constants.

## 1. The system

The application is an NgRx web application (`src/src/app`) with desktop and
mobile shells. Every user action that changes persistent data becomes an
*operation* in a local log (`src/src/app/op-log`). Synchronisation exchanges
operations. With SuperSync (`src/packages/super-sync-server`) a server keeps one
log per user; with WebDAV, Dropbox or a local folder a shared file plays that
part. Shared algorithms are in `src/packages/sync-core`.

| Component | State | Operations | Hard behaviour |
|---|---|---|---|
| Vector clocks (`sync-core/src/vector-clock.ts`) | none | compare, merge, limit | pruning to 20 ids, ties |
| Server upload (`operation-upload.service.ts`, `conflict.ts`, `sync.service.ts`, both upload routes) | `operations`, `user_sync_state` | upload a batch, upload a snapshot, clean slate | concurrent transactions of several processes, retries after a lost reply |
| Request deduplication | results per process, TTL 5 min | look up, store, clear | stale answers, restart |
| Storage quota, retention (`storage-quota.service.ts`, `cleanup.ts`) | storage lock per process, byte counters | delete the oldest restore point, daily deletion of old operations | deletes beside open uploads |
| Snapshot cache (`snapshot.service.ts`) | `lastSnapshotSeq`, `snapshotAt` | replace, clear | written after the commit |
| Account wipe (`sync.service.ts`) | all of it | delete everything of a user | races with uploads |
| Server download (`operation-download.service.ts`) | none | pages of operations, gap detection | rows deleted between pages, counter reset |
| Client log (`persistence/operation-log-store.service.ts`, `capture/`) | operations, vector clock, cursor | append, mark synced / rejected / applied, merge clocks | crash between steps, actions captured during a sync |
| Client hydration and compaction (`persistence/`) | state cache | load, replay, compact, recover | crash between steps |
| Client upload and download (`sync/operation-log-{upload,download}.service.ts`) | cursor | upload, piggyback, page | stale cursor, empty server |
| Client conflict resolution (`sync/conflict-resolution.service.ts`, `superseded-operation-resolver.service.ts`, `rejected-ops-handler.service.ts`) | pending operations, clock | last writer wins, settle superseded operations | counters and clocks of the settling operation |
| Full-state operations (`sync/sync-import-filter.service.ts`, `remote-ops-processing.service.ts`) | as above | import, filter, reset the clock | what an import makes void |
| File-based adapter (`file-based-sync-adapter.service.ts`, the providers) | one shared file, cursor and expected version per device | conditional write, merge, snapshot, replacement by choice | several writers, a buffer that overflows, versions that start anew |
| Task archive (`archive.service.ts`, `task-archive.service.ts`, `archive-operation-handler.*`, `operation-log.effects.ts`) | young and old archive beside the store, actions whose row is not written yet | archive, restore, flush; side effects of replayed operations | whole-record reads and writes under no lock, rows written later, crash or failure between them |
| Reducers of tasks, projects and tags (`task-shared-meta-reducers/`, `task.reducer.ts`) | the NgRx store | twelve operations on relations kept at both ends | replay in another order, references that are gone |
| Validation and repair (`op-log/validation/`) | none | validate, repair | thirty steps that build on one another |
| Encryption, migration, other features, UI, shells, plugins | | | sequential or I/O, not modelled |

The components call one another directly, except that a client reaches the
server by HTTP requests that can be lost, answered late or retried, and that
server processes meet only in the database.

What makes the parts correct:

* the log: rows are never published twice, never out of the order in which
  devices read them, and no write to an entity is accepted from somebody who had
  not seen the write before it;
* full-state operations: a device that starts from one can go on editing;
* retention: nothing is deleted that a newer full-state operation or the cached
  snapshot does not cover;
* retries: a repeated request has the effect and the answer of the first;
* clients: a device never misses a row behind its cursor; an operation that
  settles a conflict is accepted; devices that have exchanged everything agree;
* the shared file: no upload overwrites another device's, a gap is noticed, and the
  snapshot shows what the operations next to it did;
* the archive: a task is in one place, the one its last operation put it in;
* the store: both ends of a relation agree, operations that do not clash commute,
  and a repair makes what concurrent operations leave behind valid without losing a task.

## 2. Modules

| Module | What it models |
|---|---|
| `SyncVectorClock` | the clock algorithms, as operators over total functions in which 0 is "absent" |
| `SyncVectorClockProofs` | lemmas about them |
| `SuperSyncServer` | one user's log on the server: uploads, retries, cleanup, wipe, restarts |
| `OperationLog` | what the server promises, abstractly: whole uploads appended one at a time, each write having seen the one before it |
| `OperationLogProofs` | the abstract log loses no update |
| `SuperSyncServerProofs` | the theorems of the server in three parts: types and numbers; the server implements the abstract log; what full-state operations cover and cached results say |
| `MCSuperSyncServer` | the small instances of it that TLC checks |
| `ClockExchange` | devices that edit offline, exchange operations through the server's log and settle conflicts; crashes and lost replies |
| `ClockExchangeProofs` | its types with the limit on attempts, and that what a device takes for uploaded is stored |
| `Subsequences`, `SubsequenceProofs` | the entries of a sequence that satisfy a condition, by a recursive function, and what holds of them |
| `FileSync` | devices that synchronise through one file of a cloud provider |
| `FileSyncProofs` | the inductive invariant and the theorems of the shared file |
| `TaskArchive` | the archives as sequences of reads and writes by the service, the local effect and the replay, beside the rows of the operations that are written later |
| `TaskArchiveProofs` | its types, and that the store shows what the log will show after a restart |
| `TaskRelations` | the reducers on tasks, subtasks, projects, tags and the archive; validation; repair; two devices that apply concurrent operations in different orders |
| `TaskRelationsProofs` | types; operations that are not concurrent keep both ends of every relation in agreement; what concurrent ones leave of families; a task is in one place; what a repair makes valid and shows, and that it loses no task |
| `MCClockExchange`, `MCFileSync`, `MCTaskArchive`, `MCTaskRelations` | the small instances of them that TLC checks |

`SuperSyncServer`, `OperationLog`, `ClockExchange` and `FileSync` extend `SyncVectorClock`.
`SuperSyncServer` instantiates `OperationLog` with its table and its published counter
(`Log == INSTANCE OperationLog WITH log <- rows, last <- state.lastSeq`). The `MC` modules add
only values for the constants, `MCTaskRelations` also a choice of start stores. `ClockExchange` composes the devices with a server of
its own, reduced to what a device can notice: `Verdict`, `Stored` and `RowsOfOthers`
are the conflict check, the pruned row and the piggyback of `SuperSyncServer` for
operations on one entity, one request at a time (`SuperSyncServer` shows that
concurrent transactions amount to that: `BehavesAsLog`). The last two modules take the
exchange of operations as given and look at what the operations do: `TaskArchive` at the
part of the data that is not rebuilt from the log, `TaskRelations` at the part that is.

### SuperSyncServer, state and code

| Variable | Code |
|---|---|
| `rows` | table `operations`; `clk` is the stored, pruned clock, `at` is `receivedAt` |
| `state` | the `user_sync_state` row (a missing row is the all-zero one) |
| `handler` | a request in `uploadOpsHandler` / `uploadSnapshotHandler`: its phase, what its transaction read (`view`, `base`), what it will write (`fresh`), its results |
| `cache` | `RequestDeduplicationService` of each process |
| `sweep` | what the daily retention job has read |
| `wipe` | `deleteAllUserData` in progress |
| `now` | coarse time: equal values mean "the same tick" |
| `ledger` | history only: rows accepted since the user's data was last reset |

A handler goes `received`, `locked` (the storage lock of its process), `checked`
(for an "initial" import: no full-state operation existed), `open` (the
transaction has its snapshot), `committed`, `snapshotted`, `done`. Each arrow is
an action, so that anything of another handler, process or job can come between.

Modelling decisions a reader should know:

* *Transactions.* Prisma runs `uploadOps` at REPEATABLE READ. In PostgreSQL such a
  transaction fails when it writes a row that was changed after its snapshot.
  Every accepted operation writes `user_sync_state`, so `stale` marks the open
  transactions when another one writes that row. A unique violation on the id or
  on (userId, serverSeq) fails the transaction too; `CanCommit` says both, and
  `AbortUpload` may happen at any time (timeouts, serialisation failures).
* *The post-sequence conflict check* of the serial path reads the same snapshot as
  the first check and so never finds anything new; it is not a separate step.
* *Batch and serial path* give the same verdicts and rows except for one id twice
  in a batch, which the instances do not send.
* *The account wipe* runs at READ COMMITTED: its first statement takes the rows of
  that moment (`doomed`), its later ones the state row of their own moment. It also writes the
  user's row (the storage counter), as every accepted upload does: so an upload that is open
  at that moment fails on the batch path too, whose upsert would make a new state row.
* *Time of an upload.* `at` is taken when the transaction opens, while `uploadOps` reads the
  clock just before that (`sync.service.ts:114`). On one process the storage lock is held all
  the while. With two, rows may have times in the other order, apart by the time it
  takes to open a transaction, and a retention cut-off that falls just between deletes the
  later row first. `RowsAge` excludes this, and with it the theorems that rest on
  `SerialInv`; the run with the retention job has one process.
* *Quota.* Whether the quota is exceeded, and whether a snapshot is too large to be
  cached, are free choices: byte counting is left out. `FreeStorage` is one pass of
  the loop in `freeStorageForUpload`; its read of the oldest restore points and its
  deletion are one step.
* *Caching of results* happens in the continuation right after the lock is
  released; it is modelled as happening under the lock.
* *Pruning.* `KeptEntries` assumes that at most `MaxClockSize` ids are preserved; the
  callers preserve at most two of 20.

### ClockExchange, state and code

| Part | Code |
|---|---|
| `rows` | the server's log of one user, pruned clocks as stored |
| `device[c].log` | the `ops` store of the client: operations with a status. *pending* = neither `syncedAt` nor `rejectedAt`; *applied* = a stored row of another device |
| `.clock` | the `vector_clock` store |
| `.value` | what the NgRx store shows for each entity: the edit from which the state stems |
| `.cursor` | `lastServerSeq` |
| `.snapshot` | the state cache: how far it covers the log, and its clock |
| `.attempts` | `_resolutionAttemptsByEntity`, in memory only |
| `.phase`, `.reply`, `.rejected`, `.extra` | where a synchronisation is and what it holds in local variables |

| Action | Code |
|---|---|
| `Edit` | `OperationLogEffects.writeOperation` |
| `Download` | `downloadRemoteOps` of `operation-log-sync.service.ts`, from the request to `setLastServerSeq` |
| `Upload`, `LoseReply` | the request of `_uploadPendingOpsViaApi`, and the transport error that ends it |
| `ReceiveReply` | the rest of it, `processRemoteOps` on the piggybacked rows, the cursor, and `handleRejectedOps` up to its first download |
| `DownloadForRejected`, `DownloadNothing`, `ForceDownload`, `FailDownload` | `_resolveConcurrentModifications` |
| `Settle` | `resolveSupersededLocalOps` |
| `Restart` | `hydrateStore` after an orderly stop, at any moment |
| `Crash(c, n, moved)` | a stop after the first `n` writes with which a batch of rows is processed, then `hydrateStore`; `moved` says whether the cursor was written too |
| `CrashSettling(c, n)` | the same for the writes of `Settle` |

Modelling decisions a reader should know:

* *One batch is one step.* `processRemoteOps` holds the lock of the operation log from
  conflict detection to the last write; edits wait (deferred actions), and only one
  synchronisation runs at a time. So an interleaving cannot tell the writes of a batch
  apart, and only a crash can: `LogAfter` gives the log after each of them.
* *An operation sets the whole of one entity.* A local-win operation carries the whole
  state (`createLWWUpdateOp`), so `value` is one edit. Partial updates of different
  fields are not told apart, nor are deletions and archiving.
* *An entity exists from its first edit on.* Two devices may create it independently,
  as with entities whose ids are derived from a date.
* *Time.* `Stamps` are the readings of the wall clock that differ; a device's own clock
  never goes back. With `SharedTime` a new edit is never older than an edit already
  made anywhere, which is what a user means by "newest".
* *Snapshots.* The replay of a log without snapshot ends with one; later ones come only
  after more than ten replayed operations, and compaction after many more.

### FileSync, state and code

| Part | Code |
|---|---|
| `file` | the sync file: revision of the provider, `syncVersion`, clock, author of the last upload, state snapshot, `recentOps` with the version that brought each |
| `dev[d].pending`, `.known`, `.ops`, `.clock` | unsynced operations, ids of stored ones, what the state shows, the vector clock |
| `.seq`, `.expected`, `.cache` | cursor, expected version and cached file of the adapter, the last for 30 seconds |
| `.phase`, `.got`, `.import` | where a synchronisation is, what it holds, a full-state operation that waits for upload |

`Download`, `ApplyOps`, `SkipSnapshot`, `AcceptSnapshot`, `RejectPending`, `Hydrate` and
`AdvanceCursor` are the download and the taking over of a snapshot; `StartUpload`,
`PrepareChunk`, `WriteChunk`, `MeetMismatch` and `MarkSynced` an upload in chunks;
`AskUser`, `ChooseLocal`, `ChooseRemote` and `ForceUpload` the dialog; `GiveUp`,
`Restart` and `ExpireCache` may come at any moment.

* Every operation edits an entity of its own, so a state is the set of operations it
  shows; conflicts belong to `ClockExchange`.
* `WriteSucceeds` is the conditional write of the provider (If-Match, revision). With
  `GuardedCreate` FALSE creating a file that exists succeeds, as Dropbox does.
* The switches `CycleWithinTtl`, `ChunksTogether`, `GuardedCreate` and `EditsAtHydration`
  name the assumptions under which the passing runs hold; what happens without each is in section 5.

### TaskArchive, state and code

| Part | Code |
|---|---|
| `ops`, `log`, `failed` | operations in the order their rows were written, their order in each device's log, those marked failed |
| `waiting` | dispatched actions that `persistOperation$` has not written yet (`operation-log.effects.ts:101-114`) |
| `live` | the tasks in the NgRx store, changed at the dispatch; rebuilt from the log at a start |
| `young`, `old` | the records `archiveYoung`, `archiveOld` of the database |
| `job` | what the archive service, the local effect and the replay are at: the operation, the next read or write, the copies read so far |
| `queue`, `batch` | restored tasks that wait for the effect; the remote operations being replayed |
| `exposed` | history only: tasks of a device that a race, a cut or a failure left in doubt |

Three things go on at a device and do not wait for one another. The user dispatches actions,
which change the store at once. The rows of these actions are written one after another
(`WriteRow`); an error is shown and swallowed (`RowFails`), and a crash loses those that
wait (`Restart`). And up to three jobs read and write the archives, each read and each write
of a whole record being an action (`LoadYoung`, `AddToYoung`, `DeleteFromYoung`, `LoadOld`,
`DeleteFromOld`, `FlushYoung`, `FlushOld`, `FlushBoth`), so that the steps of another job, a
crash or a failed write (`ArchivingFails`, `FlushFails` with its rollback, `EffectFails`,
`ReplayFails`) come between any two. The local flush is three steps: both writes, then the
dispatch of its operation (`FlushYoungToOld`), whose row is again written later.

* *Rows and batches.* A row is not written while a batch is applied, as both hold the lock
  of the log or the action is deferred; a download first waits for the rows
  (`remote-ops-processing.service.ts:329`). A row once written is in everybody's reach:
  what an upload does is the matter of `ClockExchange`. So is the settling of concurrent
  operations on one task; an archiving or restoring is made by a device that knows all
  others on the task (`UpToDate`).
* *Doubt.* What the code is known to lose is told apart task by task, and each rule names
  one way. At a crash: an archiving or restoring of which the row was written and
  the archive not, or the other way round (`Torn`); old tasks between the two writes of a
  flush (`InTransit`); the rest of a batch that the recovery takes for applied
  (`TakenForApplied`); old tasks of a retry that begins again (`Repeated`). At a
  failure: the tasks of the lost row, of the archiving or of the effect. Without any fault:
  what a job writes while another holds copies (`Overwritten`), and a task on which a second
  operation comes before the first is done (`Contested`). A task that the store shows against
  the log (`Strayed`) carries the doubt to the other devices with the next operation on it.
  Properties speak of all other tasks; section 5 says what happens to these.
* *Not covered:* a second archiving while the service is at the first (each caller awaits its
  own, but nothing keeps two callers apart); that the rollback of a flush fails; that a row is written at a second attempt
  after a full quota (`operation-log.effects.ts:355-370`).

### TaskRelations, state and code

| Part | Code |
|---|---|
| `store[d].tasks` | the task entities: `parentId`, `projectId`, `tagIds`, `subTaskIds` |
| `.lists`, `.tagged` | `taskIds` of each project and of each tag |
| `.archive` | both archives as one, changed with the store |
| `log`, `pending`, `seen` | operations on the server, those not uploaded, how far a device has applied the log |
| `broken` | devices whose reducer has thrown |

`Reduced` is one operator per reducer, `Batch` the bulk reducer, `Valid`
`isRelatedModelDataValid`, `Repaired` the steps of `dataRepair` that concern these
relations, in their order. The actions are what the user does; payloads are built from
the store at that moment, as the services do. `Sync` applies what others uploaded and
appends the device's own operations.

* `Init` is *every* consistent store over the ids (333 of them up to symmetry), so that
  a few operations reach what takes many more from an empty store. The theorems and
  `replay_throws` are about all of them, the run `relations` about five (section 3).
* Concurrent operations whose entity is the same do not occur: conflict resolution
  settles them before they are applied (`ClockExchange`).
* A repair is evaluated, not taken as a step: what its REPAIR operation does to other
  devices is that of a full-state operation. A device whose store needs a repair does
  nothing more (`Works`), also when its own operation made the store invalid. The code looks
  for that only after remote operations (`remote-ops-processing.service.ts:677`,
  `conflict-resolution.service.ts:214`), so that its user could go on until then; section 5
  has what this can lead to.
* Lists are sets: order, backlog, today list, planner and schedules are left out.

## 3. Runs

| Run | Instance | Question | Result |
|---|---|---|---|
| `server_uploads` | 2 processes, one handler each; a batch of two operations, a batch with an invalid one and a concurrent successor, an encrypted import; clocks pruned to one id | no lost update, counter and full-state clock cover the log | holds |
| `server_cleanup` | 1 process, 2 handlers; edit, first import, later import, clean-slate import; retention with 2 ticks | nothing uncovered is deleted, cached replies are true, numbers only grow, first imports exclude each other | holds |
| `server_wipe` | 2 processes; 2 imports, 1 wipe | every stored row has a number that its own transaction publishes, though the wipe resets the counter under open transactions | holds |
| `clean_slate_retry` | 1 process | a retried clean slate deletes nothing new | violated, see 5 |
| `exchange_restarts` | 2 devices with wall clocks that disagree, 1 entity, 2 edits each, 1 failure, 1 restart or crash, limit of 1 attempt | no row is missed, nothing is taken for uploaded that is not, the limit on attempts is kept | holds |
| `exchange_settles` | 2 devices, clocks pruned to one id, 1 edit each, 2 failures, 2 restarts or crashes | synchronisation comes to an end (liveness) | holds |
| `exchange_three` | 3 devices, wall clocks agree, 1 entity, 1 edit each, 1 failure | devices agree in the end, on a newest edit | holds |
| `file_uploads` | 2 devices, one founds the file; a buffer of one operation that overflows at each upload, 2 edits each, 1 failure or cancelled dialog, 1 restart | no upload overwrites another, a gap is noticed, the snapshot shows the operations next to it, synchronisation comes to rest (liveness) | holds |
| `file_forced` | 3 devices share a file of version 12, 1 edit each, one replacement by choice | the others notice that versions start anew; only a choice gives up operations; a chunk replaces the very file it was merged with | holds |
| `archive_jobs` | 2 devices that both have an old task, a second task, 3 more operations, 1 failed row or write, 1 restart anywhere | a task is shown as the log will show it, it is where its last operation puts it, never nowhere, never in both archives, unless a fault or race met an operation on this very task half done | holds |
| `relations` | 2 devices, 3 tasks, 2 projects, 1 tag, 3 operations from five start stores | families have no loops and lists miss no subtask, a task is in one place, what does not clash converges, a repair makes valid what it can and loses no task | holds |
| `replay_throws` | the same with 2 operations from any consistent store | a replay never throws | violated, see 5 |

Properties of the server: `TypeOK`, `CounterCoversRows`, `SeenPriorWriter`, `FullStateClockCovers`,
`DeletedIsCovered`, `CachedResultsAreStored`, `NewRowsGoLast`, `FirstImportIsAlone`,
`NumbersArePublished` and the refinement `BehavesAsLog`; of the devices: `TypeOK`, `NothingMissed`, `SyncedIsStored`,
`Settles`, `Converged`, `NewestEditWins`; of the shared file:
`TypeOK`, `SnapshotShowsRecent`, `SeenMeansEqual` (equal cursors mean equal states),
`OnlyChoicesDiscard`, `WritesFollowReads`, `Settles`; of the archive: `TypeOK`, `PlacedAsLogged`,
`NeverNowhere`, `InOneArchive`, `ShownAsLogged`; of the relations: `TypeOK`, `OwnEditsKeepConsistent`,
`FamiliesAgree`, `InOnePlace`, `RepairedIsValid`, `RepairLosesNoTask`, `RepairShowsRooted`,
`Converged`. Each is stated with a
comment at the end of its module, and next to an operator of the model stands the mutant (marked "Mutant:") of the code
that breaks it. The mutants are used by nothing else in the model.

Bounds. Two handlers are enough for every pairwise race: transactions meet only in
pairs, through `stale`, the unique keys and the lock. Two clients give all four
outcomes of a comparison. `MaxClockSize` 1 with two clients makes the pruning of
the code's 20 ids happen. `MaxSeq` bounds the log; `BeginUpload` does not start
beyond it. Two ticks of `now` tell "before the cutoff" from "after", and 1 is
before every cutoff. One wipe is enough for a wipe to race with uploads before and
after it. No run of the server needs deadlock checking turned off: requests may always
arrive.

Three devices are needed for a batch with two rows of different devices on one entity,
two for everything else. Two edits of a device give an edit between two steps of its
synchronisation, and a rejected operation beside a newer pending one. One failure and
one restart meet in every order with the steps of an exchange; a second of each, in
`exchange_settles`, lets a retry fail as well. `MaxAttempts` is 3 in the code; 1 lets the
limit be reached with few edits. `MaxClockSize` is the number of devices except in
`exchange_settles`, where one id makes the pruning of the code's 20 ids happen.
`MaxEdits` bounds the only step that makes work, so the devices may come to rest, and
the runs of `ClockExchange` check no deadlock. The same holds for the three modules below.

`file_uploads` keeps one operation in the buffer where the code keeps 500, so that every
second upload pushes one out; two chunks of one operation each are reached with two edits.
`file_forced` starts at version 12, far above what the new file can reach (with a small
version the reset goes unnoticed, see 5). `archive_jobs` has 728032 states. It starts from a
task that both devices have (`MCSpec`), so that three operations make archive, restore and archive
again, or a flush among them; the second task is created in the run, and is enough for
jobs on different tasks of which one moves to the old archive. The failed row or write and the restart
meet in every order. Each rule of doubt but one is needed here: without it TLC finds one of the
properties violated. A retry that begins again (`Repeated`) takes a second restart; with it,
for one task and from chosen states for two, the properties were checked as well. `relations` has 337395 states: three operations let two devices
meet with one operation against two, three tasks give a parent, a subtask and a second
parent. Two operations are too few: what archiving, restoring and a move together do to a
family (section 5) takes three. Three operations from every start store are too many for a
run, so `MCSpec` starts from three tasks without tags in the inbox, in a family of any
shape (three of these), and from a task with its subtask in the other project, archived or
tagged. From every start store, two operations were checked as well (348457 states), and
random behaviours of up to six operations with four tasks and three devices, and for
`FamiliesAgree` all behaviours of four operations on families of four tasks (1359429
states); none is a run of its own.

The passing runs stay outside the conditions under which section 5 says a property fails,
and these are stated rather than hidden: `Converged` and `NewestEditWins` are checked with
agreeing wall clocks, one entity, one edit for each device and no crash, `NothingMissed` with clocks
that keep every id and one entity, the file with `CycleWithinTtl`, `ChunksTogether`,
`GuardedCreate` and without edits at hydration, with two devices when a request may fail and
three when none does, the archive
except for `exposed` tasks (section 2 has the rules), `RepairShowsRooted` except for `Misplaced` tasks, `RepairedIsValid`
except for `Tangled` stores, `FamiliesAgree` on devices that have restored no task, and
`Converged` of the relations except for operations that `Clash`.

Fairness. `FairSpec` assumes that a device which can take a step of its synchronisation
goes on taking such steps (`WF_vars(SyncStep(c))`). The code starts one after edits, by a
timer, when the application gets the focus and on a message of the server; requests that
fail are repeated by the next one. Nothing is assumed of edits, failures or restarts;
they are bounded in number, as a network that always fails settles nothing. `FileSync`
has the same fairness (`WF_vars(Synchronise(d))`) for the same reason. `TaskArchive` and
`TaskRelations` check safety only.

`NewRowsGoLast`, `CounterCoversRows` and `FullStateClockCovers` are checked without
account wipes: a wipe resets the counter, and an upload that races with it
would break them (section 5). `BehavesAsLog` is checked without wipes for the same reason. `CachedResultsAreStored` and `FirstImportIsAlone` are checked on one
process: the cache and the lock are per process, and the code says so
(`sync.service.ts:594-597`).

## 4. Proofs

`SyncVectorClockProofs` proves for any set of client ids: comparing is
antisymmetric, merging is the least upper bound, an increment of the merge settles
a conflict, pruning the older clock keeps its successors and fits the size limit,
and the SQL aggregate dominates every clock it is taken over.

`SuperSyncServerProofs` proves for any handlers, processes, operations, requests and
bounds:

* `TypeCorrect`: `Spec => []TypeOK`;
* `NumbersAlwaysPublished`: `Spec => NumbersArePublished`, with any number of account wipes: a
  transaction counts on from the published counter, or it can no longer commit;
* `CounterAlwaysCovers`: `Spec => []CounterCoversRows`, without account wipes;
* `NewRowsAlwaysGoLast`: `Spec => NewRowsGoLast`, without account wipes.

`OperationLogProofs` proves `LogLosesNoUpdate`: every behaviour of the abstract log keeps
`NoLostUpdate`, though old rows are forgotten (forgetting takes the oldest rows, so the
newest one on an entity before a row is either unchanged or gone).

The second part of `SuperSyncServerProofs` proves, without account wipes, `ServerImplementsLog`: every step of the concurrent server is `Append`, `Replace` or `Forget` of the abstract log, or
leaves it alone. Its invariant adds to `ServerInv` what makes transactions serial: one
that is open and not stale sees the whole table and the published counter, what it will
write was judged against that table and against its own earlier rows, and the retention
job deletes from the beginning. A commit of such a transaction is an upload; a stale one
cannot commit. With `LogLosesNoUpdate` this gives `PriorWriterAlwaysSeen`:
`Spec => []SeenPriorWriter`.

The inductive invariant of the first group is `ServerInv` (at the end of `SuperSyncServer`). Neither
type correctness nor uniqueness is inductive alone. That the next number is within
the bound needs the invariant of open transactions: the numbers handed out are
consecutive from the counter that was read (`NumbersRows`). That a committed number
is new needs to know that this counter is still the published one unless the
transaction is stale, and a stale one cannot commit. That the merged full-state
clock is a clock needs the visible rows to be finite (`ReadsSnapshot`). Each action
has a lemma (`...Step`); three general ones carry most of them: `OneHandlerStep` (a
step inside one handler), `TablesStep` (deletes and jobs beside the handlers) and
`WriterStep` (a handler that writes the tables).

The third part proves the server's other four invariants:

* `FirstImportStaysAlone`: `Spec => []FirstImportIsAlone`, for one process. The storage
  lock keeps any two handlers of a process apart (`LockIsExclusive`), so what the check for an
  earlier full-state operation found still holds when the transaction commits (`ChecksHold`).
* `FullStateClockAlwaysCovers`: `Spec => []FullStateClockCovers`, without wipes. The clock
  of a full-state row is the maximum over the rows its transaction sees; the part to be
  shown is that these are all rows below its number, also while the transaction is open
  (`FullClockInv`), which needs that transactions are serial (`SerialInv` of the refinement).
* `DeletedStaysCovered`: `Spec => []DeletedIsCovered`, without wipes. `LedgerInv` says
  that every accepted row missing from the table is covered (`IsCovered`), that the snapshot
  a handler is about to cache is a published full-state row (`ReplyIsPublished`), and that what
  the daily job has read remains harmless until it deletes (`SweepIsHarmless`).
* `CachedResultsStayTrue`: `Spec => []CachedResultsAreStored`, for one process and without
  wipes. A result is cached only when its rows are stored or were found stored
  (`KnowsDuplicates`, `RepliesAreStored`), and the clean slate, which starts the log anew,
  clears the cache in the same step as its transaction ends.

`FileSyncProofs` proves of the shared file, for any number of devices, edits, replacements,
failures and restarts, and whatever the switches say:

* `FileTypeCorrect`: `Spec => []TypeOK`, which contains that the buffer of operations never
  exceeds `MaxRecent`. This is a count: the entries that survive the cut map one to one to
  how many are newer (`TrimFits`), which needs that entries are totally ordered. So
  `FileInv` says that entries of one version differ in their number, no entry has a version
  above the file's, and the operations of a queue or chunk have different numbers.
* `ChunksFollowReads`: `Spec => WritesFollowReads`, when `GuardedCreate` holds. The condition
  on a write compares revisions only; the invariant says that a file which a device holds
  or has cached is the present one or has a smaller revision (`IsCopy`), which a replacement
  keeps because it counts the revision on although it starts the versions anew.

`ClockExchangeProofs` proves of the devices, for any clients, entities, stamps, bounds and
clock sizes, with failures, restarts and crashes:

* `ExchangeTypeCorrect`: `Spec => []TypeOK`, which contains that no entity is settled more
  than `MaxAttempts` times in a session. Numbers of operations are bounded by counting:
  each is made by an edit or by a settlement, and a settlement uses up an attempt.
* `SyncedStaysStored`: `Spec => []SyncedIsStored`. An operation that a device takes for
  uploaded has a row with its id. The invariant speaks of the reply on its way too: what it
  calls accepted or a duplicate is stored when it is sent, and rows are never deleted here.
  The batches a server or device processes are recursive functions over positions
  (`Serve`, `Apply`), about which `SubsequenceProofs` proves what is needed by induction over
  initial segments.

`SubsequenceProofs` does the induction that the rest cites: what holds of the empty segment and
passes from one position to the next holds of every segment. It states this of *sets* of
positions, since a theorem that takes a predicate cannot be used here; a recursive function
over `0..n` can then be unfolded and reasoned about.

`TaskArchiveProofs` proves of the archives, for any devices, tasks, ages, bounds, lost rows,
failures and restarts, however the jobs of a device overlap:

* `ArchiveTypeCorrect`: `Spec => []TypeOK`. A restart takes the retried operations out of the
  log and a job may be at the first of a batch, so `TypeInv` adds that what is left of a
  batch is in the log, and that something is left while the replay is at a job.
* `StoreShowsTheLog`: `Spec => []ShownAsLogged`. Two things are compared that change at
  different times: the store at the dispatch, the log when a row is written, lost or brought
  by a batch. What a run of operations shows of a task depends only on the last of them that
  moves the task (`RunShows`, `LastMove`), so two stores that agree on a task agree on it
  after the same run (`RunAgrees`). A batch is reduced behind rows that were all written. The
  one thing that is out of order is the retry, which dispatches the failed operations after the whole
  log, as one batch. It is harmless where the failed operations on a task are the last
  ones on it. `RetryLast` says so of every task not in doubt: they come last in the log, what is
  left of a batch comes last too and in log order, and while there are any, no operation on
  the task waits for its row. That this is kept is what `Contested` is for.

`TaskRelationsProofs` proves of the relations, for any devices, tasks, projects, tags and any
number of operations:

* `RelationsTypeCorrect`: `Spec => []TypeOK`. An operation meets a store that need not be the
  one it was made of, so each reducer is shown to make a store of *any* store and operation.
  Restored and archived records come from other devices: `Born` says that their ids are in
  use, and new tasks take others.
* `RepairsLoseNoTask`: `Spec => []RepairLosesNoTask`. No invariant is needed beyond the types:
  it holds for any four maps, step by step, as each step of the repair either keeps the
  ids of store and archive together or moves them from one to the other.
* `OwnEditsConsistent`: `Spec => []OwnEditsKeepConsistent`. The core is `MadeSound`: an operation
  that the user makes of a `Sound` store keeps it `Sound`, with one lemma for each of the
  twelve. A store is `Sound` when parents and subtasks name each other (`Families`), lists
  and tasks agree (`ListsFit`), tags list what has them (`TagsFit`) and no task is both in the
  store and in the archive. The rest is about replay. The invariant `Traced` names the stores
  that the log leads through as long as its operations are not concurrent, and says that
  a device's store is the one its part of the log leads to, followed by its own pending
  operations; `Authored` says what is pending and what is unseen. An upload behind
  operations its author has not seen makes the log concurrent from there on
  (`UploadsConcurrent`), so nothing is claimed of it. Otherwise the other devices replay
  exactly the stores of the author (`ReplayEnds`).
* `TasksInOnePlace`: `Spec => []InOnePlace`. Every reducer keeps store and archive apart in any
  store that is `Tidy`, except one that makes a task which the archive holds. That this
  never happens is the invariant `Fresh`: a task which an operation makes is not known to any
  device that has yet to apply it, neither to its store nor to the operations it will upload,
  and no operation that comes before it in the log carries it. Without the part about
  operations `Fresh` is not inductive: a restoration brings back what its payload names.
* `FamiliesStayInOrder`: `Spec => []FamiliesAgree`. It holds of every store, valid or not. A
  deletion can leave a task whose parent is missing, and a task with the parent's id, were one
  made later, would not list it. So the invariant `Orderly` adds to "no
  loops, and every parent that is there lists its children" (`Lineal`) that no operation
  still to come makes a task which some task already names as its parent. Loops are stated
  without a notion of paths: every set of tasks has one whose parent is outside (`NoLoop`). This
  is what the reducers' guards preserve (`StillNoLoop`), and `NotAboveItself` derives from it
  what the recursive ancestor check of the code would answer, by following its
  iterations until they stop growing.
* `RepairsMakeValid` and `RepairsShowRooted`: `Spec => []RepairedIsValid` and
  `Spec => []RepairShowsRooted`. They hold for every tidy store, so the invariant is that of
  `TasksInOnePlace`. The proof follows the chain: what the first two steps fill in (`Filled`,
  `ListsFilled`), what both reunions settle of parents (`Settled`), and what the rest cleans
  (`Cleaned`); each says what of the store is final by then, and `Tangled` and
  `Misplaced` are where a later step may undo it.

Assumptions: client ids are numbers (they stand for strings with their order),
`MaxClockSize` is positive, operations and requests have the fields the model uses, a
snapshot request carries one operation, a full-state one
(`sync.routes.snapshot-handler.ts:174` builds no other), there are finitely many task ids to
draw from (any number; the ancestors of a task are counted), and the inbox is a project. TLC evaluates all of them in every run.

Only model-checked:

* `NothingMissed`, `Converged` and `NewestEditWins` of `ClockExchange`. They hold only within
  bounds that exclude the disagreements of section 5; an invariant would have to say
  by which clocks a device may leave a row out, and it is not known.
* `SnapshotShowsRecent`, `SeenMeansEqual` and `OnlyChoicesDiscard` of `FileSync`. They depend on who has
  applied what, which a device that skips a snapshot concludes from clocks alone. The last two
  are false for three devices and a failure (section 5), so no theorem can state them as they are.
* `PlacedAsLogged`, `NeverNowhere` and `InOneArchive` of `TaskArchive`. An invariant for them
  would have to say of every task that is not in doubt, at every point of three overlapping jobs
  with stale copies, which writes are still to come.
* `Converged` of `TaskRelations`: that any two of the twelve operations commute unless they
  clash, in any store that a device can be in, is a lemma for each of the seventy-eight pairs, and most
  need to know what the other device's operations since then left of the store.
* Liveness (`Settles`), which is out of the prover's reach, as is ENABLED.

## 5. Where code and documentation disagree

Two disagreements are runs, each of one property that states what a comment or a
document says:

* `clean_slate_retry`: the client sends `isCleanSlate` with every backup import and
  repair. A retry deletes the log again, and with it what other devices uploaded
  after the first attempt; the comment at `sync.routes.snapshot-handler.ts:286-291`
  speaks of these uploads and calls the retry idempotent.
* `replay_throws`: `docs/upstream/sync-and-op-log/operation-rules.md:95-100` asks that replay handle
  missing references without a throw. `handleConvertToMainTask`
  (`task-shared-crud.reducer.ts:155`) throws when the parent is gone, which is the case
  when another device deletes or archives it concurrently. `operation-applier.service.ts:41-44`
  argues that causal order suffices; concurrent operations have none. A hydration that
  replays the operation meets the same throw, as the bulk reducer catches none per operation.

The rest are observations: with the constants named here TLC finds the property
violated, and the passing runs stay outside. They are no runs, to keep these few.

Server and exchange of operations:

* `deleteAllUserData` deletes the operations first and the state row later, at READ
  COMMITTED and without the storage lock. An upload that commits in between survives
  behind a counter that is reset (`CounterCoversRows` with `MaxWipes` 1); the comment at
  `sync.service.ts:569` promises that all data is deleted.
* The snapshot route stamps the operation with the time of the request, and the duplicate
  check compares it: a retry that the request cache no longer answers is refused with
  `INVALID_OP_ID`.
* `autoResolveConflictsLWW` merges the clocks of the rows it has applied, then
  `appendWithVectorClockUpdate` replaces the stored clock by that of a local winner, built
  from one conflict. What was merged for the other rows of the batch is lost until the next
  start, and the next edit does not dominate them (`conflict-resolution.service.ts:442-447` calls
  this critical). `appendWithVectorClockUpdate` (`operation-log-store.service.ts:1729-1758`) puts the
  clock of the appended operation in place of the merged one; two devices, one entity and
  two edits each are enough (`EditsDominateApplied`, which no run checks any more).
* `NothingMissed` fails when clocks are pruned to one id and devices edit twice, and with two entities,
  three devices and a crash: a row whose clock no longer shows what it supersedes is taken
  for an older one and left out.
* Conflicts of a batch are resolved one by one before anything is applied. Of two rows on
  one entity one may win and one lose; the operation made for the loser carries the state
  of before, and devices stay different until the next edit (`Converged` with `SharedTime`
  FALSE; `conflict-resolution.service.ts:264-271`).
* Pending edits are rejected before the operation that replaces them is appended, by
  separate transactions. After a crash in between nothing carries the newer edit
  (`NewestEditWins` with `MaxRestarts` 1; the comments at `:260` and `:401` promise
  otherwise).

The shared file:

* `sync-hydration.service.ts:210`: the clock of a downloaded snapshot is merged with the
  current one, so an edit made while it is applied counts as contained in it
  (`SnapshotShowsRecent` with `EditsAtHydration` TRUE).
* `server-migration.service.ts:115`: two devices that both have data may each found the
  file; the second then synchronises with a file whose snapshot lacks its own
  operations (`SnapshotShowsRecent` with two `Founders`, none in `Joined`).
* `file-based-sync-adapter.service.ts:785` and `:725`: a replaced file starts its versions
  at 1 again. A device notices a version below the one it expects; when the new file has
  grown past that, it notices nothing (`SeenMeansEqual` with `StartVersion` 1 and one
  replacement, or with `StartVersion` 8, `MaxRecent` 3, two edits and a failure).
* Dropbox overwrites a file that appeared meanwhile where other providers refuse to create
  it: operations of another device are gone (`OnlyChoicesDiscard` with `GuardedCreate`
  FALSE).
* An import that was uploaded, but not marked so before a crash, is uploaded again and
  replaces the file a second time (`SeenMeansEqual` with `StartVersion` 8, two edits, one
  replacement, one restart).
* An upload of more than 25 operations goes in several requests
  (`operation-log-upload.service.ts:309`). The first clears the cached file
  (`file-based-sync-adapter.service.ts:624`), so the second reads the file anew, and when
  another device has written in between it adds that device's operations to `recentOps`
  beside a state that never saw them. `:484-485` says of a mismatch that to upload then
  "would embed a stale in-memory snapshot whose state never saw those ops"; here no mismatch
  is met. A device that takes over this snapshot counts these operations as applied
  (`SnapshotShowsRecent` with `ChunksTogether` FALSE and `MaxRecent` 3; with `MaxRecent` 1 the
  operation is gone: `OnlyChoicesDiscard`).
* A cycle that takes longer than the 30 seconds of the cache uploads over a file it has read
  anew (`SnapshotShowsRecent` with `CycleWithinTtl` FALSE).
* The snapshot of an upload is the state of the moment (`file-based-sync-adapter.service.ts:443`)
  and may show an edit that is not sent yet. If the request that follows the write fails and a
  third device writes enough for the author to meet a gap (`:763`), the author may choose the
  remote state: the edit leaves the queue, though the file's snapshot shows it and never had it
  among its operations. A device that was up to date by operations does not get it, and its
  next upload drops it from the file (`SeenMeansEqual`, then `OnlyChoicesDiscard`, with three
  devices of which two are `Joined`, `MaxRecent` 2, two edits, one failure and no replacement;
  found by following these steps, as the runs with a failure have two devices).

The archive. Each is an exception that `exposed` makes, by the rule in brackets; without it TLC
finds the property violated in `archive_jobs`.

* The row of an archiving or restoring is written some time after its dispatch
  (`operation-log.effects.ts:101-114`), an error is swallowed (`:138-141`), and neither
  `task.service.ts:948-951` nor `archive-operation-handler.effects.ts:79-98` waits for it. When
  the application ends or the write fails after the archive was written and before the row
  was, an archived task is shown again after the restart and is in the archive too; a
  restored one is in the log as archived and nowhere. Other devices never hear of either.
  After a failed row the user sees nothing of this before the next start. (`Torn`, and the
  tasks of `RowFails`: `PlacedAsLogged`, `NeverNowhere`.)
* A task that came back in this way is archived again, here or on another device. If it had
  been flushed it is then in both archives: `writeTasksToArchiveForRemoteSync`
  (`archive.service.ts:320`) and the service look at the young archive only, while
  `docs/upstream/sync-and-op-log/operation-log-architecture.md:1910-1914` asks that archive operations be
  idempotent and skip an archived task. (`Torn`, `Strayed`: `InOneArchive`.)
* The other way round, `moveToArchive` dispatches the action and only then calls the archive service
  (`task.service.ts:948-951`), whereas
  `docs/upstream/sync-and-op-log/diagrams/01-local-persistence.md:87` says "Archive writes happen BEFORE
  dispatch", and `archive-operation-handler.service.ts:196` the same. When the application ends
  in between and the row was written, the log takes the task out of the store and no archive
  has it. (`Torn`, and the tasks of `ArchivingFails`: `NeverNowhere`.)
* `operation-log-recovery.service.ts:172` marks rows applied that were reduced but whose
  side effects had not run; `remote-ops-processing.service.ts:390` promises a retry after a
  crash. A task archived by such a row is in neither place. (`TakenForApplied`: `NeverNowhere`.)
* `archive-operation-handler.effects.ts:75-77` says that archive operations do not overlap with
  other archive writes. Local effects run one after the other, but not with a replay or the
  service: of two that read the same record, the later write loses what the earlier one
  added, without any fault. (`Overwritten`: `PlacedAsLogged`, `NeverNowhere`.)
* The flush writes the young archive without the old tasks, then the old one with them
  (`archive.service.ts:263`): a crash between the writes loses them (`InTransit`:
  `NeverNowhere`). A crash after both, or a lost row, leaves a flush that no other device hears
  of; that moves tasks between archives on one device only and harms none of the properties.
* `operation-log-hydrator.service.ts:590`: failed operations are retried at hydration after
  later local ones were replayed, hence out of order. A restore whose side effect failed is
  retried after a later archiving of the same task and shows it again, against the log; the
  user may archive it once more, and another device, which sees two archivings in a row,
  then holds it in both archives. (`Contested`: all four.)
* A retry that was cut is repeated as a whole, with archive operations that were done: a
  task that was flushed in between ends in the young and in the old archive. (`Repeated`:
  `InOneArchive`, with `MaxRestarts` 2.)

Tasks, projects and tags (most are exceptions that a property names, see `Misplaced`,
`Tangled`, `Disputed`, `Restored` and `Clash`):

* `data-repair.ts:616-706`: orphaned subtasks are collected once. When the parent of a subtask
  is itself a subtask, whose parent is archived, it moves to the archive and leaves
  a new orphan behind; the caller validates the result, reports an error and gives up
  (`validate-state.service.ts:331-346`). Only concurrent operations make subtasks nest: one
  device adds a subtask to c, converts e to a subtask of a and archives a with it,
  the other converts c to a subtask of e (`RepairedIsValid` without `Tangled`, four
  tasks, four operations).
  `docs/upstream/sync-and-op-log/operation-log-architecture.md:68` says of "a subtask
  points to a missing parent" that a repair script runs, "e.g., detaches the subtask".
* `data-repair.ts:1350-1424`: subtasks get the project of their parent after the lists were
  compared with it, so a subtask that a project lists makes the repaired store invalid
  (`RepairedIsValid` without `Tangled`, five operations).
* A task that another device moved to a second parent stays on that parent's list when the
  first is archived with it; restored, it has one parent and is on both lists, which
  validation lets pass (three operations; `task-shared-lifecycle.reducer.ts:113`).
* The guards of `convertToSubTask` and `moveSubTask` (`can-convert-task-to-sub-task.ts:26`,
  `task.reducer.ts:65`) refuse an operation on one device and let it pass on the other. Of two
  devices one makes t a subtask of u, the other u of t; each refuses the other's. When the
  second now turns u back and makes t a subtask of v, the first refuses that too, as t has a
  parent there; turned to a main task by the second, t stays on u's list on the first. Moved
  to a fourth task instead, it is on two lists. Hence `FamiliesAgree` says that a parent
  lists its children, not that it lists nothing else.
* With restored tasks even loops occur, if a device whose own operation left its store
  invalid goes on (which `Works` rules out): one device moves x from y to m while the other
  archives and restores y, so that x is on both lists; m is archived and restored with x, while
  the other device turns x into a main task and y into its subtask. Then x and y are each
  other's parent on one device, in a store that validation lets pass, and no screen shows
  them (seven operations, two devices).
* A task that one device turns into a main task and archives, while another archives its
  former parent with it, is a main task on a parent's list. The repair gives it that
  parent's project after the lists were compared (`data-repair.ts:1350`): the result is not
  valid, or the task is in no list (`Disputed`).
* `data-repair.ts`: a main task whose project is gone gets the inbox as its project at
  `:999`, after the lists were filled at `:845`; an orphaned subtask becomes a main task at
  `:616-706`; a task on the list of another project is removed from it at `:1272`. All end
  in no list, valid but not shown. `data-repair.spec.ts:829` is called "should add orphan
  tasks to their project list".
* Validation looks from lists to tasks, never back. A task converted to a main task while
  another device moves its parent to another project ends in no list
  (`task-shared-crud.reducer.ts:231`), and nothing repairs it.
* `task-shared-crud.reducer.ts:353`: deletion of a task removes from tags the subtasks the
  operation lists. One that was added and tagged concurrently stays in the tag's list as a
  dangling id until the repair.
* A subtask added while another device archives the parent is gone on both. A main task
  converted to a subtask of a parent while another device archives or deletes that parent is
  lost on one device and kept on the other. Moving a subtask against the deletion of the new
  parent, deleting a tag against a use of it, and deleting a project against a move out of it
  end differently on two devices that apply them in different orders.

## 6. Not modelled

* Encryption, compression and schema migrations: functions of a payload, which the models
  abstract to its identity. What depends on them is the error path only.
* Rate limits, devices, WebSocket notification, accounts and sign-in: they decide whether a
  request arrives, never what it does to the log. The server's download and its paging:
  `ClockExchange` assumes that a reply holds all rows behind the cursor.
* The server's generation of snapshots by replay, of which only the effect on the retained
  log is modelled.
* Full-state operations on the devices of `ClockExchange` (filtering of older rows, the reset
  of the clock), compaction of the client's log, the repair operation that is uploaded.
* Time tracking in the archives, although `archive.service.ts:195-220` reads it, awaits a
  write and then replaces the whole of it: time tracked during the write is lost.
* In `TaskRelations`: planner days, repeat configurations, reminders, sections, boards, notes
  and the order in lists. The relations modelled are those with two ends that several
  reducers maintain; repair steps about other data do not touch them.
* The cloud providers beyond a conditional write: conflicts, throttling and retries of
  HTTP requests are either the conditional write or a failure.
* The user interface, native shells, plugins, issue providers and build tooling: they hold no
  state that is shared between devices except through the operations above.

The component list in `PROJECT.json` names each of them with its status.

## 7. Plan

Done: the vector clocks and the server with their proofs, the abstract log with its
refinement and proof, the exchange between devices, the shared file, the archive with the
agreement of store and log proved, and the relations with validation, repair and their proofs. What is left, in this order:

1. `Converged` of `TaskRelations`, by commutation lemmas for the pairs of operations that do not clash.
2. An invariant for `OnlyChoicesDiscard` and `SnapshotShowsRecent` of `FileSync`.
3. An invariant for `PlacedAsLogged` and `NeverNowhere` of `TaskArchive`.
4. `SyncCursor`: paging, incomplete piggybacks and gap detection of the devices composed
   with the server's log, with deletion and wipe. Question: is a wipe noticed when the
   counter has grown past the cursor again?
5. Full-state operations on the devices, then compaction with crashes between its steps.
