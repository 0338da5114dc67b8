----------------------------- MODULE TaskRelations -----------------------------
(***************************************************************************)
(* The relations between tasks, subtasks, projects and tags in the store,  *)
(* and their validation and repair.                                        *)
(*                                                                         *)
(* Each relation is kept at both of its ends: a task names its parent, its *)
(* project and its tags, and a parent, a project and a tag list their      *)
(* tasks.  The reducers of an operation change both ends; two devices      *)
(* apply concurrent operations in different orders, and what an operation  *)
(* refers to may be gone when it is applied.  After a download the store   *)
(* is validated, and repaired when it is not valid.                        *)
(*                                                                         *)
(* Concurrent operations on the same entity are the matter of              *)
(* ClockExchange and are excluded here, and what a repair makes of the     *)
(* other devices is that of a full-state operation.  The two archives are  *)
(* one, changed with the store (TaskArchive has the steps); lists have no  *)
(* order, projects no backlog, tasks no other content; a task always has a *)
(* project.                                                                *)
(***************************************************************************)
EXTENDS Naturals, FiniteSets, SequencesExt

CONSTANTS
  Devices,
  Tasks,
  Projects,
  INBOX,     \* INBOX_PROJECT.id: the project that is never deleted
  Tags,
  None,      \* no parent
  MaxOps     \* bound on the operations

ASSUME InboxAssumption == INBOX \in Projects
ASSUME NoneAssumption == None \notin Tasks
ASSUME TasksAssumption == IsFiniteSet(Tasks)
ASSUME BoundAssumption == MaxOps \in Nat

VARIABLES
  store,    \* the store of each device, with its archive
  log,      \* the operations on the server
  pending,  \* the operations a device has not uploaded, in order
  seen,     \* how much of the log a device has applied
  born,     \* the ids in use so far; a new task takes another
  broken    \* the devices whose reducer has thrown

vars == <<store, log, pending, seen, born, broken>>

Task == [parent : Tasks \union {None}, project : Projects, tags : SUBSET Tags, subs : SUBSET Tasks]

\* A function without some of its keys: entities removed by removeMany.
Without(f, keys) == Restrict(f, DOMAIN f \ keys)

\* addOne and addMany of the entity adapter leave ids alone that are there.
WithOne(f, id, value) == [x \in DOMAIN f \union {id} |-> IF x \in DOMAIN f THEN f[x] ELSE value]
WithMany(f, g) == [x \in DOMAIN f \union DOMAIN g |-> IF x \in DOMAIN f THEN f[x] ELSE g[x]]

\* Tasks added to or removed from some of the lists, where these exist.
Listed(lists, keys, ts) == [k \in DOMAIN lists |-> IF k \in keys THEN lists[k] \union ts ELSE lists[k]]
Unlisted(lists, keys, ts) == [k \in DOMAIN lists |-> IF k \in keys THEN lists[k] \ ts ELSE lists[k]]

\* updateOne on a parent, which does nothing when the parent is gone.
WithSub(tasks, p, t) ==
  [x \in DOMAIN tasks |-> IF x = p THEN [tasks[x] EXCEPT !.subs = @ \union {t}] ELSE tasks[x]]
WithoutSub(tasks, p, t) ==
  [x \in DOMAIN tasks |-> IF x = p THEN [tasks[x] EXCEPT !.subs = @ \ {t}] ELSE tasks[x]]

SubsOf(tasks, t) == {x \in DOMAIN tasks : tasks[x].parent = t}

-----------------------------------------------------------------------------
(* The reducers *)

AddTask(op, s) ==
  [s EXCEPT !.tasks = WithOne(@, op.task, [parent |-> None, project |-> op.project, tags |-> op.tags, subs |-> {}]),
            !.lists = Listed(@, {op.project}, {op.task}),
            !.tagged = Listed(@, op.tags, {op.task})]

AddSubTask(op, s) ==
  IF op.parent \notin DOMAIN s.tasks THEN s
  ELSE LET new == [parent |-> op.parent, project |-> s.tasks[op.parent].project, tags |-> {}, subs |-> {}]
       IN  [s EXCEPT !.tasks = WithOne(WithSub(s.tasks, op.parent, op.task), op.task, new)]

\* The guard throws where the others leave the store alone.
Throws(op, s) == op.kind = "convertToMain" /\ op.parent \notin DOMAIN s.tasks

ConvertToMain(op, s) ==
  LET freed == WithoutSub(s.tasks, op.parent, op.task)
  IN  [s EXCEPT !.tasks = [x \in DOMAIN s.tasks |->
                              IF x = op.task
                              THEN [freed[x] EXCEPT !.parent = None, !.tags = s.tasks[op.parent].tags]
                              ELSE freed[x]],
                !.lists = Listed(@, {op.project}, {op.task}),
                !.tagged = Listed(@, op.parentTags, {op.task})]

CanApplyWhenPresent(t, p, tasks) == {t, p} \subseteq DOMAIN tasks /\ t # p

CanApplyConvertToSubTask(t, p, tasks) ==
  /\ {t, p} \subseteq DOMAIN tasks
  /\ t # p
  /\ tasks[p].parent = None
  /\ tasks[t].parent = None
  /\ tasks[t].subs = {}

ConvertToSub(op, s) ==
  LET t == op.task
      p == op.parent
      with == WithSub(s.tasks, p, t)
  IN  IF ~CanApplyConvertToSubTask(t, p, s.tasks) THEN s
      ELSE [s EXCEPT !.tasks = [x \in DOMAIN s.tasks |->
                                  IF x = t
                                  THEN [with[x] EXCEPT !.parent = p, !.project = s.tasks[p].project, !.tags = {}]
                                  ELSE with[x]],
                     !.lists = Unlisted(@, {s.tasks[t].project}, {t}),
                     !.tagged = Unlisted(@, Tags, {t})]

\* A task and its ancestors, however deep.
Above(t, tasks) ==
  LET above[n \in 0..Cardinality(DOMAIN tasks)] ==
        IF n = 0 THEN {t}
        ELSE above[n - 1] \union {tasks[x].parent : x \in above[n - 1] \intersect DOMAIN tasks}
  IN  above[Cardinality(DOMAIN tasks)]

MoveSubTask(op, s) ==
  LET t == op.task
      with == WithSub(WithoutSub(s.tasks, op.source, t), op.target, t)
  IN  IF \/ ~({op.source, op.target} \subseteq DOMAIN s.tasks)
         \/ t \in Above(op.target, s.tasks) \union {op.source}
      THEN s
      ELSE [s EXCEPT !.tasks = [x \in DOMAIN s.tasks |->
                                  IF x = t
                                  THEN [with[x] EXCEPT !.parent = op.target, !.project = s.tasks[op.target].project]
                                  ELSE with[x]]]

SetTags(op, s) ==
  IF op.task \notin DOMAIN s.tasks THEN s
  ELSE LET before == s.tasks[op.task].tags
       IN  [s EXCEPT !.tasks = [x \in DOMAIN s.tasks |->
                                  IF x = op.task THEN [s.tasks[x] EXCEPT !.tags = op.tags] ELSE s.tasks[x]],
                     !.tagged = Listed(Unlisted(@, before \ op.tags, {op.task}), op.tags \ before, {op.task})]

InProject(tasks, ts, p) ==
  [x \in DOMAIN tasks |-> IF x \in ts THEN [tasks[x] EXCEPT !.project = p] ELSE tasks[x]]

MoveToProjectAlone(op, s) ==
  LET from == IF op.task \in DOMAIN s.tasks THEN s.tasks[op.task].project ELSE op.project
  IN  [s EXCEPT !.tasks = InProject(@, {op.task}, op.target),
                !.lists = Listed(Unlisted(@, {from}, {op.task}), {op.target}, {op.task})]

MoveToProject(op, s) ==
  LET t == op.task
      here == t \in DOMAIN s.tasks
      moved == {t} \union op.subs \union (IF here THEN s.tasks[t].subs ELSE {})
      from == IF here THEN s.tasks[t].project ELSE op.project
  IN  [s EXCEPT !.tasks = InProject(@, moved, op.target),
                !.lists = Listed(Unlisted(@, {from}, moved), {op.target}, {t})]

RemovedAsListed(tasks, t, parent, subs) == Without(WithoutSub(tasks, parent, t), {t} \union subs)

\* deleteTaskHelper: the task, the subtasks of the payload and those in the store.
Removed(tasks, t, parent, subs) ==
  Without(WithoutSub(tasks, parent, t), {t} \union subs \union SubsOf(tasks, t))

DeleteTask(op, s) ==
  [s EXCEPT !.tasks = Removed(@, op.task, op.parent, op.subs),
            !.lists = Unlisted(@, {op.project}, {op.task}),
            !.tagged = Unlisted(@, Tags, {op.task} \union op.subs)]

DeleteProject(op, s) ==
  [s EXCEPT !.tasks = Without(@, op.tasks),
            !.lists = Without(@, {op.project}),
            !.tagged = Unlisted(@, Tags, op.tasks),
            !.archive = Without(@, {x \in DOMAIN @ : @[x].project = op.project})]

Untagged(tasks, g) == [x \in DOMAIN tasks |-> [tasks[x] EXCEPT !.tags = @ \ {g}]]

DeleteTag(op, s) ==
  [s EXCEPT !.tasks = Untagged(@, op.tag), !.tagged = Without(@, {op.tag}), !.archive = Untagged(@, op.tag)]

\* Mutant: removes the subtasks the store has, not those of the payload.
MoveToArchiveAsStored(op, s) ==
  [s EXCEPT !.tasks = Removed(@, op.task, None, {}),
            !.lists = Unlisted(@, DOMAIN @, DOMAIN op.records),
            !.tagged = Unlisted(@, Tags, DOMAIN op.records),
            !.archive = WithMany(@, op.records)]

\* The payload holds the task and its subtasks, as they were when archived.
MoveToArchive(op, s) ==
  LET gone == DOMAIN op.records
      projects == {s.tasks[x].project : x \in gone \intersect DOMAIN s.tasks}
  IN  [s EXCEPT !.tasks = Removed(@, op.task, None, gone),
                !.lists = Unlisted(@, projects, gone),
                !.tagged = Unlisted(@, Tags, gone),
                !.archive = WithMany(@, op.records)]

NormalizedToNone(task, s) ==
  [task EXCEPT !.project = IF @ \in DOMAIN s.lists THEN @ ELSE None, !.tags = @ \intersect DOMAIN s.tagged]

\* normalizeRestoredTask
Normalized(task, s) ==
  [task EXCEPT !.project = IF @ \in DOMAIN s.lists THEN @ ELSE INBOX, !.tags = @ \intersect DOMAIN s.tagged]

RestoreTask(op, s) ==
  LET back == [x \in DOMAIN op.records |-> Normalized(op.records[x], s)]
  IN  [s EXCEPT !.tasks = WithMany(@, back),
                !.lists = Listed(@, {back[op.task].project}, {op.task}),
                !.tagged = [g \in DOMAIN @ |-> @[g] \union {x \in DOMAIN back : g \in back[x].tags}],
                !.archive = Without(@, DOMAIN back)]

Reduced(op, s) ==
  CASE op.kind = "addTask"       -> AddTask(op, s)
    [] op.kind = "addSubTask"    -> AddSubTask(op, s)
    [] op.kind = "convertToMain" -> ConvertToMain(op, s)
    [] op.kind = "convertToSub"  -> ConvertToSub(op, s)
    [] op.kind = "moveSubTask"   -> MoveSubTask(op, s)
    [] op.kind = "setTags"       -> SetTags(op, s)
    [] op.kind = "moveToProject" -> MoveToProject(op, s)
    [] op.kind = "deleteTask"    -> DeleteTask(op, s)
    [] op.kind = "deleteProject" -> DeleteProject(op, s)
    [] op.kind = "deleteTag"     -> DeleteTag(op, s)
    [] op.kind = "moveToArchive" -> MoveToArchive(op, s)
    [] op.kind = "restoreTask"   -> RestoreTask(op, s)

\* bulkApplyOperations reduces a whole batch in one go: when one operation
\* throws, none of them takes effect.
Batch(entries, s) ==
  LET upto[n \in 0..Len(entries)] ==
        IF n = 0 THEN [store |-> s, threw |-> FALSE]
        ELSE LET r  == upto[n - 1]
                 op == entries[n].op
             IN  IF r.threw \/ Throws(op, r.store) THEN [r EXCEPT !.threw = TRUE]
                 ELSE [r EXCEPT !.store = Reduced(op, @)]
  IN  upto[Len(entries)]

-----------------------------------------------------------------------------
(* Validation: isRelatedModelDataValid *)

Valid(s) ==
  LET here == DOMAIN s.tasks
      kept == DOMAIN s.archive
  IN  /\ \A p \in DOMAIN s.lists : \A t \in s.lists[p] : t \in here /\ s.tasks[t].project = p
      /\ \A t \in here : /\ s.tasks[t].project \in DOMAIN s.lists
                        /\ s.tasks[t].tags \subseteq DOMAIN s.tagged
                        /\ s.tasks[t].parent \in here \union {None}
                        /\ s.tasks[t].subs \subseteq here
      /\ \A g \in DOMAIN s.tagged : s.tagged[g] \subseteq here
      /\ \A t \in kept : s.archive[t].parent \in kept \union {None} /\ s.archive[t].subs \subseteq kept

-----------------------------------------------------------------------------
(* Repair: the steps of dataRepair, in its order *)

\* _removeMissingTasksFromListsOrRestoreFromArchive
RestoreListed(s) ==
  LET back == (UNION {s.lists[p] : p \in DOMAIN s.lists}) \intersect DOMAIN s.archive
  IN  [s EXCEPT !.tasks = WithMany(Restrict(s.archive, back), @),
                !.lists = [p \in DOMAIN @ |-> @[p] \intersect (DOMAIN s.tasks \union DOMAIN s.archive)],
                !.tagged = [g \in DOMAIN @ |-> @[g] \intersect DOMAIN s.tasks],
                !.archive = Without(@, back)]

AddOrphanedToLists(s) ==
  LET listed == UNION {s.lists[p] : p \in DOMAIN s.lists}
      orphans == {t \in DOMAIN s.tasks \ listed : s.tasks[t].parent = None}
  IN  [s EXCEPT !.lists = [p \in DOMAIN @ |-> @[p] \union {t \in orphans : s.tasks[t].project = p}]]

\* Subtasks of from whose parent is elsewhere: those that are also in to are
\* dropped, those with their parent in to move there, the others become main
\* tasks.  Both _moveArchivedSubTasksToUnarchivedParents and its converse.
Orphans(from, parents) == {t \in DOMAIN from : from[t].parent \notin parents \union {None}}

Adopted(from, to, lost) ==
  LET moved == {t \in lost \ DOMAIN to : from[t].parent \in DOMAIN to}
  IN  WithMany([x \in DOMAIN to |-> [to[x] EXCEPT !.subs = @ \union {t \in moved : from[t].parent = x}]],
               Restrict(from, moved))

Released(from, to, lost) ==
  LET kept == (DOMAIN from \ lost) \union {t \in lost \ DOMAIN to : from[t].parent \notin DOMAIN to}
  IN  [x \in kept |-> IF x \in lost THEN [from[x] EXCEPT !.parent = None] ELSE from[x]]

ReuniteArchived(s) ==
  LET lost == Orphans(s.archive, DOMAIN s.archive)
  IN  [s EXCEPT !.archive = Released(s.archive, s.tasks, lost), !.tasks = Adopted(s.archive, s.tasks, lost)]

ReuniteOrDrop(s) ==
  LET lost == Orphans(s.tasks, DOMAIN s.tasks)
  IN  [s EXCEPT !.tasks = Without(@, lost), !.archive = Adopted(s.tasks, s.archive, lost)]

ReuniteUnarchived(s) ==
  LET lost == Orphans(s.tasks, DOMAIN s.tasks)
  IN  [s EXCEPT !.tasks = Released(s.tasks, s.archive, lost), !.archive = Adopted(s.tasks, s.archive, lost)]

\* _cleanupOrphanedSubTasks
WithoutMissingSubs(tasks) == [t \in DOMAIN tasks |-> [tasks[t] EXCEPT !.subs = @ \intersect DOMAIN tasks]]

EmptyLists(s) ==
  LET right(p) == \A t \in s.lists[p] : t \in DOMAIN s.tasks /\ s.tasks[t].project = p
  IN  [s EXCEPT !.lists = [p \in DOMAIN @ |-> IF right(p) THEN @[p] ELSE {}],
                !.tagged = [g \in DOMAIN @ |-> @[g] \intersect DOMAIN s.tasks]]

\* _cleanupNonExistingTasksFromLists and _fixInconsistentProjectId
CleanLists(s) ==
  [s EXCEPT !.lists = [p \in DOMAIN @ |-> {t \in @[p] \intersect DOMAIN s.tasks : s.tasks[t].project = p}],
            !.tagged = [g \in DOMAIN @ |-> @[g] \intersect DOMAIN s.tasks]]

\* _fixInconsistentTagId
TagAsListed(s) ==
  LET listing(t) == {g \in DOMAIN s.tagged : t \in s.tagged[g]}
  IN  [s EXCEPT !.tasks = [t \in DOMAIN s.tasks |->
                             [s.tasks[t] EXCEPT !.tags = s.tasks[t].tags \union listing(t)]]]

\* _setTaskProjectIdAccordingToParent; when several tasks list a subtask, the
\* last one decides, here any one.
InParentsProject(tasks) ==
  [t \in DOMAIN tasks |->
     LET above == {tasks[p].project : p \in {x \in DOMAIN tasks : t \in tasks[x].subs}}
     IN  IF above = {} THEN tasks[t] ELSE [tasks[t] EXCEPT !.project = CHOOSE p \in above : TRUE]]

WithoutMissingTags(s) ==
  [s EXCEPT !.tasks = [t \in DOMAIN @ |-> [@[t] EXCEPT !.tags = @ \intersect DOMAIN s.tagged]]]

\* _removeNonExistentProjectIdsFromTasks and _removeNonExistentTagsFromTasks
WithoutMissingRefs(s) ==
  [s EXCEPT !.tasks = [t \in DOMAIN @ |-> Normalized(@[t], s)]]

Repaired(s) ==
  LET reunited == ReuniteUnarchived(ReuniteArchived(AddOrphanedToLists(RestoreListed(s))))
      withSubs == [reunited EXCEPT !.tasks = WithoutMissingSubs(@), !.archive = WithoutMissingSubs(@)]
      tagged == TagAsListed(CleanLists(withSubs))
      placed == [tagged EXCEPT !.tasks = InParentsProject(@), !.archive = InParentsProject(@)]
      single == [placed EXCEPT !.archive = Without(@, DOMAIN placed.tasks)]
  IN  WithoutMissingRefs(single)

-----------------------------------------------------------------------------
(* The devices *)

\* Parents and subtasks name each other and share a project; a subtask has none.
AreFamilies(tasks) ==
  \A t \in DOMAIN tasks :
    LET p == tasks[t].parent
    IN  /\ tasks[t].subs = SubsOf(tasks, t)
        /\ p # None => tasks[p].parent = None /\ tasks[t].project = tasks[p].project

\* Both ends of every relation agree.  (A tag may list a task that has lost it:
\* a subtask takes over its parent's tags when it is converted.)
Consistent(s) ==
  /\ Valid(s)
  /\ DOMAIN s.tasks \intersect DOMAIN s.archive = {}
  /\ AreFamilies(s.tasks) /\ AreFamilies(s.archive)
  /\ \A t \in DOMAIN s.tasks :
       /\ \A l \in DOMAIN s.lists :
            t \in s.lists[l] <=> s.tasks[t].parent = None /\ l = s.tasks[t].project
       /\ \A g \in s.tasks[t].tags : t \in s.tagged[g]

\* Every store of tasks and subtasks that the reducers of one device build.
Family(parents, projects, tags) ==
  [t \in DOMAIN parents |->
     [parent |-> parents[t],
      project |-> projects[IF parents[t] = None THEN t ELSE parents[t]],
      tags |-> tags[t],
      subs |-> {x \in DOMAIN parents : parents[x] = t}]]

StoresOf(parents) ==
  LET ids == DOMAIN parents
      mains == {t \in ids : parents[t] = None}
  IN  {LET all == Family(parents, projects, tags)
           kept == archived \union {t \in ids : parents[t] \in archived}
       IN  [tasks   |-> Without(all, kept),
            archive |-> Restrict(all, kept),
            lists   |-> [p \in Projects |-> {t \in mains \ kept : projects[t] = p}],
            tagged  |-> [g \in Tags |-> {t \in ids \ kept : g \in tags[t]}]] :
         archived \in SUBSET mains, projects \in [mains -> Projects], tags \in [ids -> SUBSET Tags]}

StartStores ==
  UNION {UNION {StoresOf(parents) :
                  parents \in {f \in [ids -> ids \union {None}] : \A t \in ids : f[t] # None => f[f[t]] = None}} :
           ids \in SUBSET Tasks}

Init ==
  /\ \E s \in StartStores :
       /\ store = [d \in Devices |-> s]
       /\ born = DOMAIN s.tasks \union DOMAIN s.archive
  /\ log = <<>>
  /\ pending = [d \in Devices |-> <<>>]
  /\ seen = [d \in Devices |-> 0]
  /\ broken = {}

\* What conflict detection compares: the entity the operation is on.
Entity(op) ==
  CASE op.kind = "deleteProject" -> op.project
    [] op.kind = "deleteTag"     -> op.tag
    [] OTHER                     -> op.task

\* The operations of other devices that d has not applied.
Unseen(d) ==
  {log[i] : i \in {j \in (seen[d] + 1)..Len(log) : log[j].by # d}} \union
  UNION {ToSet(pending[e]) : e \in Devices \ {d}}

Made == Len(log) + FoldSet(LAMBDA d, n : n + Len(pending[d]), 0, Devices)

\* A store is repaired when it is not valid; the archives are left out of the
\* check that decides this.
NeedsRepair(s) == ~Valid([s EXCEPT !.archive = <<>>])

\* A repair is where the story of a device ends here.
Works(d) == d \notin broken /\ ~NeedsRepair(store[d])

\* The user's action: reduced at once, logged, and uploaded with the next Sync.
Dispatch(d, op) ==
  /\ Made < MaxOps
  /\ Works(d)
  /\ \A e \in Unseen(d) : Entity(e.op) # Entity(op)
  /\ store' = [store EXCEPT ![d] = Reduced(op, @)]
  /\ pending' = [pending EXCEPT ![d] = Append(@, [op |-> op, by |-> d, base |-> seen[d]])]
  /\ UNCHANGED <<log, seen, broken>>

Here(d) == DOMAIN store[d].tasks
Mains(d) == {t \in Here(d) : store[d].tasks[t].parent = None}
The(d, t) == store[d].tasks[t]
ProjectsOf(d) == DOMAIN store[d].lists
TagsOf(d) == DOMAIN store[d].tagged

CreateTask(d) ==
  \E t \in Tasks \ born, p \in ProjectsOf(d), tags \in SUBSET TagsOf(d) :
    /\ Dispatch(d, [kind |-> "addTask", task |-> t, project |-> p, tags |-> tags])
    /\ born' = born \union {t}

CreateSubTask(d) ==
  \E t \in Tasks \ born, p \in Mains(d) :
    /\ Dispatch(d, [kind |-> "addSubTask", task |-> t, parent |-> p])
    /\ born' = born \union {t}

ConvertToMainTask(d) ==
  \E t \in Here(d) \ Mains(d) :
    LET p == The(d, t).parent
    IN  /\ Dispatch(d, [kind |-> "convertToMain", task |-> t, parent |-> p, project |-> The(d, t).project,
                       parentTags |-> The(d, p).tags])
        /\ UNCHANGED born

ConvertToSubTask(d) ==
  \E t, p \in Mains(d) :
    /\ CanApplyConvertToSubTask(t, p, store[d].tasks)
    /\ Dispatch(d, [kind |-> "convertToSub", task |-> t, parent |-> p])
    /\ UNCHANGED born

DragSubTask(d) ==
  \E t \in Here(d) \ Mains(d), p \in Mains(d) :
    /\ p # The(d, t).parent
    /\ Dispatch(d, [kind |-> "moveSubTask", task |-> t, source |-> The(d, t).parent, target |-> p])
    /\ UNCHANGED born

ToggleTags(d) ==
  \E t \in Here(d), tags \in SUBSET TagsOf(d) :
    /\ tags # The(d, t).tags
    /\ Dispatch(d, [kind |-> "setTags", task |-> t, tags |-> tags])
    /\ UNCHANGED born

MoveToOtherProject(d) ==
  \E t \in Mains(d), p \in ProjectsOf(d) :
    /\ p # The(d, t).project
    /\ Dispatch(d, [kind |-> "moveToProject", task |-> t, project |-> The(d, t).project,
                   subs |-> The(d, t).subs, target |-> p])
    /\ UNCHANGED born

RemoveTask(d) ==
  \E t \in Here(d) :
    /\ Dispatch(d, [kind |-> "deleteTask", task |-> t, project |-> The(d, t).project,
                   parent |-> The(d, t).parent, subs |-> The(d, t).subs])
    /\ UNCHANGED born

RemoveProject(d) ==
  \E p \in ProjectsOf(d) \ {INBOX} :
    LET listed == store[d].lists[p]
    IN  /\ Dispatch(d, [kind |-> "deleteProject", project |-> p,
                       tasks |-> listed \union UNION {The(d, t).subs : t \in listed}])
        /\ UNCHANGED born

RemoveTag(d) ==
  \E g \in TagsOf(d) :
    /\ Dispatch(d, [kind |-> "deleteTag", tag |-> g])
    /\ UNCHANGED born

Archive(d) ==
  \E t \in Mains(d) :
    /\ Dispatch(d, [kind |-> "moveToArchive", task |-> t,
                   records |-> Restrict(store[d].tasks, {t} \union The(d, t).subs)])
    /\ UNCHANGED born

Restore(d) ==
  \E t \in DOMAIN store[d].archive :
    LET archived == store[d].archive
    IN  /\ archived[t].parent = None
        /\ Dispatch(d, [kind |-> "restoreTask", task |-> t,
                       records |-> Restrict(archived, ({t} \union archived[t].subs) \intersect DOMAIN archived)])
        /\ UNCHANGED born

\* A synchronisation: what others uploaded is applied as one batch, in the
\* order of the server, and the device's own operations follow it there.
Sync(d) ==
  /\ Works(d)
  /\ seen[d] < Len(log) \/ pending[d] # <<>>
  /\ \E r \in {Batch(SubSeq(log, seen[d] + 1, Len(log)), store[d])} :
       IF r.threw
       THEN broken' = broken \union {d} /\ UNCHANGED <<store, log, pending, seen>>
       ELSE /\ store' = [store EXCEPT ![d] = r.store]
            /\ log' = log \o pending[d]
            /\ pending' = [pending EXCEPT ![d] = <<>>]
            /\ seen' = [seen EXCEPT ![d] = Len(log')]
            /\ UNCHANGED broken
  /\ UNCHANGED born

Next ==
  \E d \in Devices :
    \/ CreateTask(d) \/ CreateSubTask(d) \/ RemoveTask(d)
    \/ ConvertToMainTask(d) \/ ConvertToSubTask(d) \/ DragSubTask(d)
    \/ ToggleTags(d) \/ RemoveTag(d)
    \/ MoveToOtherProject(d) \/ RemoveProject(d)
    \/ Archive(d) \/ Restore(d)
    \/ Sync(d)

Spec == Init /\ [][Next]_vars

-----------------------------------------------------------------------------
(* Properties *)

IsById(f, ids, values) == DOMAIN f \subseteq ids /\ f \in [DOMAIN f -> values]

IsStore(s) ==
  /\ s = [tasks |-> s.tasks, archive |-> s.archive, lists |-> s.lists, tagged |-> s.tagged]
  /\ IsById(s.tasks, Tasks, Task) /\ IsById(s.archive, Tasks, Task)
  /\ IsById(s.lists, Projects, SUBSET Tasks) /\ IsById(s.tagged, Tags, SUBSET Tasks)

PlainOperation == UNION {
  [kind : {"addTask"}, task : Tasks, project : Projects, tags : SUBSET Tags],
  [kind : {"addSubTask", "convertToSub"}, task : Tasks, parent : Tasks],
  [kind : {"convertToMain"}, task : Tasks, parent : Tasks, project : Projects, parentTags : SUBSET Tags],
  [kind : {"moveSubTask"}, task : Tasks, source : Tasks, target : Tasks],
  [kind : {"setTags"}, task : Tasks, tags : SUBSET Tags],
  [kind : {"moveToProject"}, task : Tasks, project : Projects, subs : SUBSET Tasks, target : Projects],
  [kind : {"deleteTask"}, task : Tasks, project : Projects, parent : Tasks \union {None}, subs : SUBSET Tasks],
  [kind : {"deleteProject"}, project : Projects, tasks : SUBSET Tasks],
  [kind : {"deleteTag"}, tag : Tags]}

IsOperation(op) ==
  \/ op \in PlainOperation
  \/ /\ op = [kind |-> op.kind, task |-> op.task, records |-> op.records]
     /\ op.kind \in {"moveToArchive", "restoreTask"}
     /\ op.task \in DOMAIN op.records
     /\ IsById(op.records, Tasks, Task)

\* Operations, each with its author and how much of the log the author had seen.
AreEntries(entries) ==
  /\ entries \in Seq(ToSet(entries))
  /\ \A e \in ToSet(entries) :
       e = [op |-> e.op, by |-> e.by, base |-> e.base] /\ IsOperation(e.op) /\ e.by \in Devices /\ e.base \in Nat

\* The stores hold tasks, projects and tags, also after any operation of another
\* device, and a task always has one of the projects; operations carry what their
\* kind calls for.
TypeOK ==
  /\ \A d \in Devices : IsStore(store[d]) /\ AreEntries(pending[d]) /\ seen[d] \in 0..Len(log)
  /\ AreEntries(log)
  /\ born \subseteq Tasks
  /\ broken \subseteq Devices

\* All operations that d has applied, in the order of the log where that is fixed.
History(d) == SubSeq(log, 1, seen[d]) \o pending[d]

Concurrent(h, i, j) == i < j /\ h[i].by # h[j].by /\ h[j].base < i

\* As long as no two of the operations a device has applied are concurrent, each
\* relation reads the same from both of its ends: what the reducers of one
\* operation change at one end they change at the other, whatever the operations
\* before it were, and a replay on another device does the same.
OwnEditsKeepConsistent ==
  \A d \in Devices :
    LET h == History(d)
    IN  (\A i, j \in DOMAIN h : ~Concurrent(h, i, j)) => Consistent(store[d])

Restored(d) == \E i \in DOMAIN History(d) : History(d)[i].op.kind = "restoreTask"

\* Whatever concurrent conversions, moves, deletions and archivings do to families of
\* tasks, no task becomes its own ancestor, and a parent lists every task that
\* names it.  (It may list others too: a device that refused to make a task a subtask
\* takes part in moving it on.  Restored tasks come back with the parent and the
\* subtasks they were archived with.)
FamiliesAgree ==
  \A d \in Devices : ~Restored(d) =>
    \A t \in Here(d) : /\ t \notin Above(The(d, t).parent, store[d].tasks)
                       /\ SubsOf(store[d].tasks, t) \subseteq The(d, t).subs

\* Main tasks that a task still lists as its subtasks.
Disputed(s) ==
  LET all == WithMany(s.tasks, s.archive)
  IN  {t \in DOMAIN all : all[t].parent = None /\ \E x \in DOMAIN all : t \in all[x].subs}

\* A subtask of a subtask, a subtask in the list of a project, or a disputed task that
\* is shown: dataRepair collects orphans and fixes lists once, and minds none of these.
Tangled(s) ==
  LET all == WithMany(s.tasks, s.archive)
      subtasks == {t \in DOMAIN all : all[t].parent # None}
      listed == UNION {s.lists[p] : p \in DOMAIN s.lists}
  IN  \/ \E t \in subtasks : all[t].parent \in subtasks
      \/ listed \intersect subtasks # {}
      \/ Disputed(s) \intersect (DOMAIN s.tasks \union listed) # {}

\* Whatever concurrent operations make of a store, one run of dataRepair makes
\* it valid, unless its tasks are tangled: no step undoes what an earlier one
\* repaired.  (The caller validates the result once and gives up when it is
\* not valid.)
RepairedIsValid ==
  \A d \in Devices : NeedsRepair(store[d]) /\ ~Tangled(store[d]) => Valid(Repaired(store[d]))

\* No order in which devices archive, restore, move and delete tasks leaves one both
\* in the store and in the archive.
InOnePlace == \A d \in Devices : DOMAIN store[d].tasks \intersect DOMAIN store[d].archive = {}

Everywhere(s) == DOMAIN s.tasks \union DOMAIN s.archive

\* A repair moves tasks between the store and the archive and removes
\* duplicates, but no task is gone after it, and none comes back from nowhere.
RepairLosesNoTask ==
  \A d \in Devices : NeedsRepair(store[d]) => Everywhere(Repaired(store[d])) = Everywhere(store[d])

Shown(s, t) == s.tasks[t].parent = None => t \in s.lists[s.tasks[t].project]

\* A task whose project or parent is gone, or that another project or a task lists:
\* the steps that deal with these come after the lists were filled.
Misplaced(s, t) ==
  LET was == WithMany(s.archive, s.tasks)[t]
  IN  \/ was.project \notin DOMAIN s.lists
      \/ was.parent \notin DOMAIN s.tasks \union {None}
      \/ \E p \in DOMAIN s.lists \ {was.project} : t \in s.lists[p]
      \/ t \in Disputed(s)

\* After a repair every main task is in the list of its project, where the user
\* finds it, except one that was misplaced: what the repair drops from the lists
\* takes no other task with it.
RepairShowsRooted ==
  \A d \in Devices : NeedsRepair(store[d]) =>
    \A r \in {Repaired(store[d])} : \A t \in DOMAIN r.tasks : Shown(r, t) \/ Misplaced(store[d], t)

\* The entities an operation changes, and those it only refers to.
Changes(op) ==
  CASE op.kind = "deleteProject" -> op.tasks \union {op.project}
    [] op.kind = "deleteTag"     -> {op.tag}
    [] op.kind \in {"moveToArchive", "restoreTask"} -> DOMAIN op.records
    [] op.kind \in {"moveToProject", "deleteTask"}  -> {op.task} \union op.subs
    [] OTHER -> {op.task}

Uses(op) ==
  CASE op.kind = "addTask"       -> {op.project} \union op.tags
    [] op.kind = "setTags"       -> op.tags
    [] op.kind \in {"addSubTask", "convertToSub"} -> {op.parent}
    [] op.kind = "convertToMain" -> {op.parent, op.project} \union op.parentTags
    [] op.kind = "moveSubTask"   -> {op.source, op.target}
    [] op.kind = "moveToProject" -> {op.project, op.target}
    [] op.kind \in {"moveToArchive", "restoreTask"} ->
         UNION {{op.records[t].project} \union op.records[t].tags : t \in DOMAIN op.records}
    [] OTHER -> {}

\* A new subtask of a task that is deleted or archived goes with it, or is not
\* added.  (A tag it was given meanwhile keeps it in its list.)
Absorbs(o1, o2) ==
  /\ o1.kind \in {"deleteTask", "moveToArchive"} /\ o2.kind = "addSubTask" /\ o1.task = o2.parent
  /\ \A i \in DOMAIN log : o2.task \in Changes(log[i].op) => log[i].op = o2

Clash(o1, o2) ==
  \/ Changes(o1) \intersect (Changes(o2) \union Uses(o2)) # {} /\ ~Absorbs(o1, o2)
  \/ Changes(o2) \intersect Uses(o1) # {} /\ ~Absorbs(o2, o1)

\* Devices that have applied all operations have the same store, though they
\* applied concurrent ones in different orders, unless one of these changes what
\* another changes or refers to.  A subtask added under a task that is deleted or
\* archived meanwhile is no exception.
Converged ==
  \A d, e \in Devices :
    (/\ {d, e} \intersect broken = {}
     /\ \A x \in {d, e} : seen[x] = Len(log) /\ pending[x] = <<>>
     /\ \A i, j \in DOMAIN log : Concurrent(log, i, j) => ~Clash(log[i].op, log[j].op))
      => store[d] = store[e]

\* The replay of what others uploaded never throws, whatever is missing when an
\* operation arrives (operation-rules.md, 3.2).
ReplayNeverThrows == broken = {}
=============================================================================
