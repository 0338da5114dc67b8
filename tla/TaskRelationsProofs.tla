-------------------------- MODULE TaskRelationsProofs --------------------------
(***************************************************************************)
(* Theorems of TaskRelations, for any devices, tasks, projects and tags    *)
(* and any number of operations.                                           *)
(***************************************************************************)
EXTENDS TaskRelations, SubsequenceProofs, FiniteSetTheorems

-----------------------------------------------------------------------------
(* Maps from ids *)

ById(ids, values) == UNION {[some -> values] : some \in SUBSET ids}

Store == [tasks   : ById(Tasks, Task),
          archive : ById(Tasks, Task),
          lists   : ById(Projects, SUBSET Tasks),
          tagged  : ById(Tags, SUBSET Tasks)]

LEMMA ByIdIsById == \A f, ids, values : f \in ById(ids, values) <=> IsById(f, ids, values)
BY DEF ById, IsById

LEMMA StoreIsStore ==
  ASSUME NEW s
  PROVE  s \in Store <=> IsStore(s)
<1>1. IsStore(s) => s \in Store
  BY ByIdIsById DEF Store, IsStore
<1>2. ASSUME s \in Store
      PROVE  s = [tasks |-> s.tasks, archive |-> s.archive, lists |-> s.lists, tagged |-> s.tagged]
  BY <1>2 DEF Store
<1>3. ASSUME s \in Store
      PROVE  /\ IsById(s.tasks, Tasks, Task) /\ IsById(s.archive, Tasks, Task)
             /\ IsById(s.lists, Projects, SUBSET Tasks) /\ IsById(s.tagged, Tags, SUBSET Tasks)
  <2>1. /\ s.tasks \in ById(Tasks, Task) /\ s.archive \in ById(Tasks, Task)
        /\ s.lists \in ById(Projects, SUBSET Tasks) /\ s.tagged \in ById(Tags, SUBSET Tasks)
    BY <1>3 DEF Store
  <2> QED
    BY <2>1, ByIdIsById
<1> QED
  BY <1>1, <1>2, <1>3 DEF IsStore

\* What a map has for its ids.
LEMMA MapFacts ==
  ASSUME NEW ids, NEW values, NEW f \in ById(ids, values)
  PROVE  /\ DOMAIN f \subseteq ids
         /\ \A x \in DOMAIN f : f[x] \in values
BY DEF ById

LEMMA NewMap ==
  ASSUME NEW ids, NEW values, NEW some \in SUBSET ids, NEW f \in [some -> values]
  PROVE  f \in ById(ids, values)
BY DEF ById

LEMMA RestrictFacts ==
  ASSUME NEW ids, NEW values, NEW f \in ById(ids, values), NEW keys \in SUBSET (DOMAIN f)
  PROVE  /\ Restrict(f, keys) \in ById(ids, values)
         /\ DOMAIN Restrict(f, keys) = keys
         /\ \A x \in keys : Restrict(f, keys)[x] = f[x]
BY DEF ById, Restrict

LEMMA WithoutFacts ==
  ASSUME NEW ids, NEW values, NEW f \in ById(ids, values), NEW keys
  PROVE  /\ Without(f, keys) \in ById(ids, values)
         /\ DOMAIN Without(f, keys) = DOMAIN f \ keys
         /\ \A x \in DOMAIN f \ keys : Without(f, keys)[x] = f[x]
BY ByIdIsById DEF IsById, Without, Restrict

LEMMA WithManyFacts ==
  ASSUME NEW ids, NEW values, NEW f \in ById(ids, values), NEW g \in ById(ids, values)
  PROVE  /\ WithMany(f, g) \in ById(ids, values)
         /\ DOMAIN WithMany(f, g) = DOMAIN f \union DOMAIN g
         /\ \A x \in DOMAIN f \union DOMAIN g : WithMany(f, g)[x] = IF x \in DOMAIN f THEN f[x] ELSE g[x]
BY ByIdIsById DEF IsById, WithMany

LEMMA WithOneFacts ==
  ASSUME NEW ids, NEW values, NEW f \in ById(ids, values), NEW k \in ids, NEW v \in values
  PROVE  /\ WithOne(f, k, v) \in ById(ids, values)
         /\ DOMAIN WithOne(f, k, v) = DOMAIN f \union {k}
         /\ \A x \in DOMAIN f \union {k} : WithOne(f, k, v)[x] = IF x \in DOMAIN f THEN f[x] ELSE v
BY ByIdIsById DEF IsById, WithOne

LEMMA WithSubFacts ==
  ASSUME NEW f \in ById(Tasks, Task), NEW p, NEW t \in Tasks
  PROVE  /\ WithSub(f, p, t) \in ById(Tasks, Task)
         /\ DOMAIN WithSub(f, p, t) = DOMAIN f
         /\ \A x \in DOMAIN f :
              LET y == WithSub(f, p, t)[x]
              IN  /\ y.parent = f[x].parent /\ y.project = f[x].project /\ y.tags = f[x].tags
                  /\ y.subs = IF x = p THEN f[x].subs \union {t} ELSE f[x].subs
<1>0. \A x \in DOMAIN f : f[x] \in Task
  BY MapFacts
<1>1. \A x \in DOMAIN f : [f[x] EXCEPT !.subs = f[x].subs \union {t}] \in Task
  BY <1>0 DEF Task
<1>2. WithSub(f, p, t) \in [DOMAIN f -> Task] /\ DOMAIN f \in SUBSET Tasks
  BY <1>0, <1>1, MapFacts DEF WithSub
<1> QED
  BY <1>0, <1>2, NewMap DEF WithSub, Task

LEMMA WithoutSubFacts ==
  ASSUME NEW f \in ById(Tasks, Task), NEW p, NEW t
  PROVE  /\ WithoutSub(f, p, t) \in ById(Tasks, Task)
         /\ DOMAIN WithoutSub(f, p, t) = DOMAIN f
         /\ \A x \in DOMAIN f :
              LET y == WithoutSub(f, p, t)[x]
              IN  /\ y.parent = f[x].parent /\ y.project = f[x].project /\ y.tags = f[x].tags
                  /\ y.subs = IF x = p THEN f[x].subs \ {t} ELSE f[x].subs
<1>0. \A x \in DOMAIN f : f[x] \in Task
  BY MapFacts
<1>1. \A x \in DOMAIN f : [f[x] EXCEPT !.subs = f[x].subs \ {t}] \in Task
  BY <1>0 DEF Task
<1>2. WithoutSub(f, p, t) \in [DOMAIN f -> Task] /\ DOMAIN f \in SUBSET Tasks
  BY <1>0, <1>1, MapFacts DEF WithoutSub
<1> QED
  BY <1>0, <1>2, NewMap DEF WithoutSub, Task

LEMMA ListedFacts ==
  ASSUME NEW ids, NEW f \in ById(ids, SUBSET Tasks), NEW keys, NEW ts \in SUBSET Tasks
  PROVE  /\ Listed(f, keys, ts) \in ById(ids, SUBSET Tasks)
         /\ DOMAIN Listed(f, keys, ts) = DOMAIN f
         /\ \A x \in DOMAIN f : Listed(f, keys, ts)[x] = IF x \in keys THEN f[x] \union ts ELSE f[x]
BY ByIdIsById DEF IsById, Listed

LEMMA UnlistedFacts ==
  ASSUME NEW ids, NEW f \in ById(ids, SUBSET Tasks), NEW keys, NEW ts
  PROVE  /\ Unlisted(f, keys, ts) \in ById(ids, SUBSET Tasks)
         /\ DOMAIN Unlisted(f, keys, ts) = DOMAIN f
         /\ \A x \in DOMAIN f : Unlisted(f, keys, ts)[x] = IF x \in keys THEN f[x] \ ts ELSE f[x]
BY ByIdIsById DEF IsById, Unlisted

LEMMA StoreParts ==
  ASSUME NEW s \in Store
  PROVE  /\ s.tasks \in ById(Tasks, Task) /\ s.archive \in ById(Tasks, Task)
         /\ s.lists \in ById(Projects, SUBSET Tasks) /\ s.tagged \in ById(Tags, SUBSET Tasks)
BY DEF Store

LEMMA TaskFields ==
  ASSUME NEW r \in Task
  PROVE  r.parent \in Tasks \union {None} /\ r.project \in Projects /\ r.tags \in SUBSET Tags /\ r.subs \in SUBSET Tasks
BY DEF Task

-----------------------------------------------------------------------------
(* What the reducers make of the tasks *)

\* The tasks after a conversion, a move and a change of tags.
MadeMain(tasks, t, p) ==
  [x \in DOMAIN tasks |-> IF x = t
                         THEN [WithoutSub(tasks, p, t)[x] EXCEPT !.parent = None, !.tags = tasks[p].tags]
                         ELSE WithoutSub(tasks, p, t)[x]]

MadeSub(tasks, t, p) ==
  [x \in DOMAIN tasks |-> IF x = t
                         THEN [WithSub(tasks, p, t)[x] EXCEPT !.parent = p, !.project = tasks[p].project, !.tags = {}]
                         ELSE WithSub(tasks, p, t)[x]]

Handed(tasks, t, source, target) == WithSub(WithoutSub(tasks, source, t), target, t)

MovedUnder(tasks, t, source, target) ==
  [x \in DOMAIN tasks |-> IF x = t
                         THEN [Handed(tasks, t, source, target)[x] EXCEPT !.parent = target, !.project = tasks[target].project]
                         ELSE Handed(tasks, t, source, target)[x]]

Retagged(tasks, t, tags) ==
  [x \in DOMAIN tasks |-> IF x = t THEN [tasks[x] EXCEPT !.tags = tags] ELSE tasks[x]]

\* What each of them leaves of every task, and what it changes.
Frees(f, g, t, p) ==
  /\ g \in ById(Tasks, Task)
  /\ DOMAIN g = DOMAIN f
  /\ \A x \in DOMAIN f :
       /\ g[x].parent = IF x = t THEN None ELSE f[x].parent
       /\ g[x].project = f[x].project
       /\ g[x].tags = IF x = t THEN f[p].tags ELSE f[x].tags
       /\ g[x].subs = IF x = p THEN f[x].subs \ {t} ELSE f[x].subs

Binds(f, g, t, p) ==
  /\ g \in ById(Tasks, Task)
  /\ DOMAIN g = DOMAIN f
  /\ \A x \in DOMAIN f :
       /\ g[x].parent = IF x = t THEN p ELSE f[x].parent
       /\ g[x].project = IF x = t THEN f[p].project ELSE f[x].project
       /\ g[x].tags = IF x = t THEN {} ELSE f[x].tags
       /\ g[x].subs = IF x = p THEN f[x].subs \union {t} ELSE f[x].subs

Moves(f, g, t, source, target) ==
  /\ g \in ById(Tasks, Task)
  /\ DOMAIN g = DOMAIN f
  /\ \A x \in DOMAIN f :
       /\ g[x].parent = IF x = t THEN target ELSE f[x].parent
       /\ g[x].project = IF x = t THEN f[target].project ELSE f[x].project
       /\ g[x].tags = f[x].tags
       /\ x = target => g[x].subs = f[x].subs \union {t}
       /\ x # target => g[x].subs = IF x = source THEN f[x].subs \ {t} ELSE f[x].subs

Retags(f, g, t, tags) ==
  /\ g \in ById(Tasks, Task)
  /\ DOMAIN g = DOMAIN f
  /\ \A x \in DOMAIN f :
       /\ g[x].parent = f[x].parent /\ g[x].project = f[x].project /\ g[x].subs = f[x].subs
       /\ g[x].tags = IF x = t THEN tags ELSE f[x].tags

Places(f, g, ts, p) ==
  /\ g \in ById(Tasks, Task)
  /\ DOMAIN g = DOMAIN f
  /\ \A x \in DOMAIN f :
       /\ g[x].parent = f[x].parent /\ g[x].subs = f[x].subs /\ g[x].tags = f[x].tags
       /\ g[x].project = IF x \in ts THEN p ELSE f[x].project

Untags(f, g, tag) ==
  /\ g \in ById(Tasks, Task)
  /\ DOMAIN g = DOMAIN f
  /\ \A x \in DOMAIN f :
       /\ g[x].parent = f[x].parent /\ g[x].subs = f[x].subs /\ g[x].project = f[x].project
       /\ g[x].tags = f[x].tags \ {tag}

Drops(f, g, t, p, gone) ==
  /\ g \in ById(Tasks, Task)
  /\ DOMAIN g = DOMAIN f \ gone
  /\ \A x \in DOMAIN f \ gone :
       /\ g[x].parent = f[x].parent /\ g[x].project = f[x].project /\ g[x].tags = f[x].tags
       /\ g[x].subs = IF x = p THEN f[x].subs \ {t} ELSE f[x].subs

LEMMA MadeMainFacts ==
  ASSUME NEW f \in ById(Tasks, Task), NEW p \in DOMAIN f, NEW t
  PROVE  Frees(f, MadeMain(f, t, p), t, p)
<1> DEFINE w == WithoutSub(f, p, t)
<1>1. w \in ById(Tasks, Task) /\ DOMAIN w = DOMAIN f
  BY WithoutSubFacts
<1>2. \A x \in DOMAIN f : /\ w[x].parent = f[x].parent /\ w[x].project = f[x].project /\ w[x].tags = f[x].tags
                          /\ w[x].subs = IF x = p THEN f[x].subs \ {t} ELSE f[x].subs
  BY WithoutSubFacts
<1>3. MadeMain(f, t, p) = [x \in DOMAIN f |-> IF x = t THEN [w[x] EXCEPT !.parent = None, !.tags = f[p].tags] ELSE w[x]]
  BY DEF MadeMain
<1>4. f[p].tags \in SUBSET Tags /\ \A x \in DOMAIN f : w[x] \in Task
  <2> HIDE DEF w
  <2>1. f[p] \in Task
    BY MapFacts
  <2>2. \A x \in DOMAIN f : w[x] \in Task
    BY <1>1, MapFacts
  <2> QED
    BY <2>1, <2>2, TaskFields
<1> HIDE DEF w
<1>5. \A x \in DOMAIN f : [w[x] EXCEPT !.parent = None, !.tags = f[p].tags] \in Task
  BY <1>4 DEF Task
<1>6. MadeMain(f, t, p) \in [DOMAIN f -> Task]
  BY <1>3, <1>4, <1>5
<1>7. MadeMain(f, t, p) \in ById(Tasks, Task)
  <2>1. DOMAIN f \in SUBSET Tasks
    BY MapFacts
  <2> QED
    BY <1>6, <2>1, NewMap
<1>8. ASSUME NEW x \in DOMAIN f, x # t
      PROVE  MadeMain(f, t, p)[x] = w[x]
  BY <1>3, <1>8
<1>9. t \in DOMAIN f => LET y == MadeMain(f, t, p)[t]
                        IN  /\ y.parent = None /\ y.tags = f[p].tags
                            /\ y.project = w[t].project /\ y.subs = w[t].subs
  BY <1>3, <1>4 DEF Task
<1> QED
  BY <1>2, <1>3, <1>7, <1>8, <1>9 DEF Frees

LEMMA MadeSubFacts ==
  ASSUME NEW f \in ById(Tasks, Task), NEW p \in DOMAIN f, NEW t \in Tasks
  PROVE  Binds(f, MadeSub(f, t, p), t, p)
<1> DEFINE w == WithSub(f, p, t)
<1>1. w \in ById(Tasks, Task) /\ DOMAIN w = DOMAIN f
  BY WithSubFacts
<1>2. \A x \in DOMAIN f : /\ w[x].parent = f[x].parent /\ w[x].project = f[x].project /\ w[x].tags = f[x].tags
                          /\ w[x].subs = IF x = p THEN f[x].subs \union {t} ELSE f[x].subs
  BY WithSubFacts
<1>3. MadeSub(f, t, p) = [x \in DOMAIN f |->
          IF x = t THEN [w[x] EXCEPT !.parent = p, !.project = f[p].project, !.tags = {}] ELSE w[x]]
  BY DEF MadeSub
<1>4. p \in Tasks /\ f[p].project \in Projects /\ \A x \in DOMAIN f : w[x] \in Task
  <2> HIDE DEF w
  <2>1. f[p] \in Task /\ DOMAIN f \subseteq Tasks
    BY MapFacts
  <2>2. \A x \in DOMAIN f : w[x] \in Task
    BY <1>1, MapFacts
  <2> QED
    BY <2>1, <2>2, TaskFields
<1> HIDE DEF w
<1>5. \A x \in DOMAIN f : [w[x] EXCEPT !.parent = p, !.project = f[p].project, !.tags = {}] \in Task
  BY <1>4 DEF Task
<1>6. MadeSub(f, t, p) \in [DOMAIN f -> Task]
  BY <1>3, <1>4, <1>5
<1>7. MadeSub(f, t, p) \in ById(Tasks, Task)
  <2>1. DOMAIN f \in SUBSET Tasks
    BY MapFacts
  <2> QED
    BY <1>6, <2>1, NewMap
<1>8. ASSUME NEW x \in DOMAIN f, x # t
      PROVE  MadeSub(f, t, p)[x] = w[x]
  BY <1>3, <1>8
<1>9. t \in DOMAIN f => LET y == MadeSub(f, t, p)[t]
                        IN  /\ y.parent = p /\ y.project = f[p].project
                            /\ y.tags = {} /\ y.subs = w[t].subs
  BY <1>3, <1>4 DEF Task
<1> QED
  BY <1>2, <1>3, <1>7, <1>8, <1>9 DEF Binds

LEMMA MovedUnderFacts ==
  ASSUME NEW f \in ById(Tasks, Task), NEW source, NEW target \in DOMAIN f, NEW t \in Tasks
  PROVE  Moves(f, MovedUnder(f, t, source, target), t, source, target)
<1> DEFINE v == WithoutSub(f, source, t)
<1>1. v \in ById(Tasks, Task) /\ DOMAIN v = DOMAIN f
  BY WithoutSubFacts
<1>2. \A x \in DOMAIN f : /\ v[x].parent = f[x].parent /\ v[x].project = f[x].project /\ v[x].tags = f[x].tags
                          /\ v[x].subs = IF x = source THEN f[x].subs \ {t} ELSE f[x].subs
  <2>1. \A x \in DOMAIN f : f[x] \in Task
    BY MapFacts
  <2> QED
    BY <2>1 DEF WithoutSub, Task
<1> DEFINE w == WithSub(v, target, t)
<1>3. MovedUnder(f, t, source, target) = [x \in DOMAIN f |->
          IF x = t THEN [w[x] EXCEPT !.parent = target, !.project = f[target].project] ELSE w[x]]
  BY DEF MovedUnder, Handed
<1> HIDE DEF v
<1>4. w \in ById(Tasks, Task) /\ DOMAIN w = DOMAIN v
  BY <1>1, WithSubFacts
<1>5. \A x \in DOMAIN v : /\ w[x].parent = v[x].parent /\ w[x].project = v[x].project /\ w[x].tags = v[x].tags
                          /\ w[x].subs = IF x = target THEN v[x].subs \union {t} ELSE v[x].subs
  BY <1>1, WithSubFacts
<1> HIDE DEF w
<1>6. target \in Tasks /\ f[target].project \in Projects /\ \A x \in DOMAIN f : w[x] \in Task /\ f[x] \in Task
  <2>1. f[target] \in Task /\ DOMAIN f \subseteq Tasks /\ \A x \in DOMAIN f : f[x] \in Task
    BY MapFacts
  <2>2. \A x \in DOMAIN w : w[x] \in Task
    BY <1>4, MapFacts
  <2> QED
    BY <1>1, <1>4, <2>1, <2>2, TaskFields
<1>7. \A x \in DOMAIN f : [w[x] EXCEPT !.parent = target, !.project = f[target].project] \in Task
  BY <1>6 DEF Task
<1>8. MovedUnder(f, t, source, target) \in [DOMAIN f -> Task]
  BY <1>3, <1>6, <1>7
<1>9. MovedUnder(f, t, source, target) \in ById(Tasks, Task)
  <2>1. DOMAIN f \in SUBSET Tasks
    BY MapFacts
  <2> QED
    BY <1>8, <2>1, NewMap
<1>10. \A x \in DOMAIN f : x = target => w[x].subs = f[x].subs \union {t}
  BY <1>1, <1>2, <1>5
<1>11. \A x \in DOMAIN f : x # target => w[x].subs = IF x = source THEN f[x].subs \ {t} ELSE f[x].subs
  BY <1>1, <1>2, <1>5
<1>12. \A x \in DOMAIN f : w[x].parent = f[x].parent /\ w[x].project = f[x].project /\ w[x].tags = f[x].tags
  BY <1>1, <1>2, <1>5
<1>13. ASSUME NEW x \in DOMAIN f, x # t
       PROVE  MovedUnder(f, t, source, target)[x] = w[x]
  BY <1>3, <1>13
<1>14. t \in DOMAIN f => LET y == MovedUnder(f, t, source, target)[t]
                         IN  /\ y.parent = target /\ y.project = f[target].project
                             /\ y.tags = w[t].tags /\ y.subs = w[t].subs
  BY <1>3, <1>6 DEF Task
<1> QED
  BY <1>3, <1>9, <1>10, <1>11, <1>12, <1>13, <1>14 DEF Moves

LEMMA RetaggedFacts ==
  ASSUME NEW f \in ById(Tasks, Task), NEW t, NEW tags \in SUBSET Tags
  PROVE  Retags(f, Retagged(f, t, tags), t, tags)
<1>1. \A x \in DOMAIN f : f[x] \in Task
  BY MapFacts
<1>2. \A x \in DOMAIN f : [f[x] EXCEPT !.tags = tags] \in Task
  BY <1>1 DEF Task
<1>3. Retagged(f, t, tags) \in [DOMAIN f -> Task] /\ DOMAIN f \in SUBSET Tasks
  BY <1>1, <1>2, MapFacts DEF Retagged
<1> QED
  BY <1>1, <1>3, NewMap DEF Retagged, Task, Retags

LEMMA InProjectFacts ==
  ASSUME NEW f \in ById(Tasks, Task), NEW ts, NEW p \in Projects
  PROVE  Places(f, InProject(f, ts, p), ts, p)
<1>1. \A x \in DOMAIN f : f[x] \in Task
  BY MapFacts
<1>2. \A x \in DOMAIN f : [f[x] EXCEPT !.project = p] \in Task
  BY <1>1 DEF Task
<1>3. InProject(f, ts, p) \in [DOMAIN f -> Task] /\ DOMAIN f \in SUBSET Tasks
  BY <1>1, <1>2, MapFacts DEF InProject
<1> QED
  BY <1>1, <1>3, NewMap DEF InProject, Task, Places

LEMMA UntaggedFacts ==
  ASSUME NEW f \in ById(Tasks, Task), NEW g
  PROVE  Untags(f, Untagged(f, g), g)
<1>1. \A x \in DOMAIN f : f[x] \in Task
  BY MapFacts
<1>2. \A x \in DOMAIN f : [f[x] EXCEPT !.tags = f[x].tags \ {g}] \in Task
  BY <1>1 DEF Task
<1>3. Untagged(f, g) \in [DOMAIN f -> Task] /\ DOMAIN f \in SUBSET Tasks
  BY <1>1, <1>2, MapFacts DEF Untagged
<1> QED
  BY <1>1, <1>3, NewMap DEF Untagged, Task, Untags

LEMMA RemovedFacts ==
  ASSUME NEW f \in ById(Tasks, Task), NEW t, NEW p, NEW subs
  PROVE  Drops(f, Removed(f, t, p, subs), t, p, {t} \union subs \union SubsOf(f, t))
<1> DEFINE w == WithoutSub(f, p, t)
           gone == {t} \union subs \union SubsOf(f, t)
<1>1. w \in ById(Tasks, Task) /\ DOMAIN w = DOMAIN f
  BY WithoutSubFacts
<1>2. \A x \in DOMAIN f : /\ w[x].parent = f[x].parent /\ w[x].project = f[x].project /\ w[x].tags = f[x].tags
                          /\ w[x].subs = IF x = p THEN f[x].subs \ {t} ELSE f[x].subs
  BY WithoutSubFacts
<1>3. Removed(f, t, p, subs) = Without(w, gone)
  BY DEF Removed
<1> HIDE DEF w, gone
<1>4. /\ Without(w, gone) \in ById(Tasks, Task)
      /\ DOMAIN Without(w, gone) = DOMAIN w \ gone
      /\ \A x \in DOMAIN w \ gone : Without(w, gone)[x] = w[x]
  BY <1>1, ByIdIsById DEF IsById, Without, Restrict
<1>5. /\ Removed(f, t, p, subs) \in ById(Tasks, Task)
      /\ DOMAIN Removed(f, t, p, subs) = DOMAIN f \ gone
      /\ \A x \in DOMAIN f \ gone : Removed(f, t, p, subs)[x] = w[x]
  BY <1>1, <1>3, <1>4
<1> QED
  BY <1>2, <1>5 DEF gone, Drops
-----------------------------------------------------------------------------
(* The reducers: what they make of the parts of a store *)

LEMMA OperationFields ==
  ASSUME NEW op, IsOperation(op)
  PROVE  /\ op.kind = "addTask" => op.task \in Tasks /\ op.project \in Projects /\ op.tags \in SUBSET Tags
         /\ op.kind \in {"addSubTask", "convertToSub"} => op.task \in Tasks /\ op.parent \in Tasks
         /\ op.kind = "convertToMain" => /\ op.task \in Tasks /\ op.parent \in Tasks
                                        /\ op.project \in Projects /\ op.parentTags \in SUBSET Tags
         /\ op.kind = "moveSubTask" => op.task \in Tasks /\ op.source \in Tasks /\ op.target \in Tasks
         /\ op.kind = "setTags" => op.task \in Tasks /\ op.tags \in SUBSET Tags
         /\ op.kind = "moveToProject" => /\ op.task \in Tasks /\ op.project \in Projects
                                        /\ op.subs \in SUBSET Tasks /\ op.target \in Projects
         /\ op.kind = "deleteTask" => /\ op.task \in Tasks /\ op.project \in Projects
                                     /\ op.parent \in Tasks \union {None} /\ op.subs \in SUBSET Tasks
         /\ op.kind = "deleteProject" => op.project \in Projects /\ op.tasks \in SUBSET Tasks
         /\ op.kind = "deleteTag" => op.tag \in Tags
         /\ op.kind \in {"moveToArchive", "restoreTask"} =>
              op.task \in DOMAIN op.records /\ op.records \in ById(Tasks, Task)
         /\ op.kind \in {"addTask", "addSubTask", "convertToSub", "convertToMain", "moveSubTask", "setTags",
                         "moveToProject", "deleteTask", "deleteProject", "deleteTag", "moveToArchive", "restoreTask"}
<1>1. CASE op \in PlainOperation
  BY <1>1 DEF PlainOperation
<1>2. CASE op \notin PlainOperation
  BY <1>2, ByIdIsById DEF IsOperation
<1> QED
  BY <1>1, <1>2

LEMMA AddTaskShape ==
  ASSUME NEW s \in Store, NEW op, op.task \in Tasks, op.project \in Projects, op.tags \in SUBSET Tags
  PROVE  LET r == AddTask(op, s)
         IN  /\ r \in Store
             /\ r.tasks = WithOne(s.tasks, op.task, [parent |-> None, project |-> op.project, tags |-> op.tags, subs |-> {}])
             /\ r.archive = s.archive
             /\ r.lists = Listed(s.lists, {op.project}, {op.task})
             /\ r.tagged = Listed(s.tagged, op.tags, {op.task})
<1>1. [parent |-> None, project |-> op.project, tags |-> op.tags, subs |-> {}] \in Task
  BY DEF Task
<1> DEFINE X == WithOne(s.tasks, op.task, [parent |-> None, project |-> op.project, tags |-> op.tags, subs |-> {}])
           Y == Listed(s.lists, {op.project}, {op.task})
           Z == Listed(s.tagged, op.tags, {op.task})
<1>6. AddTask(op, s) = [s EXCEPT !.tasks = X, !.lists = Y, !.tagged = Z]
  BY DEF AddTask
<1>7. X \in ById(Tasks, Task)
  BY <1>1, StoreParts, WithOneFacts
<1>8. Y \in ById(Projects, SUBSET Tasks)
  BY StoreParts, ByIdIsById DEF Listed, IsById
<1>9. Z \in ById(Tags, SUBSET Tasks)
  BY StoreParts, ByIdIsById DEF Listed, IsById
<1> QED
  <2> HIDE DEF X, Y, Z
  <2>1. /\ AddTask(op, s) \in Store
        /\ AddTask(op, s).tasks = X
        /\ AddTask(op, s).archive = s.archive
        /\ AddTask(op, s).lists = Y
        /\ AddTask(op, s).tagged = Z
    BY <1>6, <1>7, <1>8, <1>9 DEF Store
  <2> QED
    BY <2>1 DEF X, Y, Z

LEMMA AddSubTaskShape ==
  ASSUME NEW s \in Store, NEW op, op.task \in Tasks, op.parent \in DOMAIN s.tasks
  PROVE  LET r == AddSubTask(op, s)
         IN  /\ r \in Store
             /\ r.tasks = WithOne(WithSub(s.tasks, op.parent, op.task), op.task,
                               [parent |-> op.parent, project |-> s.tasks[op.parent].project, tags |-> {}, subs |-> {}])
             /\ r.archive = s.archive
             /\ r.lists = s.lists
             /\ r.tagged = s.tagged
<1>1. [parent |-> op.parent, project |-> s.tasks[op.parent].project, tags |-> {}, subs |-> {}] \in Task
  <2>1. op.parent \in Tasks /\ s.tasks[op.parent] \in Task
    BY StoreParts, MapFacts
  <2> QED
    BY <2>1, TaskFields DEF Task
<1>2. WithSub(s.tasks, op.parent, op.task) \in ById(Tasks, Task)
  BY StoreParts, WithSubFacts
<1> DEFINE X == WithOne(WithSub(s.tasks, op.parent, op.task), op.task,
                               [parent |-> op.parent, project |-> s.tasks[op.parent].project, tags |-> {}, subs |-> {}])
<1>6. AddSubTask(op, s) = [s EXCEPT !.tasks = X]
  BY DEF AddSubTask
<1>7. X \in ById(Tasks, Task)
  <2> DEFINE new == [parent |-> op.parent, project |-> s.tasks[op.parent].project, tags |-> {}, subs |-> {}]
             with == WithSub(s.tasks, op.parent, op.task)
  <2>1. new \in Task /\ with \in ById(Tasks, Task)
    BY <1>1, <1>2
  <2> HIDE DEF new, with
  <2>2. WithOne(with, op.task, new) \in ById(Tasks, Task)
    BY <2>1, WithOneFacts
  <2> QED
    BY <2>2 DEF new, with
<1> QED
  <2> HIDE DEF X
  <2>1. /\ AddSubTask(op, s) \in Store
        /\ AddSubTask(op, s).tasks = X
        /\ AddSubTask(op, s).archive = s.archive
        /\ AddSubTask(op, s).lists = s.lists
        /\ AddSubTask(op, s).tagged = s.tagged
    BY <1>6, <1>7 DEF Store
  <2> QED
    BY <2>1 DEF X

LEMMA ConvertToMainShape ==
  ASSUME NEW s \in Store, NEW op, op.task \in Tasks, op.parent \in DOMAIN s.tasks
  PROVE  LET r == ConvertToMain(op, s)
         IN  /\ r \in Store
             /\ r.tasks = MadeMain(s.tasks, op.task, op.parent)
             /\ r.archive = s.archive
             /\ r.lists = Listed(s.lists, {op.project}, {op.task})
             /\ r.tagged = Listed(s.tagged, op.parentTags, {op.task})
<1> DEFINE X == MadeMain(s.tasks, op.task, op.parent)
           Y == Listed(s.lists, {op.project}, {op.task})
           Z == Listed(s.tagged, op.parentTags, {op.task})
<1>6. ConvertToMain(op, s) = [s EXCEPT !.tasks = X, !.lists = Y, !.tagged = Z]
  BY DEF ConvertToMain, MadeMain
<1>7. X \in ById(Tasks, Task)
  BY StoreParts, MadeMainFacts DEF Frees
<1>8. Y \in ById(Projects, SUBSET Tasks)
  BY StoreParts, ByIdIsById DEF Listed, IsById
<1>9. Z \in ById(Tags, SUBSET Tasks)
  BY StoreParts, ByIdIsById DEF Listed, IsById
<1> QED
  <2> HIDE DEF X, Y, Z
  <2>1. /\ ConvertToMain(op, s) \in Store
        /\ ConvertToMain(op, s).tasks = X
        /\ ConvertToMain(op, s).archive = s.archive
        /\ ConvertToMain(op, s).lists = Y
        /\ ConvertToMain(op, s).tagged = Z
    BY <1>6, <1>7, <1>8, <1>9 DEF Store
  <2> QED
    BY <2>1 DEF X, Y, Z

LEMMA ConvertToSubShape ==
  ASSUME NEW s \in Store, NEW op, op.task \in Tasks, CanApplyConvertToSubTask(op.task, op.parent, s.tasks)
  PROVE  LET r == ConvertToSub(op, s)
         IN  /\ r \in Store
             /\ r.tasks = MadeSub(s.tasks, op.task, op.parent)
             /\ r.archive = s.archive
             /\ r.lists = Unlisted(s.lists, {s.tasks[op.task].project}, {op.task})
             /\ r.tagged = Unlisted(s.tagged, Tags, {op.task})
<1>1. op.parent \in DOMAIN s.tasks
  BY DEF CanApplyConvertToSubTask
<1> DEFINE X == MadeSub(s.tasks, op.task, op.parent)
           Y == Unlisted(s.lists, {s.tasks[op.task].project}, {op.task})
           Z == Unlisted(s.tagged, Tags, {op.task})
<1>6. ConvertToSub(op, s) = [s EXCEPT !.tasks = X, !.lists = Y, !.tagged = Z]
  BY DEF ConvertToSub, MadeSub
<1>7. X \in ById(Tasks, Task)
  BY <1>1, StoreParts, MadeSubFacts DEF Binds
<1>8. Y \in ById(Projects, SUBSET Tasks)
  BY StoreParts, ByIdIsById DEF Unlisted, IsById
<1>9. Z \in ById(Tags, SUBSET Tasks)
  BY StoreParts, ByIdIsById DEF Unlisted, IsById
<1> QED
  <2> HIDE DEF X, Y, Z
  <2>1. /\ ConvertToSub(op, s) \in Store
        /\ ConvertToSub(op, s).tasks = X
        /\ ConvertToSub(op, s).archive = s.archive
        /\ ConvertToSub(op, s).lists = Y
        /\ ConvertToSub(op, s).tagged = Z
    BY <1>6, <1>7, <1>8, <1>9 DEF Store
  <2> QED
    BY <2>1 DEF X, Y, Z

LEMMA MoveSubTaskShape ==
  ASSUME NEW s \in Store, NEW op, op.task \in Tasks, {op.source, op.target} \subseteq DOMAIN s.tasks,
         op.task \notin Above(op.target, s.tasks) \union {op.source}
  PROVE  LET r == MoveSubTask(op, s)
         IN  /\ r \in Store
             /\ r.tasks = MovedUnder(s.tasks, op.task, op.source, op.target)
             /\ r.archive = s.archive
             /\ r.lists = s.lists
             /\ r.tagged = s.tagged
<1>1. op.target \in DOMAIN s.tasks
  OBVIOUS
<1> DEFINE X == MovedUnder(s.tasks, op.task, op.source, op.target)
<1>6. MoveSubTask(op, s) = [s EXCEPT !.tasks = X]
  BY DEF MoveSubTask, MovedUnder, Handed
<1>7. X \in ById(Tasks, Task)
  BY <1>1, StoreParts, MovedUnderFacts DEF Moves
<1> QED
  <2> HIDE DEF X
  <2>1. /\ MoveSubTask(op, s) \in Store
        /\ MoveSubTask(op, s).tasks = X
        /\ MoveSubTask(op, s).archive = s.archive
        /\ MoveSubTask(op, s).lists = s.lists
        /\ MoveSubTask(op, s).tagged = s.tagged
    BY <1>6, <1>7 DEF Store
  <2> QED
    BY <2>1 DEF X

LEMMA SetTagsShape ==
  ASSUME NEW s \in Store, NEW op, op.task \in DOMAIN s.tasks, op.tags \in SUBSET Tags
  PROVE  LET r == SetTags(op, s)
         IN  /\ r \in Store
             /\ r.tasks = Retagged(s.tasks, op.task, op.tags)
             /\ r.archive = s.archive
             /\ r.lists = s.lists
             /\ r.tagged = Listed(Unlisted(s.tagged, s.tasks[op.task].tags \ op.tags, {op.task}),
                               op.tags \ s.tasks[op.task].tags, {op.task})
<1>1. Unlisted(s.tagged, s.tasks[op.task].tags \ op.tags, {op.task}) \in ById(Tags, SUBSET Tasks)
  BY StoreParts, ByIdIsById DEF Unlisted, IsById
<1>2. op.task \in Tasks
  BY StoreParts, MapFacts
<1> DEFINE X == Retagged(s.tasks, op.task, op.tags)
           Z == Listed(Unlisted(s.tagged, s.tasks[op.task].tags \ op.tags, {op.task}),
                               op.tags \ s.tasks[op.task].tags, {op.task})
<1>6. SetTags(op, s) = [s EXCEPT !.tasks = X, !.tagged = Z]
  BY DEF SetTags, Retagged
<1>7. X \in ById(Tasks, Task)
  BY StoreParts, RetaggedFacts DEF Retags
<1>8. Z \in ById(Tags, SUBSET Tasks)
  <2> DEFINE U == Unlisted(s.tagged, s.tasks[op.task].tags \ op.tags, {op.task})
             G == op.tags \ s.tasks[op.task].tags
  <2>1. U \in ById(Tags, SUBSET Tasks)
    BY <1>1
  <2> HIDE DEF U, G
  <2>2. Listed(U, G, {op.task}) \in ById(Tags, SUBSET Tasks)
    BY <1>2, <2>1, ByIdIsById DEF Listed, IsById
  <2> QED
    BY <2>2 DEF U, G
<1> QED
  <2> HIDE DEF X, Z
  <2>1. /\ SetTags(op, s) \in Store
        /\ SetTags(op, s).tasks = X
        /\ SetTags(op, s).archive = s.archive
        /\ SetTags(op, s).lists = s.lists
        /\ SetTags(op, s).tagged = Z
    BY <1>6, <1>7, <1>8 DEF Store
  <2> QED
    BY <2>1 DEF X, Z

\* The tasks that a move to another project takes along, and where it takes them from.
Along(op, s) == {op.task} \union op.subs \union (IF op.task \in DOMAIN s.tasks THEN s.tasks[op.task].subs ELSE {})
Origin(op, s) == IF op.task \in DOMAIN s.tasks THEN s.tasks[op.task].project ELSE op.project

LEMMA MoveToProjectShape ==
  ASSUME NEW s \in Store, NEW op, op.task \in Tasks, op.target \in Projects
  PROVE  LET r == MoveToProject(op, s)
         IN  /\ r \in Store
             /\ r.tasks = InProject(s.tasks, Along(op, s), op.target)
             /\ r.archive = s.archive
             /\ r.lists = Listed(Unlisted(s.lists, {Origin(op, s)}, Along(op, s)), {op.target}, {op.task})
             /\ r.tagged = s.tagged
<1>1. Unlisted(s.lists, {Origin(op, s)}, Along(op, s)) \in ById(Projects, SUBSET Tasks)
  BY StoreParts, ByIdIsById DEF Unlisted, IsById
<1> DEFINE X == InProject(s.tasks, Along(op, s), op.target)
           Y == Listed(Unlisted(s.lists, {Origin(op, s)}, Along(op, s)), {op.target}, {op.task})
<1>6. MoveToProject(op, s) = [s EXCEPT !.tasks = X, !.lists = Y]
  BY DEF MoveToProject, Along, Origin
<1>7. X \in ById(Tasks, Task)
  BY StoreParts, InProjectFacts DEF Places
<1>8. Y \in ById(Projects, SUBSET Tasks)
  <2> DEFINE U == Unlisted(s.lists, {Origin(op, s)}, Along(op, s))
  <2>1. U \in ById(Projects, SUBSET Tasks)
    BY <1>1
  <2> HIDE DEF U
  <2>2. Listed(U, {op.target}, {op.task}) \in ById(Projects, SUBSET Tasks)
    BY <2>1, ByIdIsById DEF Listed, IsById
  <2> QED
    BY <2>2 DEF U
<1> QED
  <2> HIDE DEF X, Y
  <2>1. /\ MoveToProject(op, s) \in Store
        /\ MoveToProject(op, s).tasks = X
        /\ MoveToProject(op, s).archive = s.archive
        /\ MoveToProject(op, s).lists = Y
        /\ MoveToProject(op, s).tagged = s.tagged
    BY <1>6, <1>7, <1>8 DEF Store
  <2> QED
    BY <2>1 DEF X, Y

LEMMA DeleteTaskShape ==
  ASSUME NEW s \in Store, NEW op, op.task \in Tasks
  PROVE  LET r == DeleteTask(op, s)
         IN  /\ r \in Store
             /\ r.tasks = Removed(s.tasks, op.task, op.parent, op.subs)
             /\ r.archive = s.archive
             /\ r.lists = Unlisted(s.lists, {op.project}, {op.task})
             /\ r.tagged = Unlisted(s.tagged, Tags, {op.task} \union op.subs)
<1> DEFINE X == Removed(s.tasks, op.task, op.parent, op.subs)
           Y == Unlisted(s.lists, {op.project}, {op.task})
           Z == Unlisted(s.tagged, Tags, {op.task} \union op.subs)
<1>6. DeleteTask(op, s) = [s EXCEPT !.tasks = X, !.lists = Y, !.tagged = Z]
  BY DEF DeleteTask
<1>7. X \in ById(Tasks, Task)
  BY StoreParts, RemovedFacts DEF Drops
<1>8. Y \in ById(Projects, SUBSET Tasks)
  BY StoreParts, ByIdIsById DEF Unlisted, IsById
<1>9. Z \in ById(Tags, SUBSET Tasks)
  BY StoreParts, ByIdIsById DEF Unlisted, IsById
<1> QED
  <2> HIDE DEF X, Y, Z
  <2>1. /\ DeleteTask(op, s) \in Store
        /\ DeleteTask(op, s).tasks = X
        /\ DeleteTask(op, s).archive = s.archive
        /\ DeleteTask(op, s).lists = Y
        /\ DeleteTask(op, s).tagged = Z
    BY <1>6, <1>7, <1>8, <1>9 DEF Store
  <2> QED
    BY <2>1 DEF X, Y, Z

\* The archived tasks of a project.
ArchivedIn(s, p) == {x \in DOMAIN s.archive : s.archive[x].project = p}

LEMMA DeleteProjectShape ==
  ASSUME NEW s \in Store, NEW op, op.project \in Projects
  PROVE  LET r == DeleteProject(op, s)
         IN  /\ r \in Store
             /\ r.tasks = Without(s.tasks, op.tasks)
             /\ r.archive = Without(s.archive, ArchivedIn(s, op.project))
             /\ r.lists = Without(s.lists, {op.project})
             /\ r.tagged = Unlisted(s.tagged, Tags, op.tasks)
<1> DEFINE X == Without(s.tasks, op.tasks)
           A == Without(s.archive, ArchivedIn(s, op.project))
           Y == Without(s.lists, {op.project})
           Z == Unlisted(s.tagged, Tags, op.tasks)
<1>6. DeleteProject(op, s) = [s EXCEPT !.tasks = X, !.lists = Y, !.tagged = Z, !.archive = A]
  BY DEF DeleteProject, ArchivedIn
<1>7. X \in ById(Tasks, Task)
  BY StoreParts, ByIdIsById DEF Without, Restrict, IsById
<1>8. A \in ById(Tasks, Task)
  BY StoreParts, ByIdIsById DEF Without, Restrict, IsById
<1>9. Y \in ById(Projects, SUBSET Tasks)
  BY StoreParts, ByIdIsById DEF Without, Restrict, IsById
<1>10. Z \in ById(Tags, SUBSET Tasks)
  BY StoreParts, ByIdIsById DEF Unlisted, IsById
<1> QED
  <2> HIDE DEF X, A, Y, Z
  <2>1. /\ DeleteProject(op, s) \in Store
        /\ DeleteProject(op, s).tasks = X
        /\ DeleteProject(op, s).archive = A
        /\ DeleteProject(op, s).lists = Y
        /\ DeleteProject(op, s).tagged = Z
    BY <1>6, <1>7, <1>8, <1>9, <1>10 DEF Store
  <2> QED
    BY <2>1 DEF X, A, Y, Z

LEMMA DeleteTagShape ==
  ASSUME NEW s \in Store, NEW op, op.tag \in Tags
  PROVE  LET r == DeleteTag(op, s)
         IN  /\ r \in Store
             /\ r.tasks = Untagged(s.tasks, op.tag)
             /\ r.archive = Untagged(s.archive, op.tag)
             /\ r.lists = s.lists
             /\ r.tagged = Without(s.tagged, {op.tag})
<1> DEFINE X == Untagged(s.tasks, op.tag)
           A == Untagged(s.archive, op.tag)
           Z == Without(s.tagged, {op.tag})
<1>6. DeleteTag(op, s) = [s EXCEPT !.tasks = X, !.tagged = Z, !.archive = A]
  BY DEF DeleteTag
<1>7. X \in ById(Tasks, Task)
  BY StoreParts, UntaggedFacts DEF Untags
<1>8. A \in ById(Tasks, Task)
  BY StoreParts, UntaggedFacts DEF Untags
<1>9. Z \in ById(Tags, SUBSET Tasks)
  BY StoreParts, ByIdIsById DEF Without, Restrict, IsById
<1> QED
  <2> HIDE DEF X, A, Z
  <2>1. /\ DeleteTag(op, s) \in Store
        /\ DeleteTag(op, s).tasks = X
        /\ DeleteTag(op, s).archive = A
        /\ DeleteTag(op, s).lists = s.lists
        /\ DeleteTag(op, s).tagged = Z
    BY <1>6, <1>7, <1>8, <1>9 DEF Store
  <2> QED
    BY <2>1 DEF X, A, Z

LEMMA MoveToArchiveShape ==
  ASSUME NEW s \in Store, NEW op, op.records \in ById(Tasks, Task)
  PROVE  LET r == MoveToArchive(op, s)
         IN  /\ r \in Store
             /\ r.tasks = Removed(s.tasks, op.task, None, DOMAIN op.records)
             /\ r.archive = WithMany(s.archive, op.records)
             /\ r.lists = Unlisted(s.lists, {s.tasks[x].project : x \in DOMAIN op.records \intersect DOMAIN s.tasks},
                                DOMAIN op.records)
             /\ r.tagged = Unlisted(s.tagged, Tags, DOMAIN op.records)
<1> DEFINE X == Removed(s.tasks, op.task, None, DOMAIN op.records)
           A == WithMany(s.archive, op.records)
           Y == Unlisted(s.lists, {s.tasks[x].project : x \in DOMAIN op.records \intersect DOMAIN s.tasks},
                                DOMAIN op.records)
           Z == Unlisted(s.tagged, Tags, DOMAIN op.records)
<1>6. MoveToArchive(op, s) = [s EXCEPT !.tasks = X, !.lists = Y, !.tagged = Z, !.archive = A]
  BY DEF MoveToArchive
<1>7. X \in ById(Tasks, Task)
  BY StoreParts, RemovedFacts DEF Drops
<1>8. A \in ById(Tasks, Task)
  BY StoreParts, WithManyFacts
<1>9. Y \in ById(Projects, SUBSET Tasks)
  BY StoreParts, ByIdIsById DEF Unlisted, IsById
<1>10. Z \in ById(Tags, SUBSET Tasks)
  BY StoreParts, ByIdIsById DEF Unlisted, IsById
<1> QED
  <2> HIDE DEF X, A, Y, Z
  <2>1. /\ MoveToArchive(op, s) \in Store
        /\ MoveToArchive(op, s).tasks = X
        /\ MoveToArchive(op, s).archive = A
        /\ MoveToArchive(op, s).lists = Y
        /\ MoveToArchive(op, s).tagged = Z
    BY <1>6, <1>7, <1>8, <1>9, <1>10 DEF Store
  <2> QED
    BY <2>1 DEF X, A, Y, Z

\* The tasks that a restoration brings back.
Back(op, s) == [x \in DOMAIN op.records |-> Normalized(op.records[x], s)]

LEMMA NormalizedFacts ==
  ASSUME NEW s \in Store, NEW task \in Task
  PROVE  LET y == Normalized(task, s)
         IN  /\ y \in Task /\ y.parent = task.parent /\ y.subs = task.subs
             /\ y.project = (IF task.project \in DOMAIN s.lists THEN task.project ELSE INBOX)
             /\ y.tags = task.tags \intersect DOMAIN s.tagged
<1>1. INBOX \in Projects
  BY InboxAssumption
<1> QED
  BY <1>1 DEF Normalized, Task

LEMMA BackFacts ==
  ASSUME NEW s \in Store, NEW op, op.records \in ById(Tasks, Task)
  PROVE  /\ Back(op, s) \in ById(Tasks, Task)
         /\ DOMAIN Back(op, s) = DOMAIN op.records
         /\ \A x \in DOMAIN op.records :
              LET y == Back(op, s)[x]
                  z == op.records[x]
              IN  /\ y.parent = z.parent /\ y.subs = z.subs
                  /\ y.project = (IF z.project \in DOMAIN s.lists THEN z.project ELSE INBOX)
                  /\ y.tags = z.tags \intersect DOMAIN s.tagged
<1>1. DOMAIN op.records \in SUBSET Tasks /\ \A x \in DOMAIN op.records : op.records[x] \in Task
  BY MapFacts
<1>2. \A x \in DOMAIN op.records : Back(op, s)[x] = Normalized(op.records[x], s)
  BY DEF Back
<1>3. \A x \in DOMAIN op.records : Normalized(op.records[x], s) \in Task
  BY <1>1, NormalizedFacts
<1>4. Back(op, s) \in [DOMAIN op.records -> Task]
  BY <1>3 DEF Back
<1>5. Back(op, s) \in ById(Tasks, Task)
  BY <1>1, <1>4, NewMap
<1>6. DOMAIN Back(op, s) = DOMAIN op.records
  BY <1>4
<1>7. ASSUME NEW x \in DOMAIN op.records
      PROVE  LET y == Back(op, s)[x]
                 z == op.records[x]
             IN  /\ y.parent = z.parent /\ y.subs = z.subs
                 /\ y.project = (IF z.project \in DOMAIN s.lists THEN z.project ELSE INBOX)
                 /\ y.tags = z.tags \intersect DOMAIN s.tagged
  <2>1. op.records[x] \in Task
    BY <1>1
  <2>2. LET y == Normalized(op.records[x], s)
            z == op.records[x]
        IN  /\ y.parent = z.parent /\ y.subs = z.subs
            /\ y.project = (IF z.project \in DOMAIN s.lists THEN z.project ELSE INBOX)
            /\ y.tags = z.tags \intersect DOMAIN s.tagged
    BY <2>1, NormalizedFacts
  <2> QED
    BY <1>2, <2>2
<1> QED
  BY <1>5, <1>6, <1>7

\* The lists of the tags when the tasks of back return.
TaggedWith(tagged, back) == [g \in DOMAIN tagged |-> tagged[g] \union {x \in DOMAIN back : g \in back[x].tags}]

LEMMA RestoreTaskShape ==
  ASSUME NEW s \in Store, NEW op, op.records \in ById(Tasks, Task), op.task \in Tasks
  PROVE  LET r == RestoreTask(op, s)
         IN  /\ r \in Store
             /\ r.tasks = WithMany(s.tasks, Back(op, s))
             /\ r.archive = Without(s.archive, DOMAIN Back(op, s))
             /\ r.lists = Listed(s.lists, {Back(op, s)[op.task].project}, {op.task})
             /\ r.tagged = TaggedWith(s.tagged, Back(op, s))
<1>1. Back(op, s) \in ById(Tasks, Task)
  BY BackFacts
<1>2. DOMAIN Back(op, s) \in SUBSET Tasks
  BY <1>1, MapFacts
<1> DEFINE X == WithMany(s.tasks, Back(op, s))
           A == Without(s.archive, DOMAIN Back(op, s))
           Y == Listed(s.lists, {Back(op, s)[op.task].project}, {op.task})
           Z == TaggedWith(s.tagged, Back(op, s))
<1>6. RestoreTask(op, s) = [s EXCEPT !.tasks = X, !.lists = Y, !.tagged = Z, !.archive = A]
  BY DEF RestoreTask, Back, TaggedWith
<1>7. X \in ById(Tasks, Task)
  BY <1>1, StoreParts, WithManyFacts
<1>8. A \in ById(Tasks, Task)
  BY StoreParts, ByIdIsById DEF Without, Restrict, IsById
<1>9. Y \in ById(Projects, SUBSET Tasks)
  BY StoreParts, ByIdIsById DEF Listed, IsById
<1>10. Z \in ById(Tags, SUBSET Tasks)
  BY <1>2, StoreParts, ByIdIsById DEF IsById, TaggedWith
<1> QED
  <2> HIDE DEF X, A, Y, Z
  <2>1. /\ RestoreTask(op, s) \in Store
        /\ RestoreTask(op, s).tasks = X
        /\ RestoreTask(op, s).archive = A
        /\ RestoreTask(op, s).lists = Y
        /\ RestoreTask(op, s).tagged = Z
    BY <1>6, <1>7, <1>8, <1>9, <1>10 DEF Store
  <2> QED
    BY <2>1 DEF X, A, Y, Z

-----------------------------------------------------------------------------
(* Any operation on any store *)

\* The tasks that an operation can bring into a store.
Brings(op) == IF op.kind \in {"addTask", "addSubTask"} THEN {op.task}
              ELSE IF op.kind \in {"moveToArchive", "restoreTask"} THEN DOMAIN op.records
              ELSE {}

\* The task that it makes.
Adds(op) == IF op.kind \in {"addTask", "addSubTask"} THEN {op.task} ELSE {}

\* No reducer makes of a store anything but a store, and none brings in tasks
\* that its operation does not carry.
Stays(op, s, r) == r \in Store /\ Everywhere(r) \subseteq Everywhere(s) \union Brings(op)

LEMMA SameStays ==
  ASSUME NEW op, NEW s \in Store
  PROVE  Stays(op, s, s)
BY DEF Stays

LEMMA AddTaskStays ==
  ASSUME NEW s \in Store, NEW op, IsOperation(op), op.kind = "addTask"
  PROVE  Stays(op, s, AddTask(op, s))
<1> DEFINE r == AddTask(op, s)
           new == [parent |-> None, project |-> op.project, tags |-> op.tags, subs |-> {}]
<1>1. op.task \in Tasks /\ op.project \in Projects /\ op.tags \in SUBSET Tags
  BY OperationFields
<1>2. r \in Store /\ r.tasks = WithOne(s.tasks, op.task, new) /\ r.archive = s.archive
  BY <1>1, AddTaskShape
<1>3. DOMAIN r.tasks = DOMAIN s.tasks \union {op.task}
  BY <1>2 DEF WithOne
<1>4. Brings(op) = {op.task}
  BY DEF Brings
<1> QED
  BY <1>2, <1>3, <1>4 DEF Stays, Everywhere

LEMMA AddSubTaskStays ==
  ASSUME NEW s \in Store, NEW op, IsOperation(op), op.kind = "addSubTask"
  PROVE  Stays(op, s, AddSubTask(op, s))
<1> DEFINE r == AddSubTask(op, s)
           new == [parent |-> op.parent, project |-> s.tasks[op.parent].project, tags |-> {}, subs |-> {}]
<1>1. op.task \in Tasks
  BY OperationFields
<1>2. CASE op.parent \in DOMAIN s.tasks
  <2>1. /\ r \in Store /\ r.archive = s.archive
        /\ r.tasks = WithOne(WithSub(s.tasks, op.parent, op.task), op.task, new)
    BY <1>1, <1>2, AddSubTaskShape
  <2>2. DOMAIN r.tasks = DOMAIN s.tasks \union {op.task}
    BY <2>1 DEF WithOne, WithSub
  <2>3. Brings(op) = {op.task}
    BY DEF Brings
  <2> QED
    BY <2>1, <2>2, <2>3 DEF Stays, Everywhere
<1>3. CASE op.parent \notin DOMAIN s.tasks
  BY <1>3, SameStays DEF AddSubTask
<1> QED
  BY <1>2, <1>3

LEMMA ConvertToMainStays ==
  ASSUME NEW s \in Store, NEW op, IsOperation(op), op.kind = "convertToMain", ~Throws(op, s)
  PROVE  Stays(op, s, ConvertToMain(op, s))
<1> DEFINE r == ConvertToMain(op, s)
<1>1. op.task \in Tasks /\ op.parent \in DOMAIN s.tasks
  BY OperationFields DEF Throws
<1>2. r \in Store /\ r.tasks = MadeMain(s.tasks, op.task, op.parent) /\ r.archive = s.archive
  BY <1>1, ConvertToMainShape
<1>3. DOMAIN r.tasks = DOMAIN s.tasks
  BY <1>2 DEF MadeMain
<1> QED
  BY <1>2, <1>3 DEF Stays, Everywhere

LEMMA ConvertToSubStays ==
  ASSUME NEW s \in Store, NEW op, IsOperation(op), op.kind = "convertToSub"
  PROVE  Stays(op, s, ConvertToSub(op, s))
<1> DEFINE r == ConvertToSub(op, s)
<1>1. op.task \in Tasks
  BY OperationFields
<1>2. CASE CanApplyConvertToSubTask(op.task, op.parent, s.tasks)
  <2>1. r \in Store /\ r.tasks = MadeSub(s.tasks, op.task, op.parent) /\ r.archive = s.archive
    BY <1>1, <1>2, ConvertToSubShape
  <2>2. DOMAIN r.tasks = DOMAIN s.tasks
    BY <2>1 DEF MadeSub
  <2> QED
    BY <2>1, <2>2 DEF Stays, Everywhere
<1>3. CASE ~CanApplyConvertToSubTask(op.task, op.parent, s.tasks)
  BY <1>3, SameStays DEF ConvertToSub
<1> QED
  BY <1>2, <1>3

LEMMA MoveSubTaskStays ==
  ASSUME NEW s \in Store, NEW op, IsOperation(op), op.kind = "moveSubTask"
  PROVE  Stays(op, s, MoveSubTask(op, s))
<1> DEFINE r == MoveSubTask(op, s)
           moves == /\ {op.source, op.target} \subseteq DOMAIN s.tasks
                    /\ op.task \notin Above(op.target, s.tasks) \union {op.source}
<1>1. op.task \in Tasks
  BY OperationFields
<1>2. CASE moves
  <2>1. r \in Store /\ r.tasks = MovedUnder(s.tasks, op.task, op.source, op.target) /\ r.archive = s.archive
    BY <1>1, <1>2, MoveSubTaskShape
  <2>2. DOMAIN r.tasks = DOMAIN s.tasks
    BY <2>1 DEF MovedUnder
  <2> QED
    BY <2>1, <2>2 DEF Stays, Everywhere
<1>3. CASE ~moves
  BY <1>3, SameStays DEF MoveSubTask
<1> QED
  BY <1>2, <1>3

LEMMA SetTagsStays ==
  ASSUME NEW s \in Store, NEW op, IsOperation(op), op.kind = "setTags"
  PROVE  Stays(op, s, SetTags(op, s))
<1> DEFINE r == SetTags(op, s)
<1>1. op.tags \in SUBSET Tags
  BY OperationFields
<1>2. CASE op.task \in DOMAIN s.tasks
  <2>1. r \in Store /\ r.tasks = Retagged(s.tasks, op.task, op.tags) /\ r.archive = s.archive
    BY <1>1, <1>2, SetTagsShape
  <2>2. DOMAIN r.tasks = DOMAIN s.tasks
    BY <2>1 DEF Retagged
  <2> QED
    BY <2>1, <2>2 DEF Stays, Everywhere
<1>3. CASE op.task \notin DOMAIN s.tasks
  BY <1>3, SameStays DEF SetTags
<1> QED
  BY <1>2, <1>3

LEMMA MoveToProjectStays ==
  ASSUME NEW s \in Store, NEW op, IsOperation(op), op.kind = "moveToProject"
  PROVE  Stays(op, s, MoveToProject(op, s))
<1> DEFINE r == MoveToProject(op, s)
<1>1. op.task \in Tasks /\ op.target \in Projects
  BY OperationFields
<1>2. r \in Store /\ r.tasks = InProject(s.tasks, Along(op, s), op.target) /\ r.archive = s.archive
  BY <1>1, MoveToProjectShape
<1>3. DOMAIN r.tasks = DOMAIN s.tasks
  BY <1>2 DEF InProject
<1> QED
  BY <1>2, <1>3 DEF Stays, Everywhere

LEMMA DeleteTaskStays ==
  ASSUME NEW s \in Store, NEW op, IsOperation(op), op.kind = "deleteTask"
  PROVE  Stays(op, s, DeleteTask(op, s))
<1> DEFINE r == DeleteTask(op, s)
<1>1. op.task \in Tasks
  BY OperationFields
<1>2. r \in Store /\ r.tasks = Removed(s.tasks, op.task, op.parent, op.subs) /\ r.archive = s.archive
  BY <1>1, DeleteTaskShape
<1>3. DOMAIN r.tasks \subseteq DOMAIN s.tasks
  BY <1>2 DEF Removed, Without, Restrict, WithoutSub
<1> QED
  BY <1>2, <1>3 DEF Stays, Everywhere

LEMMA DeleteProjectStays ==
  ASSUME NEW s \in Store, NEW op, IsOperation(op), op.kind = "deleteProject"
  PROVE  Stays(op, s, DeleteProject(op, s))
<1> DEFINE r == DeleteProject(op, s)
           gone == ArchivedIn(s, op.project)
<1>1. op.project \in Projects
  BY OperationFields
<1>2. r \in Store /\ r.tasks = Without(s.tasks, op.tasks) /\ r.archive = Without(s.archive, gone)
  BY <1>1, DeleteProjectShape
<1>3. DOMAIN r.tasks \subseteq DOMAIN s.tasks /\ DOMAIN r.archive \subseteq DOMAIN s.archive
  BY <1>2 DEF Without, Restrict
<1> QED
  BY <1>2, <1>3 DEF Stays, Everywhere

LEMMA DeleteTagStays ==
  ASSUME NEW s \in Store, NEW op, IsOperation(op), op.kind = "deleteTag"
  PROVE  Stays(op, s, DeleteTag(op, s))
<1> DEFINE r == DeleteTag(op, s)
<1>1. op.tag \in Tags
  BY OperationFields
<1>2. r \in Store /\ r.tasks = Untagged(s.tasks, op.tag) /\ r.archive = Untagged(s.archive, op.tag)
  BY <1>1, DeleteTagShape
<1>3. DOMAIN r.tasks = DOMAIN s.tasks /\ DOMAIN r.archive = DOMAIN s.archive
  BY <1>2 DEF Untagged
<1> QED
  BY <1>2, <1>3 DEF Stays, Everywhere

LEMMA MoveToArchiveStays ==
  ASSUME NEW s \in Store, NEW op, IsOperation(op), op.kind = "moveToArchive"
  PROVE  Stays(op, s, MoveToArchive(op, s))
<1> DEFINE r == MoveToArchive(op, s)
<1>1. op.records \in ById(Tasks, Task)
  BY OperationFields
<1>2. /\ r \in Store /\ r.tasks = Removed(s.tasks, op.task, None, DOMAIN op.records)
      /\ r.archive = WithMany(s.archive, op.records)
  BY <1>1, MoveToArchiveShape
<1>3. DOMAIN r.tasks \subseteq DOMAIN s.tasks
  BY <1>2 DEF Removed, Without, Restrict, WithoutSub
<1>4. DOMAIN r.archive = DOMAIN s.archive \union DOMAIN op.records
  BY <1>2 DEF WithMany
<1>5. Brings(op) = DOMAIN op.records
  BY DEF Brings
<1> QED
  BY <1>2, <1>3, <1>4, <1>5 DEF Stays, Everywhere

LEMMA RestoreTaskStays ==
  ASSUME NEW s \in Store, NEW op, IsOperation(op), op.kind = "restoreTask"
  PROVE  Stays(op, s, RestoreTask(op, s))
<1> DEFINE r == RestoreTask(op, s)
<1>1. op.records \in ById(Tasks, Task) /\ op.task \in Tasks
  BY OperationFields, MapFacts
<1>2. /\ r \in Store /\ r.tasks = WithMany(s.tasks, Back(op, s))
      /\ r.archive = Without(s.archive, DOMAIN Back(op, s))
  BY <1>1, RestoreTaskShape
<1>3. DOMAIN r.tasks = DOMAIN s.tasks \union DOMAIN op.records
  BY <1>2 DEF WithMany, Back
<1>4. DOMAIN r.archive \subseteq DOMAIN s.archive
  BY <1>2 DEF Without, Restrict
<1>5. Brings(op) = DOMAIN op.records
  BY DEF Brings
<1> QED
  BY <1>2, <1>3, <1>4, <1>5 DEF Stays, Everywhere

LEMMA ReducedByKind ==
  ASSUME NEW op, NEW s
  PROVE  /\ op.kind = "addTask" => Reduced(op, s) = AddTask(op, s)
         /\ op.kind = "addSubTask" => Reduced(op, s) = AddSubTask(op, s)
         /\ op.kind = "convertToMain" => Reduced(op, s) = ConvertToMain(op, s)
         /\ op.kind = "convertToSub" => Reduced(op, s) = ConvertToSub(op, s)
         /\ op.kind = "moveSubTask" => Reduced(op, s) = MoveSubTask(op, s)
         /\ op.kind = "setTags" => Reduced(op, s) = SetTags(op, s)
         /\ op.kind = "moveToProject" => Reduced(op, s) = MoveToProject(op, s)
         /\ op.kind = "deleteTask" => Reduced(op, s) = DeleteTask(op, s)
         /\ op.kind = "deleteProject" => Reduced(op, s) = DeleteProject(op, s)
         /\ op.kind = "deleteTag" => Reduced(op, s) = DeleteTag(op, s)
         /\ op.kind = "moveToArchive" => Reduced(op, s) = MoveToArchive(op, s)
         /\ op.kind = "restoreTask" => Reduced(op, s) = RestoreTask(op, s)
BY DEF Reduced

LEMMA ReducedStays ==
  ASSUME NEW s \in Store, NEW op, IsOperation(op), ~Throws(op, s)
  PROVE  Stays(op, s, Reduced(op, s))
<1>1. CASE op.kind = "addTask"
  BY <1>1, ReducedByKind, AddTaskStays
<1>2. CASE op.kind = "addSubTask"
  BY <1>2, ReducedByKind, AddSubTaskStays
<1>3. CASE op.kind = "convertToMain"
  BY <1>3, ReducedByKind, ConvertToMainStays
<1>4. CASE op.kind = "convertToSub"
  BY <1>4, ReducedByKind, ConvertToSubStays
<1>5. CASE op.kind = "moveSubTask"
  BY <1>5, ReducedByKind, MoveSubTaskStays
<1>6. CASE op.kind = "setTags"
  BY <1>6, ReducedByKind, SetTagsStays
<1>7. CASE op.kind = "moveToProject"
  BY <1>7, ReducedByKind, MoveToProjectStays
<1>8. CASE op.kind = "deleteTask"
  BY <1>8, ReducedByKind, DeleteTaskStays
<1>9. CASE op.kind = "deleteProject"
  BY <1>9, ReducedByKind, DeleteProjectStays
<1>10. CASE op.kind = "deleteTag"
  BY <1>10, ReducedByKind, DeleteTagStays
<1>11. CASE op.kind = "moveToArchive"
  BY <1>11, ReducedByKind, MoveToArchiveStays
<1>12. CASE op.kind = "restoreTask"
  BY <1>12, ReducedByKind, RestoreTaskStays
<1> QED
  BY <1>1, <1>2, <1>3, <1>4, <1>5, <1>6, <1>7, <1>8, <1>9, <1>10, <1>11, <1>12, OperationFields

-----------------------------------------------------------------------------
(* Batches of operations *)

Operation ==
  PlainOperation \union
  {op \in [kind : {"moveToArchive", "restoreTask"}, task : Tasks, records : ById(Tasks, Task)] :
     op.task \in DOMAIN op.records}

Entry == [op : Operation, by : Devices, base : Nat]

LEMMA OperationIsOperation ==
  ASSUME NEW op
  PROVE  op \in Operation <=> IsOperation(op)
<1>1. IsOperation(op) => op \in Operation
  <2>1. CASE op \in PlainOperation
    BY <2>1 DEF Operation
  <2>2. CASE op \notin PlainOperation /\ IsOperation(op)
    <3>1. /\ op = [kind |-> op.kind, task |-> op.task, records |-> op.records]
          /\ op.kind \in {"moveToArchive", "restoreTask"}
          /\ op.task \in DOMAIN op.records
          /\ op.records \in ById(Tasks, Task)
      BY <2>2, ByIdIsById DEF IsOperation
    <3>2. op.task \in Tasks
      BY <3>1, MapFacts
    <3>3. op \in [kind : {"moveToArchive", "restoreTask"}, task : Tasks, records : ById(Tasks, Task)]
      BY <3>1, <3>2
    <3> QED
      BY <3>1, <3>3 DEF Operation
  <2> QED
    BY <2>1, <2>2
<1>2. op \in Operation => IsOperation(op)
  <2> SUFFICES ASSUME op \in Operation, op \notin PlainOperation
               PROVE  IsOperation(op)
    BY DEF IsOperation
  <2>1. /\ op = [kind |-> op.kind, task |-> op.task, records |-> op.records]
        /\ op.kind \in {"moveToArchive", "restoreTask"}
        /\ op.task \in DOMAIN op.records
        /\ op.records \in ById(Tasks, Task)
    BY DEF Operation
  <2> QED
    BY <2>1, ByIdIsById DEF IsOperation
<1> QED
  BY <1>1, <1>2

LEMMA EntryAt ==
  ASSUME NEW entries \in Seq(Entry), NEW k \in 1..Len(entries)
  PROVE  /\ entries[k] \in Entry /\ entries[k].op \in Operation
         /\ entries[k].by \in Devices /\ entries[k].base \in Nat
<1>1. entries[k] \in Entry
  OBVIOUS
<1> QED
  BY <1>1 DEF Entry

\* A store, and whether a reducer has thrown.
Outcome == [store : Store, threw : BOOLEAN]

LEMMA StartOutcome ==
  ASSUME NEW s \in Store
  PROVE  [store |-> s, threw |-> FALSE] \in Outcome /\ [store |-> s, threw |-> FALSE].store = s
BY DEF Outcome

\* What bulkApplyOperations makes of an outcome with one more operation.
After(op, r) ==
  IF r.threw \/ Throws(op, r.store) THEN [r EXCEPT !.threw = TRUE] ELSE [r EXCEPT !.store = Reduced(op, r.store)]

LEMMA AfterFacts ==
  ASSUME NEW r \in Outcome, NEW op \in Operation
  PROVE  /\ After(op, r) \in Outcome
         /\ Everywhere(After(op, r).store) \subseteq Everywhere(r.store) \union Brings(op)
         /\ r.threw = FALSE /\ ~Throws(op, r.store) => After(op, r) = [store |-> Reduced(op, r.store), threw |-> FALSE]
<1>1. r.store \in Store /\ r.threw \in BOOLEAN /\ r = [store |-> r.store, threw |-> r.threw]
  BY DEF Outcome
<1>2. CASE r.threw \/ Throws(op, r.store)
  <2>1. After(op, r) = [store |-> r.store, threw |-> TRUE]
    BY <1>1, <1>2 DEF After
  <2> QED
    BY <1>1, <1>2, <2>1 DEF Outcome
<1>3. CASE ~(r.threw \/ Throws(op, r.store))
  <2>1. After(op, r) = [store |-> Reduced(op, r.store), threw |-> FALSE]
    BY <1>1, <1>3 DEF After
  <2>2. Stays(op, r.store, Reduced(op, r.store))
    BY <1>1, <1>3, OperationIsOperation, ReducedStays
  <2> QED
    BY <2>1, <2>2 DEF Outcome, Stays
<1> QED
  BY <1>2, <1>3

\* The outcomes after the first k operations of a batch, for each k.
Reduces(upto, entries, s) ==
  /\ upto[0] = [store |-> s, threw |-> FALSE]
  /\ \A k \in 1..Len(entries) : upto[k] = After(entries[k].op, upto[k - 1])

LEMMA BatchSteps ==
  ASSUME NEW s \in Store, NEW entries \in Seq(Entry)
  PROVE  \E upto : Reduces(upto, entries, s) /\ Batch(entries, s) = upto[Len(entries)]
<1> DEFINE n == Len(entries)
           start == [store |-> s, threw |-> FALSE]
           Eq(f) == f = [k \in 0..n |-> IF k = 0 THEN start ELSE After(entries[k].op, f[k - 1])]
           upto == CHOOSE f : Eq(f)
<1>1. n \in Nat
  OBVIOUS
<1>2. \E f : Eq(f)
  <2> DEFINE step == [k \in 1..n |-> [r \in Outcome |-> After(entries[k].op, r)]]
  <2>1. Keeps(step, n, Outcome)
    <3>1. \A k \in 1..n : entries[k].op \in Operation
      BY EntryAt
    <3>2. \A k \in 1..n : \A r \in Outcome : After(entries[k].op, r) \in Outcome
      BY <3>1, AfterFacts
    <3> QED
      BY <3>2 DEF Keeps
  <2>2. start \in Outcome
    BY DEF Outcome
  <2>3. PICK f \in [0..n -> Outcome] : GoesBy(f, n, start, step)
    <3> HIDE DEF step, n, start
    <3> QED
      BY <1>1, <2>1, <2>2, SegmentRecursion
  <2>4. ASSUME NEW k \in 1..n
        PROVE  f[k] = After(entries[k].op, f[k - 1])
    <3>1. f[k - 1] \in Outcome
      OBVIOUS
    <3>2. f[k] = step[k][f[k - 1]]
      BY <2>3 DEF GoesBy
    <3> QED
      BY <3>1, <3>2
  <2>5. Eq(f)
    <3> DEFINE g == [k \in 0..n |-> IF k = 0 THEN start ELSE After(entries[k].op, f[k - 1])]
    <3>1. DOMAIN g = 0..n /\ DOMAIN f = 0..n
      OBVIOUS
    <3>2. ASSUME NEW k \in 0..n
          PROVE  f[k] = g[k]
      <4>1. CASE k = 0
        BY <4>1, <2>3 DEF GoesBy
      <4>2. CASE k # 0
        <5>1. k \in 1..n
          BY <4>2
        <5>2. g[k] = After(entries[k].op, f[k - 1])
          BY <4>2
        <5> QED
          BY <5>1, <5>2, <2>4
      <4> QED
        BY <4>1, <4>2
    <3>3. f = [k \in 0..n |-> f[k]] /\ g = [k \in 0..n |-> g[k]]
      OBVIOUS
    <3>4. f = g
      <4> HIDE DEF g
      <4> QED
        BY <3>2, <3>3
    <3> QED
      BY <3>4
  <2> QED
    BY <2>5
<1>3. Eq(upto)
  <2> HIDE DEF Eq
  <2> QED
    BY <1>2
<1>4. Batch(entries, s) = upto[n]
  BY DEF Batch, After
<1> HIDE DEF upto
<1>5. upto[0] = start
  BY <1>3, <1>1
<1>6. ASSUME NEW k \in 1..n
      PROVE  upto[k] = After(entries[k].op, upto[k - 1])
  <2>1. k \in 0..n /\ k # 0
    BY <1>1
  <2> QED
    BY <1>3, <2>1
<1> HIDE DEF Eq
<1>7. Reduces(upto, entries, s)
  BY <1>5, <1>6 DEF Reduces
<1> QED
  BY <1>4, <1>7

\* A batch makes of a store a store, and brings in no task that its operations do not carry.
LEMMA BatchFacts ==
  ASSUME NEW s \in Store, NEW entries \in Seq(Entry), NEW B, Everywhere(s) \subseteq B,
         \A k \in 1..Len(entries) : Brings(entries[k].op) \subseteq B
  PROVE  Batch(entries, s) \in Outcome /\ Everywhere(Batch(entries, s).store) \subseteq B
<1>1. PICK upto : Reduces(upto, entries, s) /\ Batch(entries, s) = upto[Len(entries)]
  BY BatchSteps
<1> DEFINE n == Len(entries)
           S == {k \in 0..n : upto[k] \in Outcome /\ Everywhere(upto[k].store) \subseteq B}
<1>2. n \in Nat
  OBVIOUS
<1>3. 0 \in S
  <2>1. upto[0] = [store |-> s, threw |-> FALSE]
    BY <1>1 DEF Reduces
  <2>2. upto[0] \in Outcome /\ upto[0].store = s
    BY <2>1, StartOutcome
  <2>3. 0 \in 0..n
    BY <1>2
  <2> QED
    BY <2>2, <2>3
<1>4. ASSUME NEW k \in 0..n - 1, k \in S
      PROVE  k + 1 \in S
  <2>1. k + 1 \in 1..n /\ (k + 1) - 1 = k
    BY <1>2
  <2>2. upto[k + 1] = After(entries[k + 1].op, upto[k])
    BY <1>1, <2>1 DEF Reduces
  <2>3. upto[k] \in Outcome /\ Everywhere(upto[k].store) \subseteq B
    BY <1>4
  <2>4. entries[k + 1].op \in Operation
    BY <2>1, EntryAt
  <2>5. /\ After(entries[k + 1].op, upto[k]) \in Outcome
        /\ Everywhere(After(entries[k + 1].op, upto[k]).store) \subseteq
             Everywhere(upto[k].store) \union Brings(entries[k + 1].op)
    BY <2>3, <2>4, AfterFacts
  <2>6. Brings(entries[k + 1].op) \subseteq B
    BY <2>1
  <2> QED
    BY <2>1, <2>2, <2>3, <2>5, <2>6
<1>5. n \in S
  <2> HIDE DEF S, n
  <2>1. \A k \in 0..n : k \in S
    BY <1>2, <1>3, <1>4, SegmentInduction
  <2> QED
    BY <1>2, <2>1
<1> QED
  BY <1>1, <1>5

\* A run of operations none of which throws: the stores that they lead through.
Leads(entries, st) ==
  \A k \in 1..Len(entries) : ~Throws(entries[k].op, st[k - 1]) /\ st[k] = Reduced(entries[k].op, st[k - 1])

LEMMA BatchLeads ==
  ASSUME NEW entries \in Seq(Entry), NEW st, st[0] \in Store, Leads(entries, st)
  PROVE  Batch(entries, st[0]) = [store |-> st[Len(entries)], threw |-> FALSE]
<1>1. PICK upto : Reduces(upto, entries, st[0]) /\ Batch(entries, st[0]) = upto[Len(entries)]
  BY BatchSteps
<1> DEFINE n == Len(entries)
           S == {k \in 0..n : upto[k] \in Outcome /\ upto[k] = [store |-> st[k], threw |-> FALSE]}
<1>2. n \in Nat
  OBVIOUS
<1>3. 0 \in S
  <2>1. upto[0] = [store |-> st[0], threw |-> FALSE]
    BY <1>1 DEF Reduces
  <2>2. upto[0] \in Outcome
    BY <2>1, StartOutcome
  <2>3. 0 \in 0..n
    BY <1>2
  <2> QED
    BY <2>1, <2>2, <2>3
<1>4. ASSUME NEW k \in 0..n - 1, k \in S
      PROVE  k + 1 \in S
  <2>1. k + 1 \in 1..n /\ (k + 1) - 1 = k
    BY <1>2
  <2>2. upto[k + 1] = After(entries[k + 1].op, upto[k])
    BY <1>1, <2>1 DEF Reduces
  <2>3. upto[k] \in Outcome /\ upto[k] = [store |-> st[k], threw |-> FALSE]
    BY <1>4
  <2>4. entries[k + 1].op \in Operation
    BY <2>1, EntryAt
  <2>5. ~Throws(entries[k + 1].op, st[k]) /\ st[k + 1] = Reduced(entries[k + 1].op, st[k])
    BY <2>1 DEF Leads
  <2>6. upto[k].store = st[k] /\ upto[k].threw = FALSE
    BY <2>3
  <2>7. After(entries[k + 1].op, upto[k]) \in Outcome
    BY <2>3, <2>4, AfterFacts
  <2>8. After(entries[k + 1].op, upto[k]) = [store |-> Reduced(entries[k + 1].op, upto[k].store), threw |-> FALSE]
    BY <2>3, <2>4, <2>5, <2>6, AfterFacts
  <2>9. upto[k + 1] = [store |-> st[k + 1], threw |-> FALSE]
    BY <2>2, <2>5, <2>6, <2>8
  <2>10. upto[k + 1] \in Outcome /\ k + 1 \in 0..n
    BY <1>2, <2>1, <2>2, <2>7
  <2> QED
    BY <2>9, <2>10
<1>5. n \in S
  <2> HIDE DEF S, n
  <2>1. \A k \in 0..n : k \in S
    BY <1>2, <1>3, <1>4, SegmentInduction
  <2> QED
    BY <1>2, <2>1
<1> QED
  BY <1>1, <1>5

-----------------------------------------------------------------------------
(* The operations that the user's actions make *)

\* What validation asks of a store apart from its archive.
Fits(s) ==
  /\ \A p \in DOMAIN s.lists : \A t \in s.lists[p] : t \in DOMAIN s.tasks /\ s.tasks[t].project = p
  /\ \A t \in DOMAIN s.tasks : /\ s.tasks[t].project \in DOMAIN s.lists
                              /\ s.tasks[t].tags \subseteq DOMAIN s.tagged
                              /\ s.tasks[t].parent \in DOMAIN s.tasks \union {None}
                              /\ s.tasks[t].subs \subseteq DOMAIN s.tasks
  /\ \A g \in DOMAIN s.tagged : s.tagged[g] \subseteq DOMAIN s.tasks

LEMMA FitsUnlessNeedsRepair ==
  ASSUME NEW s \in Store
  PROVE  Fits(s) <=> ~NeedsRepair(s)
<1> DEFINE w == [s EXCEPT !.archive = <<>>]
<1>1. w.tasks = s.tasks /\ w.lists = s.lists /\ w.tagged = s.tagged /\ w.archive = <<>>
  BY DEF Store
<1>2. NeedsRepair(s) <=> ~Valid(w)
  BY DEF NeedsRepair
<1> HIDE DEF w
<1>3. DOMAIN w.archive = {}
  BY <1>1
<1>4. Valid(w) <=> Fits(s)
  BY <1>1, <1>3 DEF Valid, Fits
<1> QED
  BY <1>2, <1>4

MainsOf(s) == {t \in DOMAIN s.tasks : s.tasks[t].parent = None}

ByCreateTask(op, s) ==
  \E t \in Tasks \ Everywhere(s), p \in DOMAIN s.lists, tags \in SUBSET DOMAIN s.tagged :
    op = [kind |-> "addTask", task |-> t, project |-> p, tags |-> tags]

ByCreateSubTask(op, s) ==
  \E t \in Tasks \ Everywhere(s), p \in MainsOf(s) : op = [kind |-> "addSubTask", task |-> t, parent |-> p]

ByConvertToMainTask(op, s) ==
  \E t \in DOMAIN s.tasks \ MainsOf(s) :
    op = [kind |-> "convertToMain", task |-> t, parent |-> s.tasks[t].parent, project |-> s.tasks[t].project,
          parentTags |-> s.tasks[s.tasks[t].parent].tags]

ByConvertToSubTask(op, s) ==
  \E t, p \in MainsOf(s) :
    CanApplyConvertToSubTask(t, p, s.tasks) /\ op = [kind |-> "convertToSub", task |-> t, parent |-> p]

ByDragSubTask(op, s) ==
  \E t \in DOMAIN s.tasks \ MainsOf(s), p \in MainsOf(s) :
    /\ p # s.tasks[t].parent
    /\ op = [kind |-> "moveSubTask", task |-> t, source |-> s.tasks[t].parent, target |-> p]

ByToggleTags(op, s) ==
  \E t \in DOMAIN s.tasks, tags \in SUBSET DOMAIN s.tagged : op = [kind |-> "setTags", task |-> t, tags |-> tags]

ByMoveToOtherProject(op, s) ==
  \E t \in MainsOf(s), p \in DOMAIN s.lists :
    /\ p # s.tasks[t].project
    /\ op = [kind |-> "moveToProject", task |-> t, project |-> s.tasks[t].project,
             subs |-> s.tasks[t].subs, target |-> p]

ByRemoveTask(op, s) ==
  \E t \in DOMAIN s.tasks :
    op = [kind |-> "deleteTask", task |-> t, project |-> s.tasks[t].project,
          parent |-> s.tasks[t].parent, subs |-> s.tasks[t].subs]

ByRemoveProject(op, s) ==
  \E p \in DOMAIN s.lists \ {INBOX} :
    op = [kind |-> "deleteProject", project |-> p,
          tasks |-> s.lists[p] \union UNION {s.tasks[t].subs : t \in s.lists[p]}]

ByRemoveTag(op, s) == \E g \in DOMAIN s.tagged : op = [kind |-> "deleteTag", tag |-> g]

ByArchive(op, s) ==
  \E t \in MainsOf(s) :
    op = [kind |-> "moveToArchive", task |-> t, records |-> Restrict(s.tasks, {t} \union s.tasks[t].subs)]

ByRestore(op, s) ==
  \E t \in DOMAIN s.archive :
    /\ s.archive[t].parent = None
    /\ op = [kind |-> "restoreTask", task |-> t,
             records |-> Restrict(s.archive, ({t} \union s.archive[t].subs) \intersect DOMAIN s.archive)]

\* The operation is one that an action makes of the store.
MadeOf(op, s) ==
  \/ ByCreateTask(op, s) \/ ByCreateSubTask(op, s) \/ ByRemoveTask(op, s)
  \/ ByConvertToMainTask(op, s) \/ ByConvertToSubTask(op, s) \/ ByDragSubTask(op, s)
  \/ ByToggleTags(op, s) \/ ByRemoveTag(op, s)
  \/ ByMoveToOtherProject(op, s) \/ ByRemoveProject(op, s)
  \/ ByArchive(op, s) \/ ByRestore(op, s)

\* It has what its kind calls for, and does not throw.
Proper(op, s) == op \in Operation /\ ~Throws(op, s)

LEMMA CreateTaskProper ==
  ASSUME NEW s \in Store, NEW op, ByCreateTask(op, s)
  PROVE  Proper(op, s)
<1>1. PICK t \in Tasks \ Everywhere(s), p \in DOMAIN s.lists, tags \in SUBSET DOMAIN s.tagged :
         op = [kind |-> "addTask", task |-> t, project |-> p, tags |-> tags]
  BY DEF ByCreateTask
<1>2. DOMAIN s.lists \subseteq Projects /\ DOMAIN s.tagged \subseteq Tags
  BY StoreParts, MapFacts
<1>3. op \in [kind : {"addTask"}, task : Tasks, project : Projects, tags : SUBSET Tags]
  BY <1>1, <1>2
<1> QED
  BY <1>1, <1>3 DEF Proper, Operation, PlainOperation, Throws

LEMMA CreateSubTaskProper ==
  ASSUME NEW s \in Store, NEW op, ByCreateSubTask(op, s)
  PROVE  Proper(op, s)
<1>1. PICK t \in Tasks \ Everywhere(s), p \in MainsOf(s) : op = [kind |-> "addSubTask", task |-> t, parent |-> p]
  BY DEF ByCreateSubTask
<1>2. p \in Tasks
  BY StoreParts, MapFacts DEF MainsOf
<1>3. op \in [kind : {"addSubTask", "convertToSub"}, task : Tasks, parent : Tasks]
  BY <1>1, <1>2
<1> QED
  BY <1>1, <1>3 DEF Proper, Operation, PlainOperation, Throws

LEMMA ConvertToMainTaskProper ==
  ASSUME NEW s \in Store, Fits(s), NEW op, ByConvertToMainTask(op, s)
  PROVE  Proper(op, s)
<1>1. PICK t \in DOMAIN s.tasks \ MainsOf(s) :
         op = [kind |-> "convertToMain", task |-> t, parent |-> s.tasks[t].parent, project |-> s.tasks[t].project,
               parentTags |-> s.tasks[s.tasks[t].parent].tags]
  BY DEF ByConvertToMainTask
<1> DEFINE p == s.tasks[t].parent
<1>2. p \in DOMAIN s.tasks
  BY DEF Fits, MainsOf
<1>3. t \in Tasks /\ p \in Tasks /\ s.tasks[t] \in Task /\ s.tasks[p] \in Task
  BY <1>2, StoreParts, MapFacts
<1>4. s.tasks[t].project \in Projects /\ s.tasks[p].tags \in SUBSET Tags
  BY <1>3, TaskFields
<1>5. op \in [kind : {"convertToMain"}, task : Tasks, parent : Tasks, project : Projects, parentTags : SUBSET Tags]
  BY <1>1, <1>3, <1>4
<1> QED
  BY <1>1, <1>2, <1>5 DEF Proper, Operation, PlainOperation, Throws

LEMMA ConvertToSubTaskProper ==
  ASSUME NEW s \in Store, NEW op, ByConvertToSubTask(op, s)
  PROVE  Proper(op, s)
<1>1. PICK t \in MainsOf(s), p \in MainsOf(s) : op = [kind |-> "convertToSub", task |-> t, parent |-> p]
  BY DEF ByConvertToSubTask
<1>2. p \in Tasks /\ t \in Tasks
  BY StoreParts, MapFacts DEF MainsOf
<1>3. op \in [kind : {"addSubTask", "convertToSub"}, task : Tasks, parent : Tasks]
  BY <1>1, <1>2
<1> QED
  BY <1>1, <1>3 DEF Proper, Operation, PlainOperation, Throws

LEMMA DragSubTaskProper ==
  ASSUME NEW s \in Store, Fits(s), NEW op, ByDragSubTask(op, s)
  PROVE  Proper(op, s)
<1>1. PICK t \in DOMAIN s.tasks \ MainsOf(s), p \in MainsOf(s) :
         op = [kind |-> "moveSubTask", task |-> t, source |-> s.tasks[t].parent, target |-> p]
  BY DEF ByDragSubTask
<1>2. s.tasks[t].parent \in DOMAIN s.tasks /\ p \in DOMAIN s.tasks
  BY DEF Fits, MainsOf
<1>3. t \in Tasks /\ p \in Tasks /\ s.tasks[t].parent \in Tasks
  BY <1>2, StoreParts, MapFacts
<1>4. op \in [kind : {"moveSubTask"}, task : Tasks, source : Tasks, target : Tasks]
  BY <1>1, <1>3
<1> QED
  BY <1>1, <1>4 DEF Proper, Operation, PlainOperation, Throws

LEMMA ToggleTagsProper ==
  ASSUME NEW s \in Store, NEW op, ByToggleTags(op, s)
  PROVE  Proper(op, s)
<1>1. PICK t \in DOMAIN s.tasks, tags \in SUBSET DOMAIN s.tagged : op = [kind |-> "setTags", task |-> t, tags |-> tags]
  BY DEF ByToggleTags
<1>2. t \in Tasks /\ DOMAIN s.tagged \subseteq Tags
  BY StoreParts, MapFacts
<1>3. op \in [kind : {"setTags"}, task : Tasks, tags : SUBSET Tags]
  BY <1>1, <1>2
<1> QED
  BY <1>1, <1>3 DEF Proper, Operation, PlainOperation, Throws

LEMMA MoveToOtherProjectProper ==
  ASSUME NEW s \in Store, NEW op, ByMoveToOtherProject(op, s)
  PROVE  Proper(op, s)
<1>1. PICK t \in MainsOf(s), p \in DOMAIN s.lists :
         op = [kind |-> "moveToProject", task |-> t, project |-> s.tasks[t].project,
               subs |-> s.tasks[t].subs, target |-> p]
  BY DEF ByMoveToOtherProject
<1>2. t \in Tasks /\ p \in Projects /\ s.tasks[t] \in Task
  BY StoreParts, MapFacts DEF MainsOf
<1>3. s.tasks[t].project \in Projects /\ s.tasks[t].subs \in SUBSET Tasks
  BY <1>2, TaskFields
<1>4. op \in [kind : {"moveToProject"}, task : Tasks, project : Projects, subs : SUBSET Tasks, target : Projects]
  BY <1>1, <1>2, <1>3
<1> QED
  BY <1>1, <1>4 DEF Proper, Operation, PlainOperation, Throws

LEMMA RemoveTaskProper ==
  ASSUME NEW s \in Store, NEW op, ByRemoveTask(op, s)
  PROVE  Proper(op, s)
<1>1. PICK t \in DOMAIN s.tasks :
         op = [kind |-> "deleteTask", task |-> t, project |-> s.tasks[t].project,
               parent |-> s.tasks[t].parent, subs |-> s.tasks[t].subs]
  BY DEF ByRemoveTask
<1>2. t \in Tasks /\ s.tasks[t] \in Task
  BY StoreParts, MapFacts
<1>3. /\ s.tasks[t].project \in Projects /\ s.tasks[t].subs \in SUBSET Tasks
      /\ s.tasks[t].parent \in Tasks \union {None}
  BY <1>2, TaskFields
<1>4. op \in [kind : {"deleteTask"}, task : Tasks, project : Projects, parent : Tasks \union {None}, subs : SUBSET Tasks]
  BY <1>1, <1>2, <1>3
<1> QED
  BY <1>1, <1>4 DEF Proper, Operation, PlainOperation, Throws

LEMMA RemoveProjectProper ==
  ASSUME NEW s \in Store, Fits(s), NEW op, ByRemoveProject(op, s)
  PROVE  Proper(op, s)
<1>1. PICK p \in DOMAIN s.lists \ {INBOX} :
         op = [kind |-> "deleteProject", project |-> p,
               tasks |-> s.lists[p] \union UNION {s.tasks[t].subs : t \in s.lists[p]}]
  BY DEF ByRemoveProject
<1>2. p \in Projects /\ s.lists[p] \in SUBSET Tasks
  BY StoreParts, MapFacts
<1>3. \A t \in s.lists[p] : s.tasks[t].subs \in SUBSET Tasks
  <2>1. \A t \in s.lists[p] : t \in DOMAIN s.tasks
    BY DEF Fits
  <2>2. \A t \in s.lists[p] : s.tasks[t] \in Task
    BY <2>1, StoreParts, MapFacts
  <2> QED
    BY <2>2, TaskFields
<1>4. op.project = p /\ op.tasks \in SUBSET Tasks
  BY <1>1, <1>2, <1>3
<1>5. op \in [kind : {"deleteProject"}, project : Projects, tasks : SUBSET Tasks]
  BY <1>1, <1>2, <1>4
<1> QED
  BY <1>1, <1>5 DEF Proper, Operation, PlainOperation, Throws

LEMMA RemoveTagProper ==
  ASSUME NEW s \in Store, NEW op, ByRemoveTag(op, s)
  PROVE  Proper(op, s)
<1>1. PICK g \in DOMAIN s.tagged : op = [kind |-> "deleteTag", tag |-> g]
  BY DEF ByRemoveTag
<1>2. g \in Tags
  BY StoreParts, MapFacts
<1>3. op \in [kind : {"deleteTag"}, tag : Tags]
  BY <1>1, <1>2
<1> QED
  BY <1>1, <1>3 DEF Proper, Operation, PlainOperation, Throws

LEMMA ArchiveProper ==
  ASSUME NEW s \in Store, Fits(s), NEW op, ByArchive(op, s)
  PROVE  Proper(op, s)
<1>1. PICK t \in MainsOf(s) :
         op = [kind |-> "moveToArchive", task |-> t, records |-> Restrict(s.tasks, {t} \union s.tasks[t].subs)]
  BY DEF ByArchive
<1> DEFINE family == {t} \union s.tasks[t].subs
<1>2. family \in SUBSET (DOMAIN s.tasks)
  BY DEF Fits, MainsOf
<1>3. t \in Tasks /\ t \in family
  BY StoreParts, MapFacts DEF MainsOf
<1>4. Restrict(s.tasks, family) \in ById(Tasks, Task) /\ DOMAIN Restrict(s.tasks, family) = family
  <2> HIDE DEF family
  <2> QED
    BY <1>2, StoreParts, RestrictFacts
<1> HIDE DEF family
<1>5. op = [kind |-> "moveToArchive", task |-> t, records |-> Restrict(s.tasks, family)]
  BY <1>1 DEF family
<1>6. /\ op \in [kind : {"moveToArchive", "restoreTask"}, task : Tasks, records : ById(Tasks, Task)]
      /\ op.task \in DOMAIN op.records
  BY <1>3, <1>4, <1>5
<1> QED
  BY <1>5, <1>6 DEF Proper, Operation, Throws

LEMMA RestoreProper ==
  ASSUME NEW s \in Store, NEW op, ByRestore(op, s)
  PROVE  Proper(op, s)
<1>1. PICK t \in DOMAIN s.archive :
         op = [kind |-> "restoreTask", task |-> t,
               records |-> Restrict(s.archive, ({t} \union s.archive[t].subs) \intersect DOMAIN s.archive)]
  BY DEF ByRestore
<1> DEFINE family == ({t} \union s.archive[t].subs) \intersect DOMAIN s.archive
<1>2. family \in SUBSET (DOMAIN s.archive) /\ t \in family
  OBVIOUS
<1>3. t \in Tasks
  BY StoreParts, MapFacts
<1>4. Restrict(s.archive, family) \in ById(Tasks, Task) /\ DOMAIN Restrict(s.archive, family) = family
  <2> HIDE DEF family
  <2> QED
    BY <1>2, StoreParts, RestrictFacts
<1>5. op = [kind |-> "restoreTask", task |-> t, records |-> Restrict(s.archive, family)]
  BY <1>1
<1> HIDE DEF family
<1>6. /\ op \in [kind : {"moveToArchive", "restoreTask"}, task : Tasks, records : ById(Tasks, Task)]
      /\ op.task \in DOMAIN op.records
  BY <1>2, <1>3, <1>4, <1>5
<1> QED
  BY <1>5, <1>6 DEF Proper, Operation, Throws

LEMMA MadeProper ==
  ASSUME NEW s \in Store, Fits(s), NEW op, MadeOf(op, s)
  PROVE  Proper(op, s)
BY CreateTaskProper, CreateSubTaskProper, RemoveTaskProper, ConvertToMainTaskProper, ConvertToSubTaskProper,
   DragSubTaskProper, ToggleTagsProper, RemoveTagProper, MoveToOtherProjectProper, RemoveProjectProper,
   ArchiveProper, RestoreProper DEF MadeOf

-----------------------------------------------------------------------------
(* Type correctness *)

\* TypeOK, by sets.
Typed ==
  /\ store \in [Devices -> Store]
  /\ log \in Seq(Entry)
  /\ pending \in [Devices -> Seq(Entry)]
  /\ seen \in [Devices -> Nat]
  /\ \A d \in Devices : seen[d] <= Len(log)
  /\ born \subseteq Tasks
  /\ broken \subseteq Devices

BringsBorn(entries) == \A k \in 1..Len(entries) : Brings(entries[k].op) \subseteq born

\* The ids in use include those of every store and every operation.
Born ==
  /\ \A d \in Devices : Everywhere(store[d]) \subseteq born
  /\ BringsBorn(log)
  /\ \A d \in Devices : BringsBorn(pending[d])

LEMMA BringsTasks ==
  ASSUME NEW op \in Operation
  PROVE  Brings(op) \subseteq Tasks
<1>1. IsOperation(op)
  BY OperationIsOperation
<1>2. op.kind \in {"addTask", "addSubTask"} => op.task \in Tasks
  BY <1>1, OperationFields
<1>3. op.kind \in {"moveToArchive", "restoreTask"} => op.records \in ById(Tasks, Task)
  BY <1>1, OperationFields
<1>4. op.kind \in {"moveToArchive", "restoreTask"} => DOMAIN op.records \subseteq Tasks
  BY <1>3, MapFacts
<1> QED
  BY <1>2, <1>4 DEF Brings

\* The user's action on d makes an operation of the store of d; a task that it makes is new.
Makes(d) ==
  \E op : /\ Dispatch(d, op) /\ MadeOf(op, store[d])
          /\ born' = born \union Brings(op)
          /\ Adds(op) \intersect born = {}

LEMMA CreateTaskMakes ==
  ASSUME Typed, Born, NEW d \in Devices, CreateTask(d)
  PROVE  Makes(d)
<1>1. PICK t \in Tasks \ born, p \in ProjectsOf(d), tags \in SUBSET TagsOf(d) :
         /\ Dispatch(d, [kind |-> "addTask", task |-> t, project |-> p, tags |-> tags])
         /\ born' = born \union {t}
  BY DEF CreateTask
<1> DEFINE op == [kind |-> "addTask", task |-> t, project |-> p, tags |-> tags]
<1>2. t \in Tasks \ Everywhere(store[d])
  BY DEF Born
<1>3. ByCreateTask(op, store[d])
  BY <1>2 DEF ByCreateTask, ProjectsOf, TagsOf
<1>4. Brings(op) = {t} /\ Adds(op) = {t}
  BY DEF Brings, Adds
<1> QED
  BY <1>1, <1>3, <1>4 DEF Makes, MadeOf

LEMMA CreateSubTaskMakes ==
  ASSUME Typed, Born, NEW d \in Devices, CreateSubTask(d)
  PROVE  Makes(d)
<1>1. PICK t \in Tasks \ born, p \in Mains(d) :
         /\ Dispatch(d, [kind |-> "addSubTask", task |-> t, parent |-> p])
         /\ born' = born \union {t}
  BY DEF CreateSubTask
<1> DEFINE op == [kind |-> "addSubTask", task |-> t, parent |-> p]
<1>2. t \in Tasks \ Everywhere(store[d])
  BY DEF Born
<1>3. ByCreateSubTask(op, store[d])
  BY <1>2 DEF ByCreateSubTask, Mains, Here, The, MainsOf
<1>4. Brings(op) = {t} /\ Adds(op) = {t}
  BY DEF Brings, Adds
<1> QED
  BY <1>1, <1>3, <1>4 DEF Makes, MadeOf

\* An operation of another kind than these brings in what was there.
LEMMA OldBorn ==
  ASSUME NEW d \in Devices, NEW op, Dispatch(d, op), MadeOf(op, store[d]), UNCHANGED born, Brings(op) \subseteq born,
         Adds(op) = {}
  PROVE  Makes(d)
BY DEF Makes

LEMMA ConvertToMainTaskMakes ==
  ASSUME NEW d \in Devices, ConvertToMainTask(d)
  PROVE  Makes(d)
<1>1. PICK t \in Here(d) \ Mains(d) :
         LET p == The(d, t).parent
         IN  /\ Dispatch(d, [kind |-> "convertToMain", task |-> t, parent |-> p, project |-> The(d, t).project,
                            parentTags |-> The(d, p).tags])
             /\ UNCHANGED born
  BY DEF ConvertToMainTask
<1> DEFINE p == The(d, t).parent
           op == [kind |-> "convertToMain", task |-> t, parent |-> p, project |-> The(d, t).project,
                  parentTags |-> The(d, p).tags]
<1>2. ByConvertToMainTask(op, store[d])
  BY DEF ByConvertToMainTask, Mains, Here, The, MainsOf
<1>3. Brings(op) = {} /\ Adds(op) = {}
  BY DEF Brings, Adds
<1>4. Dispatch(d, op) /\ UNCHANGED born
  BY <1>1
<1> HIDE DEF op
<1> QED
  BY <1>2, <1>3, <1>4, OldBorn DEF MadeOf

LEMMA ConvertToSubTaskMakes ==
  ASSUME NEW d \in Devices, ConvertToSubTask(d)
  PROVE  Makes(d)
<1>1. PICK t \in Mains(d), p \in Mains(d) :
         /\ CanApplyConvertToSubTask(t, p, store[d].tasks)
         /\ Dispatch(d, [kind |-> "convertToSub", task |-> t, parent |-> p])
         /\ UNCHANGED born
  BY DEF ConvertToSubTask
<1> DEFINE op == [kind |-> "convertToSub", task |-> t, parent |-> p]
<1>2. ByConvertToSubTask(op, store[d])
  BY <1>1 DEF ByConvertToSubTask, Mains, Here, The, MainsOf
<1>3. Brings(op) = {} /\ Adds(op) = {}
  BY DEF Brings, Adds
<1>4. Dispatch(d, op) /\ UNCHANGED born
  BY <1>1
<1> HIDE DEF op
<1> QED
  BY <1>2, <1>3, <1>4, OldBorn DEF MadeOf

LEMMA DragSubTaskMakes ==
  ASSUME NEW d \in Devices, DragSubTask(d)
  PROVE  Makes(d)
<1>1. PICK t \in Here(d) \ Mains(d), p \in Mains(d) :
         /\ p # The(d, t).parent
         /\ Dispatch(d, [kind |-> "moveSubTask", task |-> t, source |-> The(d, t).parent, target |-> p])
         /\ UNCHANGED born
  BY DEF DragSubTask
<1> DEFINE op == [kind |-> "moveSubTask", task |-> t, source |-> The(d, t).parent, target |-> p]
<1>2. ByDragSubTask(op, store[d])
  BY <1>1 DEF ByDragSubTask, Mains, Here, The, MainsOf
<1>3. Brings(op) = {} /\ Adds(op) = {}
  BY DEF Brings, Adds
<1>4. Dispatch(d, op) /\ UNCHANGED born
  BY <1>1
<1> HIDE DEF op
<1> QED
  BY <1>2, <1>3, <1>4, OldBorn DEF MadeOf

LEMMA ToggleTagsMakes ==
  ASSUME NEW d \in Devices, ToggleTags(d)
  PROVE  Makes(d)
<1>1. PICK t \in Here(d), tags \in SUBSET TagsOf(d) :
         Dispatch(d, [kind |-> "setTags", task |-> t, tags |-> tags]) /\ UNCHANGED born
  BY DEF ToggleTags
<1> DEFINE op == [kind |-> "setTags", task |-> t, tags |-> tags]
<1>2. ByToggleTags(op, store[d])
  BY DEF ByToggleTags, Here, TagsOf
<1>3. Brings(op) = {} /\ Adds(op) = {}
  BY DEF Brings, Adds
<1>4. Dispatch(d, op) /\ UNCHANGED born
  BY <1>1
<1> HIDE DEF op
<1> QED
  BY <1>2, <1>3, <1>4, OldBorn DEF MadeOf

LEMMA MoveToOtherProjectMakes ==
  ASSUME NEW d \in Devices, MoveToOtherProject(d)
  PROVE  Makes(d)
<1>1. PICK t \in Mains(d), p \in ProjectsOf(d) :
         /\ p # The(d, t).project
         /\ Dispatch(d, [kind |-> "moveToProject", task |-> t, project |-> The(d, t).project,
                        subs |-> The(d, t).subs, target |-> p])
         /\ UNCHANGED born
  BY DEF MoveToOtherProject
<1> DEFINE op == [kind |-> "moveToProject", task |-> t, project |-> The(d, t).project,
                  subs |-> The(d, t).subs, target |-> p]
<1>2. ByMoveToOtherProject(op, store[d])
  BY <1>1 DEF ByMoveToOtherProject, Mains, Here, The, ProjectsOf, MainsOf
<1>3. Brings(op) = {} /\ Adds(op) = {}
  BY DEF Brings, Adds
<1>4. Dispatch(d, op) /\ UNCHANGED born
  BY <1>1
<1> HIDE DEF op
<1> QED
  BY <1>2, <1>3, <1>4, OldBorn DEF MadeOf

LEMMA RemoveTaskMakes ==
  ASSUME NEW d \in Devices, RemoveTask(d)
  PROVE  Makes(d)
<1>1. PICK t \in Here(d) :
         /\ Dispatch(d, [kind |-> "deleteTask", task |-> t, project |-> The(d, t).project,
                        parent |-> The(d, t).parent, subs |-> The(d, t).subs])
         /\ UNCHANGED born
  BY DEF RemoveTask
<1> DEFINE op == [kind |-> "deleteTask", task |-> t, project |-> The(d, t).project,
                  parent |-> The(d, t).parent, subs |-> The(d, t).subs]
<1>2. ByRemoveTask(op, store[d])
  BY DEF ByRemoveTask, Here, The
<1>3. Brings(op) = {} /\ Adds(op) = {}
  BY DEF Brings, Adds
<1>4. Dispatch(d, op) /\ UNCHANGED born
  BY <1>1
<1> HIDE DEF op
<1> QED
  BY <1>2, <1>3, <1>4, OldBorn DEF MadeOf

LEMMA RemoveProjectMakes ==
  ASSUME NEW d \in Devices, RemoveProject(d)
  PROVE  Makes(d)
<1>1. PICK p \in ProjectsOf(d) \ {INBOX} :
         /\ Dispatch(d, [kind |-> "deleteProject", project |-> p,
                        tasks |-> store[d].lists[p] \union UNION {The(d, t).subs : t \in store[d].lists[p]}])
         /\ UNCHANGED born
  BY DEF RemoveProject
<1> DEFINE op == [kind |-> "deleteProject", project |-> p,
                  tasks |-> store[d].lists[p] \union UNION {The(d, t).subs : t \in store[d].lists[p]}]
<1>2. ByRemoveProject(op, store[d])
  BY DEF ByRemoveProject, ProjectsOf, The
<1>3. Brings(op) = {} /\ Adds(op) = {}
  BY DEF Brings, Adds
<1>4. Dispatch(d, op) /\ UNCHANGED born
  BY <1>1
<1> HIDE DEF op
<1> QED
  BY <1>2, <1>3, <1>4, OldBorn DEF MadeOf

LEMMA RemoveTagMakes ==
  ASSUME NEW d \in Devices, RemoveTag(d)
  PROVE  Makes(d)
<1>1. PICK g \in TagsOf(d) : Dispatch(d, [kind |-> "deleteTag", tag |-> g]) /\ UNCHANGED born
  BY DEF RemoveTag
<1> DEFINE op == [kind |-> "deleteTag", tag |-> g]
<1>2. ByRemoveTag(op, store[d])
  BY DEF ByRemoveTag, TagsOf
<1>3. Brings(op) = {} /\ Adds(op) = {}
  BY DEF Brings, Adds
<1>4. Dispatch(d, op) /\ UNCHANGED born
  BY <1>1
<1> HIDE DEF op
<1> QED
  BY <1>2, <1>3, <1>4, OldBorn DEF MadeOf

LEMMA ArchiveMakes ==
  ASSUME Typed, Born, NEW d \in Devices, Archive(d)
  PROVE  Makes(d)
<1>1. PICK t \in Mains(d) :
         /\ Dispatch(d, [kind |-> "moveToArchive", task |-> t,
                        records |-> Restrict(store[d].tasks, {t} \union The(d, t).subs)])
         /\ UNCHANGED born
  BY DEF Archive
<1> DEFINE family == {t} \union The(d, t).subs
           op == [kind |-> "moveToArchive", task |-> t, records |-> Restrict(store[d].tasks, family)]
<1>2. ByArchive(op, store[d])
  BY DEF ByArchive, Mains, Here, The, MainsOf
<1>3. store[d] \in Store /\ Fits(store[d])
  <2>1. store[d] \in Store
    BY DEF Typed
  <2>2. ~NeedsRepair(store[d])
    BY <1>1 DEF Dispatch, Works
  <2> QED
    BY <2>1, <2>2, FitsUnlessNeedsRepair
<1>4. family \subseteq Everywhere(store[d])
  BY <1>3 DEF Fits, Mains, Here, The, Everywhere
<1>5. Brings(op) = family /\ Adds(op) = {}
  BY DEF Brings, Adds, Restrict
<1>6. Brings(op) \subseteq born
  BY <1>4, <1>5 DEF Born
<1>7. Dispatch(d, op) /\ UNCHANGED born
  BY <1>1
<1> HIDE DEF op
<1> QED
  BY <1>2, <1>5, <1>6, <1>7, OldBorn DEF MadeOf

LEMMA RestoreMakes ==
  ASSUME Born, NEW d \in Devices, Restore(d)
  PROVE  Makes(d)
<1>1. PICK t \in DOMAIN store[d].archive :
         /\ store[d].archive[t].parent = None
         /\ Dispatch(d, [kind |-> "restoreTask", task |-> t,
              records |-> Restrict(store[d].archive,
                                   ({t} \union store[d].archive[t].subs) \intersect DOMAIN store[d].archive)])
         /\ UNCHANGED born
  BY DEF Restore
<1> DEFINE family == ({t} \union store[d].archive[t].subs) \intersect DOMAIN store[d].archive
           op == [kind |-> "restoreTask", task |-> t, records |-> Restrict(store[d].archive, family)]
<1>2. ByRestore(op, store[d])
  BY <1>1 DEF ByRestore
<1>3. Brings(op) = family /\ Adds(op) = {}
  BY DEF Brings, Adds, Restrict
<1>4. Brings(op) \subseteq born
  BY <1>3 DEF Born, Everywhere
<1>5. Dispatch(d, op) /\ UNCHANGED born
  BY <1>1
<1> HIDE DEF op
<1> QED
  BY <1>2, <1>3, <1>4, <1>5, OldBorn DEF MadeOf

LEMMA NextMakes ==
  ASSUME Typed, Born, Next
  PROVE  \E d \in Devices : Makes(d) \/ Sync(d)
BY CreateTaskMakes, CreateSubTaskMakes, RemoveTaskMakes, ConvertToMainTaskMakes, ConvertToSubTaskMakes,
   DragSubTaskMakes, ToggleTagsMakes, RemoveTagMakes, MoveToOtherProjectMakes, RemoveProjectMakes,
   ArchiveMakes, RestoreMakes DEF Next

\* The entry that an action on d appends.
Made1(d, op) == [op |-> op, by |-> d, base |-> seen[d]]

LEMMA DispatchFacts ==
  ASSUME Typed, NEW d \in Devices, NEW op, Dispatch(d, op), MadeOf(op, store[d])
  PROVE  /\ store[d] \in Store /\ Fits(store[d]) /\ Proper(op, store[d])
         /\ Made1(d, op) \in Entry
         /\ Stays(op, store[d], Reduced(op, store[d]))
         /\ store' = [store EXCEPT ![d] = Reduced(op, store[d])]
         /\ pending' = [pending EXCEPT ![d] = Append(pending[d], Made1(d, op))]
         /\ UNCHANGED <<log, seen, broken>>
<1>1. store[d] \in Store
  BY DEF Typed
<1>2. Fits(store[d])
  BY <1>1, FitsUnlessNeedsRepair DEF Dispatch, Works
<1>3. Proper(op, store[d])
  BY <1>1, <1>2, MadeProper
<1>4. Made1(d, op) \in Entry
  BY <1>3 DEF Made1, Entry, Proper, Typed
<1>5. Stays(op, store[d], Reduced(op, store[d]))
  BY <1>1, <1>3, ReducedStays, OperationIsOperation DEF Proper
<1> QED
  BY <1>1, <1>2, <1>3, <1>4, <1>5 DEF Dispatch, Made1

LEMMA MakesTyped ==
  ASSUME Typed, Born, NEW d \in Devices, Makes(d)
  PROVE  Typed' /\ Born'
<1>1. PICK op : Dispatch(d, op) /\ MadeOf(op, store[d]) /\ born' = born \union Brings(op)
  BY DEF Makes
<1> DEFINE e == Made1(d, op)
           r == Reduced(op, store[d])
<1>2. /\ store[d] \in Store /\ op \in Operation /\ e \in Entry
      /\ r \in Store /\ Everywhere(r) \subseteq Everywhere(store[d]) \union Brings(op)
      /\ store' = [store EXCEPT ![d] = r]
      /\ pending' = [pending EXCEPT ![d] = Append(pending[d], e)]
      /\ log' = log /\ seen' = seen /\ broken' = broken
  BY <1>1, DispatchFacts DEF Proper, Stays
<1>3. e.op = op
  BY DEF Made1
<1> HIDE DEF e, r
<1>4. Typed'
  <2>1. store' \in [Devices -> Store]
    BY <1>2 DEF Typed
  <2>2. pending' \in [Devices -> Seq(Entry)]
    <3>1. pending[d] \in Seq(Entry)
      BY DEF Typed
    <3>2. Append(pending[d], e) \in Seq(Entry)
      BY <1>2, <3>1
    <3> QED
      BY <1>2, <3>2 DEF Typed
  <2>3. born' \subseteq Tasks
    BY <1>1, <1>2, BringsTasks DEF Typed
  <2> QED
    BY <1>2, <2>1, <2>2, <2>3 DEF Typed
<1>5. Born'
  <2>1. ASSUME NEW x \in Devices
        PROVE  Everywhere(store'[x]) \subseteq born'
    <3>1. CASE x = d
      <4>1. store'[x] = r
        BY <1>2, <3>1 DEF Typed
      <4> QED
        BY <1>1, <1>2, <4>1 DEF Born
    <3>2. CASE x # d
      <4>1. store'[x] = store[x]
        BY <1>2, <3>2 DEF Typed
      <4> QED
        BY <1>1, <4>1 DEF Born
    <3> QED
      BY <3>1, <3>2
  <2>2. BringsBorn(log)'
    BY <1>1, <1>2 DEF Born, BringsBorn
  <2>3. ASSUME NEW x \in Devices
        PROVE  \A k \in 1..Len(pending'[x]) : Brings(pending'[x][k].op) \subseteq born'
    <3>0. \A k \in 1..Len(pending[x]) : Brings(pending[x][k].op) \subseteq born
      BY DEF Born, BringsBorn
    <3>1. CASE x = d
      <4> DEFINE q == pending[d]
      <4>1. pending'[x] = Append(q, e) /\ q \in Seq(Entry)
        BY <1>2, <3>1 DEF Typed
      <4>2. \A k \in 1..Len(q) : Brings(q[k].op) \subseteq born
        BY <3>0, <3>1
      <4> HIDE DEF q
      <4>3. ASSUME NEW k \in 1..Len(q) + 1
            PROVE  Brings(Append(q, e)[k].op) \subseteq born'
        <5>1. CASE k = Len(q) + 1
          <6>1. Append(q, e)[k] = e
            BY <4>1, <5>1
          <6> QED
            BY <1>1, <1>3, <6>1
        <5>2. CASE k # Len(q) + 1
          <6>1. k \in 1..Len(q) /\ Append(q, e)[k] = q[k]
            BY <4>1, <5>2
          <6> QED
            BY <1>1, <4>2, <6>1
        <5> QED
          BY <5>1, <5>2
      <4>4. Len(Append(q, e)) = Len(q) + 1
        BY <4>1
      <4> QED
        BY <4>1, <4>3, <4>4
    <3>2. CASE x # d
      <4>1. pending'[x] = pending[x]
        BY <1>2, <3>2 DEF Typed
      <4> QED
        BY <1>1, <3>0, <4>1
    <3> QED
      BY <3>1, <3>2
  <2> QED
    BY <2>1, <2>2, <2>3 DEF Born, BringsBorn
<1> QED
  BY <1>4, <1>5

\* The operations of the log that d has not seen.
New1(d) == SubSeq(log, seen[d] + 1, Len(log))

LEMMA NewFacts ==
  ASSUME Typed, NEW d \in Devices
  PROVE  /\ New1(d) \in Seq(Entry)
         /\ Len(New1(d)) = Len(log) - seen[d]
         /\ \A k \in 1..Len(New1(d)) : New1(d)[k] = log[seen[d] + k] /\ seen[d] + k \in 1..Len(log)
<1>1. log \in Seq(Entry) /\ seen[d] \in Nat /\ seen[d] <= Len(log)
  BY DEF Typed
<1> DEFINE a == seen[d]
<1>2. a \in Nat /\ Len(log) \in Nat /\ a <= Len(log)
  BY <1>1
<1> HIDE DEF a
<1>3. SubSeq(log, a + 1, Len(log)) \in Seq(Entry)
  BY <1>1, <1>2
<1>4. Len(SubSeq(log, a + 1, Len(log))) = Len(log) - a
  BY <1>1, <1>2
<1>5. \A k \in 1..Len(log) - a : SubSeq(log, a + 1, Len(log))[k] = log[a + k] /\ a + k \in 1..Len(log)
  BY <1>1, <1>2
<1> QED
  BY <1>3, <1>4, <1>5 DEF New1, a

\* A synchronisation that does not throw.
Synced(d) ==
  /\ Works(d)
  /\ Batch(New1(d), store[d]).threw = FALSE
  /\ store' = [store EXCEPT ![d] = Batch(New1(d), store[d]).store]
  /\ log' = log \o pending[d]
  /\ pending' = [pending EXCEPT ![d] = <<>>]
  /\ seen' = [seen EXCEPT ![d] = Len(log')]
  /\ UNCHANGED <<broken, born>>

Threw(d) == broken' = broken \union {d} /\ UNCHANGED <<store, log, pending, seen, born>>

LEMMA SyncFacts ==
  ASSUME Typed, Born, NEW d \in Devices, Sync(d)
  PROVE  /\ Batch(New1(d), store[d]) \in Outcome
         /\ Everywhere(Batch(New1(d), store[d]).store) \subseteq born
         /\ Synced(d) \/ Threw(d)
<1>1. store[d] \in Store /\ Everywhere(store[d]) \subseteq born
  BY DEF Typed, Born
<1> DEFINE q == New1(d)
<1>2. q \in Seq(Entry) /\ \A k \in 1..Len(q) : Brings(q[k].op) \subseteq born
  BY NewFacts DEF Born, BringsBorn
<1>3. Batch(q, store[d]) \in Outcome /\ Everywhere(Batch(q, store[d]).store) \subseteq born
  <2> HIDE DEF q
  <2> QED
    BY <1>1, <1>2, BatchFacts
<1>4. Batch(q, store[d]).threw \in BOOLEAN
  <2> DEFINE r == Batch(q, store[d])
  <2>1. r \in Outcome
    BY <1>3
  <2> HIDE DEF r
  <2>2. r.threw \in BOOLEAN
    BY <2>1 DEF Outcome
  <2> QED
    BY <2>2 DEF r
<1>5. Synced(d) \/ Threw(d)
  <2> DEFINE r == Batch(q, store[d])
  <2>1. /\ IF r.threw
           THEN broken' = broken \union {d} /\ UNCHANGED <<store, log, pending, seen>>
           ELSE /\ store' = [store EXCEPT ![d] = r.store]
                /\ log' = log \o pending[d]
                /\ pending' = [pending EXCEPT ![d] = <<>>]
                /\ seen' = [seen EXCEPT ![d] = Len(log')]
                /\ UNCHANGED broken
        /\ Works(d)
        /\ UNCHANGED born
    BY DEF Sync, New1
  <2>2. r.threw = TRUE \/ r.threw = FALSE
    BY <1>4
  <2> HIDE DEF r
  <2>3. CASE r.threw = TRUE
    BY <2>1, <2>3 DEF Threw
  <2>4. CASE r.threw = FALSE
    BY <2>1, <2>4 DEF Synced, r
  <2> QED
    BY <2>2, <2>3, <2>4
<1> QED
  BY <1>3, <1>5

LEMMA SyncTyped ==
  ASSUME Typed, Born, NEW d \in Devices, Sync(d)
  PROVE  Typed' /\ Born'
<1> DEFINE r == Batch(New1(d), store[d])
<1>1. r \in Outcome /\ Everywhere(r.store) \subseteq born /\ (Synced(d) \/ Threw(d))
  BY SyncFacts
<1>2. r.store \in Store
  <2> HIDE DEF r
  <2> QED
    BY <1>1 DEF Outcome
<1>3. CASE Threw(d)
  BY <1>3 DEF Threw, Typed, Born, BringsBorn
<1>4. CASE Synced(d)
  <2>0. /\ store' = [store EXCEPT ![d] = r.store]
        /\ log' = log \o pending[d]
        /\ pending' = [pending EXCEPT ![d] = <<>>]
        /\ seen' = [seen EXCEPT ![d] = Len(log')]
        /\ broken' = broken /\ born' = born
    BY <1>4 DEF Synced
  <2> HIDE DEF r
  <2> DEFINE p == pending[d]
  <2>1. log \in Seq(Entry) /\ p \in Seq(Entry)
    BY DEF Typed
  <2> HIDE DEF p
  <2>2. log \o p \in Seq(Entry) /\ Len(log \o p) = Len(log) + Len(p) /\ Len(log) \in Nat /\ Len(p) \in Nat
    BY <2>1
  <2>3. log' = log \o p
    BY <2>0 DEF p
  <2>4. Typed'
    <3>1. store' \in [Devices -> Store]
      BY <1>2, <2>0 DEF Typed
    <3>2. pending' \in [Devices -> Seq(Entry)]
      BY <2>0 DEF Typed
    <3>3. seen' \in [Devices -> Nat]
      BY <2>0, <2>2, <2>3 DEF Typed
    <3>4. \A x \in Devices : seen'[x] <= Len(log')
      <4>1. Len(log') >= Len(log) /\ Len(log') \in Nat
        BY <2>2, <2>3
      <4> QED
        BY <2>0, <4>1 DEF Typed
    <3>5. log' \in Seq(Entry)
      BY <2>2, <2>3
    <3>6. born' \subseteq Tasks /\ broken' \subseteq Devices
      BY <2>0 DEF Typed
    <3> QED
      BY <3>1, <3>2, <3>3, <3>4, <3>5, <3>6 DEF Typed
  <2>5. Born'
    <3>1. \A x \in Devices : Everywhere(store'[x]) \subseteq born'
      <4>1. \A x \in Devices : store'[x] = IF x = d THEN r.store ELSE store[x]
        BY <2>0 DEF Typed
      <4> QED
        BY <1>1, <2>0, <4>1 DEF Born
    <3>2. BringsBorn(log)'
      <4>1. /\ \A k \in 1..Len(log) : Brings(log[k].op) \subseteq born
            /\ \A k \in 1..Len(p) : Brings(p[k].op) \subseteq born
        BY DEF Born, BringsBorn, p
      <4>2. ASSUME NEW k \in 1..Len(log \o p)
            PROVE  Brings((log \o p)[k].op) \subseteq born
        <5>1. CASE k <= Len(log)
          <6>1. k \in 1..Len(log) /\ (log \o p)[k] = log[k]
            BY <2>1, <2>2, <5>1
          <6> QED
            BY <4>1, <6>1
        <5>2. CASE k > Len(log)
          <6>1. k - Len(log) \in 1..Len(p) /\ (log \o p)[k] = p[k - Len(log)]
            BY <2>1, <2>2, <5>2
          <6> QED
            BY <4>1, <6>1
        <5>3. k \in Nat
          BY <2>2
        <5> QED
          BY <2>2, <5>1, <5>2, <5>3
      <4> QED
        BY <2>0, <2>3, <4>2 DEF BringsBorn
    <3>3. \A x \in Devices : BringsBorn(pending[x])'
      <4>1. \A x \in Devices : pending'[x] = IF x = d THEN <<>> ELSE pending[x]
        BY <2>0 DEF Typed
      <4> QED
        BY <2>0, <4>1 DEF Born, BringsBorn
    <3> QED
      BY <3>1, <3>2, <3>3 DEF Born
  <2> QED
    BY <2>4, <2>5
<1> QED
  BY <1>1, <1>3, <1>4

LEMMA NextTyped ==
  ASSUME Typed, Born, [Next]_vars
  PROVE  Typed' /\ Born'
<1>1. CASE Next
  BY <1>1, NextMakes, MakesTyped, SyncTyped
<1>2. CASE UNCHANGED vars
  BY <1>2 DEF vars, Typed, Born, BringsBorn
<1> QED
  BY <1>1, <1>2

-----------------------------------------------------------------------------
(* Sound stores *)

\* The parent and the subtasks of a task name it; a subtask has none, and its parent's project.
Kin(f, t) ==
  /\ f[t].parent \in DOMAIN f \union {None}
  /\ f[t].parent # None => f[f[t].parent].parent = None /\ f[t].project = f[f[t].parent].project
  /\ f[t].subs \subseteq DOMAIN f
  /\ \A x \in DOMAIN f : x \in f[t].subs <=> f[x].parent = t

Families(f) == \A t \in DOMAIN f : Kin(f, t)

\* A list has the main tasks of its project, and every task has a project.
ListsFit(tasks, lists) ==
  /\ \A t \in DOMAIN tasks : tasks[t].project \in DOMAIN lists
  /\ \A l \in DOMAIN lists :
       /\ lists[l] \subseteq DOMAIN tasks
       /\ \A t \in DOMAIN tasks : t \in lists[l] <=> tasks[t].parent = None /\ tasks[t].project = l

\* The tags of a task are there and list it, and list only tasks.
TagsFit(tasks, tagged) ==
  /\ \A t \in DOMAIN tasks : tasks[t].tags \subseteq DOMAIN tagged /\ \A g \in tasks[t].tags : t \in tagged[g]
  /\ \A g \in DOMAIN tagged : tagged[g] \subseteq DOMAIN tasks

Apart(s) == DOMAIN s.tasks \intersect DOMAIN s.archive = {}

Sound(s) ==
  /\ s \in Store
  /\ Families(s.tasks) /\ Families(s.archive)
  /\ ListsFit(s.tasks, s.lists) /\ TagsFit(s.tasks, s.tagged)
  /\ Apart(s)
  /\ INBOX \in DOMAIN s.lists

LEMMA SoundFits ==
  ASSUME NEW s, Sound(s)
  PROVE  Fits(s)
BY DEF Sound, Families, Kin, ListsFit, TagsFit, Fits

LEMMA FamiliesAre ==
  ASSUME NEW f, Families(f)
  PROVE  AreFamilies(f)
<1>1. ASSUME NEW t \in DOMAIN f
      PROVE  f[t].subs = SubsOf(f, t)
  BY <1>1 DEF Families, Kin, SubsOf
<1> QED
  BY <1>1 DEF Families, Kin, AreFamilies

LEMMA SoundConsistent ==
  ASSUME NEW s, Sound(s)
  PROVE  Consistent(s)
<1>1. AreFamilies(s.tasks) /\ AreFamilies(s.archive)
  BY FamiliesAre DEF Sound
<1>2. Valid(s)
  BY SoundFits DEF Sound, Fits, Valid, Families, Kin
<1>3. DOMAIN s.tasks \intersect DOMAIN s.archive = {}
  BY DEF Sound, Apart
<1>4. \A t \in DOMAIN s.tasks :
        /\ \A l \in DOMAIN s.lists :
             t \in s.lists[l] <=> s.tasks[t].parent = None /\ l = s.tasks[t].project
        /\ \A g \in s.tasks[t].tags : t \in s.tagged[g]
  BY DEF Sound, ListsFit, TagsFit
<1> QED
  BY <1>1, <1>2, <1>3, <1>4 DEF Consistent

\* Whole families may be taken out.
LEMMA FamiliesRestricted ==
  ASSUME NEW f \in ById(Tasks, Task), Families(f), NEW K \in SUBSET (DOMAIN f),
         \A t \in DOMAIN f : f[t].parent # None => (t \in K <=> f[t].parent \in K)
  PROVE  Families(Restrict(f, K))
<1> DEFINE g == Restrict(f, K)
<1>1. DOMAIN g = K /\ \A x \in K : g[x] = f[x]
  BY DEF Restrict
<1> HIDE DEF g
<1>2. ASSUME NEW t \in K
      PROVE  /\ g[t].parent \in K \union {None}
             /\ g[t].parent # None => g[g[t].parent].parent = None /\ g[t].project = g[g[t].parent].project
             /\ g[t].subs \subseteq K
             /\ \A x \in K : x \in g[t].subs <=> g[x].parent = t
  <2>1. g[t].parent \in K \union {None}
    BY <1>1 DEF Families, Kin
  <2>2. g[t].parent # None => g[g[t].parent].parent = None /\ g[t].project = g[g[t].parent].project
    BY <1>1, <2>1 DEF Families, Kin
  <2>3. ASSUME NEW x \in f[t].subs
        PROVE  x \in K
    <3>1. x \in DOMAIN f /\ f[x].parent = t /\ t \in DOMAIN f
      BY DEF Families, Kin
    <3>2. t # None
      BY <3>1, MapFacts, NoneAssumption
    <3> QED
      BY <3>1, <3>2
  <2>4. \A x \in K : x \in g[t].subs <=> g[x].parent = t
    BY <1>1 DEF Families, Kin
  <2> QED
    BY <1>1, <2>1, <2>2, <2>3, <2>4
<1> QED
  BY <1>1, <1>2 DEF Families, Kin, g

-----------------------------------------------------------------------------
(* The stores to start from *)

LEMMA FamilyFacts ==
  ASSUME NEW ids \in SUBSET Tasks, NEW parents \in [ids -> ids \union {None}],
         \A t \in ids : parents[t] # None => parents[parents[t]] = None,
         NEW projects \in [{t \in ids : parents[t] = None} -> Projects], NEW tags \in [ids -> SUBSET Tags]
  PROVE  LET all == Family(parents, projects, tags)
         IN  /\ all \in ById(Tasks, Task) /\ DOMAIN all = ids /\ Families(all)
             /\ \A t \in ids : /\ all[t].parent = parents[t] /\ all[t].tags = tags[t]
                               /\ parents[t] = None => all[t].project = projects[t]
<1> DEFINE all == Family(parents, projects, tags)
           main(t) == IF parents[t] = None THEN t ELSE parents[t]
<1>1. DOMAIN parents = ids
  OBVIOUS
<1>2. \A t \in ids : main(t) \in ids /\ parents[main(t)] = None
  OBVIOUS
<1>3. \A t \in ids : projects[main(t)] \in Projects
  BY <1>2
<1> HIDE DEF main
<1>4. all = [t \in ids |-> [parent |-> parents[t], project |-> projects[main(t)], tags |-> tags[t],
                            subs |-> {x \in ids : parents[x] = t}]]
  BY <1>1 DEF Family, main
<1> HIDE DEF all
<1>5. \A t \in ids : /\ all[t].parent = parents[t] /\ all[t].project = projects[main(t)] /\ all[t].tags = tags[t]
                     /\ all[t].subs = {x \in ids : parents[x] = t}
  BY <1>4
<1>6. \A t \in ids : all[t] \in Task
  BY <1>3, <1>4 DEF Task
<1>7. all \in ById(Tasks, Task) /\ DOMAIN all = ids
  <2>1. all \in [ids -> Task]
    BY <1>4, <1>6
  <2> QED
    BY <2>1, NewMap
<1>8. Families(all)
  <2>1. ASSUME NEW t \in ids
        PROVE  /\ all[t].parent \in ids \union {None}
               /\ all[t].parent # None => all[all[t].parent].parent = None /\ all[t].project = all[all[t].parent].project
               /\ all[t].subs \subseteq ids
               /\ \A x \in ids : x \in all[t].subs <=> all[x].parent = t
    <3>1. ASSUME parents[t] # None
          PROVE  all[parents[t]].parent = None /\ all[t].project = all[parents[t]].project
      <4>1. parents[t] \in ids /\ parents[parents[t]] = None
        BY <3>1
      <4>2. main(t) = parents[t] /\ main(parents[t]) = parents[t]
        BY <3>1, <4>1 DEF main
      <4> QED
        BY <1>5, <4>1, <4>2
    <3> QED
      BY <1>5, <3>1
  <2> QED
    BY <1>7, <2>1 DEF Families, Kin
<1>9. \A t \in ids : parents[t] = None => all[t].project = projects[t]
  BY <1>5 DEF main
<1> QED
  BY <1>5, <1>7, <1>8, <1>9 DEF all

\* A store of some families, of which some are archived.
StartOf(parents, archived, projects, tags) ==
  LET ids == DOMAIN parents
      all == Family(parents, projects, tags)
      kept == archived \union {t \in ids : parents[t] \in archived}
  IN  [tasks   |-> Without(all, kept),
       archive |-> Restrict(all, kept),
       lists   |-> [p \in Projects |-> {t \in {x \in ids : parents[x] = None} \ kept : projects[t] = p}],
       tagged  |-> [g \in Tags |-> {t \in ids \ kept : g \in tags[t]}]]

LEMMA StoresOfFamilies ==
  ASSUME NEW parents, NEW s \in StoresOf(parents)
  PROVE  LET mains == {t \in DOMAIN parents : parents[t] = None}
         IN  \E archived \in SUBSET mains, projects \in [mains -> Projects], tags \in [DOMAIN parents -> SUBSET Tags] :
               s = StartOf(parents, archived, projects, tags)
<1> DEFINE mains == {t \in DOMAIN parents : parents[t] = None}
<1>1. StoresOf(parents) =
        {StartOf(parents, archived, projects, tags) :
           archived \in SUBSET mains, projects \in [mains -> Projects], tags \in [DOMAIN parents -> SUBSET Tags]}
  BY DEF StoresOf, StartOf
<1> HIDE DEF mains
<1>2. \E archived \in SUBSET mains, projects \in [mains -> Projects], tags \in [DOMAIN parents -> SUBSET Tags] :
        s = StartOf(parents, archived, projects, tags)
  BY <1>1
<1> QED
  BY <1>2 DEF mains

LEMMA StartSound ==
  ASSUME NEW s \in StartStores
  PROVE  Sound(s)
<1>1. PICK ids \in SUBSET Tasks : \E parents \in {f \in [ids -> ids \union {None}] : \A t \in ids : f[t] # None => f[f[t]] = None} :
         s \in StoresOf(parents)
  BY DEF StartStores
<1>2. PICK parents \in [ids -> ids \union {None}] :
         (\A t \in ids : parents[t] # None => parents[parents[t]] = None) /\ s \in StoresOf(parents)
  BY <1>1
<1> DEFINE mains == {t \in ids : parents[t] = None}
<1>3. DOMAIN parents = ids
  OBVIOUS
<1>4. PICK archived \in SUBSET mains, projects \in [mains -> Projects], tags \in [ids -> SUBSET Tags] :
         s = StartOf(parents, archived, projects, tags)
  BY <1>2, <1>3, StoresOfFamilies
<1> DEFINE all == Family(parents, projects, tags)
           kept == archived \union {t \in ids : parents[t] \in archived}
           lists == [p \in Projects |-> {t \in mains \ kept : projects[t] = p}]
           tagged == [g \in Tags |-> {t \in ids \ kept : g \in tags[t]}]
<1>5. s = [tasks |-> Without(all, kept), archive |-> Restrict(all, kept), lists |-> lists, tagged |-> tagged]
  BY <1>3, <1>4 DEF StartOf
<1>6. /\ all \in ById(Tasks, Task) /\ DOMAIN all = ids /\ Families(all)
      /\ \A t \in ids : /\ all[t].parent = parents[t] /\ all[t].tags = tags[t]
                        /\ parents[t] = None => all[t].project = projects[t]
  BY <1>2, FamilyFacts
<1> HIDE DEF all
<1>7. kept \in SUBSET ids /\ (ids \ kept) \in SUBSET ids
  OBVIOUS
<1>8. \A t \in ids : all[t].parent # None => (t \in kept <=> all[t].parent \in kept)
  <2> SUFFICES ASSUME NEW t \in ids, parents[t] # None
               PROVE  t \in kept <=> parents[t] \in kept
    BY <1>6
  <2>1. t \notin archived /\ parents[t] \in ids /\ parents[parents[t]] = None
    BY <1>2
  <2>2. None \notin archived
    BY NoneAssumption
  <2> QED
    BY <2>1, <2>2
<1>9. \A t \in ids : all[t].parent # None => (t \in ids \ kept <=> all[t].parent \in ids \ kept)
  <2>1. \A t \in ids : all[t].parent # None => all[t].parent \in ids
    BY <1>6 DEF Families, Kin
  <2> QED
    BY <1>8, <2>1
<1>10. kept \intersect mains = archived
  <2>1. None \notin archived
    BY NoneAssumption
  <2> QED
    BY <2>1
<1> HIDE DEF kept, mains
<1>11. Without(all, kept) = Restrict(all, ids \ kept)
  BY <1>6 DEF Without
<1>12. Families(Without(all, kept)) /\ Families(Restrict(all, kept))
  BY <1>6, <1>7, <1>8, <1>9, <1>11, FamiliesRestricted
<1>13. /\ Restrict(all, kept) \in ById(Tasks, Task) /\ DOMAIN Restrict(all, kept) = kept
       /\ Without(all, kept) \in ById(Tasks, Task) /\ DOMAIN Without(all, kept) = ids \ kept
       /\ \A t \in ids \ kept : Without(all, kept)[t] = all[t]
  BY <1>6, <1>7, <1>11, RestrictFacts
<1>14. lists \in ById(Projects, SUBSET Tasks)
  <2>1. lists \in [Projects -> SUBSET Tasks]
    BY DEF mains
  <2> HIDE DEF lists
  <2> QED
    BY <2>1, NewMap
<1>15. tagged \in ById(Tags, SUBSET Tasks)
  <2>1. tagged \in [Tags -> SUBSET Tasks]
    OBVIOUS
  <2> HIDE DEF tagged
  <2> QED
    BY <2>1, NewMap
<1> DEFINE tasks == Without(all, kept)
<1>16. ListsFit(tasks, lists)
  <2>1. DOMAIN tasks = ids \ kept /\ \A t \in ids \ kept : tasks[t] = all[t]
    BY <1>13
  <2> HIDE DEF tasks
  <2>2. ASSUME NEW t \in ids \ kept
        PROVE  tasks[t].project \in Projects
    BY <1>6, <2>1, MapFacts, TaskFields
  <2>3. ASSUME NEW l \in Projects
        PROVE  /\ lists[l] \subseteq ids \ kept
               /\ \A t \in ids \ kept : t \in lists[l] <=> tasks[t].parent = None /\ tasks[t].project = l
    <3>1. lists[l] = {t \in mains \ kept : projects[t] = l}
      OBVIOUS
    <3> QED
      BY <1>6, <2>1, <3>1 DEF mains
  <2> QED
    BY <2>1, <2>2, <2>3 DEF ListsFit
<1>17. TagsFit(tasks, tagged)
  <2>1. DOMAIN tasks = ids \ kept /\ \A t \in ids \ kept : tasks[t].tags = tags[t]
    BY <1>6, <1>13
  <2> HIDE DEF tasks
  <2>2. \A t \in ids \ kept : tags[t] \subseteq Tags
    OBVIOUS
  <2> QED
    BY <2>1, <2>2 DEF TagsFit
<1>18. INBOX \in DOMAIN lists
  BY InboxAssumption
<1> HIDE DEF lists, tagged
<1>19. s.tasks = Without(all, kept) /\ s.archive = Restrict(all, kept) /\ s.lists = lists /\ s.tagged = tagged
  BY <1>5
<1>20. s \in Store
  BY <1>5, <1>13, <1>14, <1>15 DEF Store
<1>21. Apart(s)
  BY <1>13, <1>19 DEF Apart
<1> QED
  BY <1>12, <1>16, <1>17, <1>18, <1>19, <1>20, <1>21 DEF Sound

LEMMA InitTyped ==
  ASSUME Init
  PROVE  Typed /\ Born
<1>1. PICK s \in StartStores : /\ store = [d \in Devices |-> s]
                               /\ born = DOMAIN s.tasks \union DOMAIN s.archive
  BY DEF Init
<1>2. s \in Store
  BY StartSound DEF Sound
<1>3. DOMAIN s.tasks \union DOMAIN s.archive \subseteq Tasks
  BY <1>2, StoreParts, MapFacts
<1>4. /\ log = <<>> /\ pending = [d \in Devices |-> <<>>] /\ seen = [d \in Devices |-> 0] /\ broken = {}
  BY DEF Init
<1>5. Typed
  BY <1>1, <1>2, <1>3, <1>4 DEF Typed
<1>6. Born
  BY <1>1, <1>4 DEF Born, BringsBorn, Everywhere
<1> QED
  BY <1>5, <1>6

LEMMA EntriesAre ==
  ASSUME NEW entries \in Seq(Entry)
  PROVE  AreEntries(entries)
<1>1. entries \in Seq(ToSet(entries))
  <2>1. entries \in [1..Len(entries) -> ToSet(entries)] /\ Len(entries) \in Nat
    BY DEF ToSet
  <2> QED
    BY <2>1
<1>2. \A e \in ToSet(entries) : e \in Entry
  BY DEF ToSet
<1>3. ASSUME NEW e \in Entry
      PROVE  e = [op |-> e.op, by |-> e.by, base |-> e.base] /\ IsOperation(e.op) /\ e.by \in Devices /\ e.base \in Nat
  <2>1. e = [op |-> e.op, by |-> e.by, base |-> e.base] /\ e.op \in Operation /\ e.by \in Devices /\ e.base \in Nat
    BY DEF Entry
  <2> QED
    BY <2>1, OperationIsOperation
<1> QED
  BY <1>1, <1>2, <1>3 DEF AreEntries

LEMMA TypedOK ==
  ASSUME Typed
  PROVE  TypeOK
<1>1. ASSUME NEW d \in Devices
      PROVE  IsStore(store[d]) /\ AreEntries(pending[d]) /\ seen[d] \in 0..Len(log)
  <2>1. store[d] \in Store /\ pending[d] \in Seq(Entry) /\ seen[d] \in Nat /\ seen[d] <= Len(log) /\ log \in Seq(Entry)
    BY DEF Typed
  <2> QED
    BY <2>1, StoreIsStore, EntriesAre
<1>2. AreEntries(log)
  BY EntriesAre DEF Typed
<1> QED
  BY <1>1, <1>2 DEF Typed, TypeOK

\* No operation, whatever has happened to what it refers to, makes of a store of tasks,
\* projects and tags anything else, on any device.
THEOREM RelationsTypeCorrect == Spec => []TypeOK
<1>1. Init => Typed /\ Born
  BY InitTyped
<1>2. Typed /\ Born /\ [Next]_vars => Typed' /\ Born'
  BY NextTyped
<1>3. Typed => TypeOK
  BY TypedOK
<1> QED
  BY <1>1, <1>2, <1>3, PTL DEF Spec

-----------------------------------------------------------------------------
(* What a repair keeps *)

\* A store with the four parts, whatever these are.
Holding(tasks, archive, lists, tagged) == [tasks : {tasks}, archive : {archive}, lists : {lists}, tagged : {tagged}]
Whole(s) == s \in Holding(s.tasks, s.archive, s.lists, s.tagged)

\* A step that leaves a store whole, with the tasks that it had.
KeepsTasks(s, r) == Whole(r) /\ Everywhere(r) = Everywhere(s)

LEMMA KeepsByDomains ==
  ASSUME NEW s, NEW r, NEW X, NEW A, NEW L, NEW G, r \in Holding(X, A, L, G),
         DOMAIN X \union DOMAIN A = DOMAIN s.tasks \union DOMAIN s.archive
  PROVE  KeepsTasks(s, r)
<1>1. r.tasks = X /\ r.archive = A /\ r.lists = L /\ r.tagged = G
  BY DEF Holding
<1> QED
  BY <1>1 DEF KeepsTasks, Whole, Everywhere

LEMMA RestoreListedKeeps ==
  ASSUME NEW s, Whole(s)
  PROVE  KeepsTasks(s, RestoreListed(s))
<1> DEFINE back == (UNION {s.lists[p] : p \in DOMAIN s.lists}) \intersect DOMAIN s.archive
           X == WithMany(Restrict(s.archive, back), s.tasks)
           A == Without(s.archive, back)
           L == [p \in DOMAIN s.lists |-> s.lists[p] \intersect (DOMAIN s.tasks \union DOMAIN s.archive)]
           G == [g \in DOMAIN s.tagged |-> s.tagged[g] \intersect DOMAIN s.tasks]
<1>1. RestoreListed(s) = [s EXCEPT !.tasks = X, !.lists = L, !.tagged = G, !.archive = A]
  BY DEF RestoreListed
<1>2. back \subseteq DOMAIN s.archive
  OBVIOUS
<1> HIDE DEF back
<1>3. DOMAIN X = back \union DOMAIN s.tasks /\ DOMAIN A = DOMAIN s.archive \ back
  BY DEF WithMany, Without, Restrict
<1> HIDE DEF X, A, L, G
<1>4. RestoreListed(s) \in Holding(X, A, L, G)
  BY <1>1 DEF Whole, Holding
<1> QED
  BY <1>2, <1>3, <1>4, KeepsByDomains

LEMMA AddOrphanedKeeps ==
  ASSUME NEW s, Whole(s)
  PROVE  KeepsTasks(s, AddOrphanedToLists(s))
<1> DEFINE listed == UNION {s.lists[p] : p \in DOMAIN s.lists}
           orphans == {t \in DOMAIN s.tasks \ listed : s.tasks[t].parent = None}
           L == [p \in DOMAIN s.lists |-> s.lists[p] \union {t \in orphans : s.tasks[t].project = p}]
<1>1. AddOrphanedToLists(s) = [s EXCEPT !.lists = L]
  BY DEF AddOrphanedToLists
<1> HIDE DEF L
<1>2. AddOrphanedToLists(s) \in Holding(s.tasks, s.archive, L, s.tagged)
  BY <1>1 DEF Whole, Holding
<1> QED
  BY <1>2, KeepsByDomains

LEMMA ReunitedDomains ==
  ASSUME NEW from, NEW to
  PROVE  LET lost == Orphans(from, DOMAIN from)
         IN  DOMAIN Released(from, to, lost) \union DOMAIN Adopted(from, to, lost) = DOMAIN from \union DOMAIN to
<1> DEFINE lost == Orphans(from, DOMAIN from)
           moved == {t \in lost \ DOMAIN to : from[t].parent \in DOMAIN to}
           kept == (DOMAIN from \ lost) \union {t \in lost \ DOMAIN to : from[t].parent \notin DOMAIN to}
<1>1. lost \subseteq DOMAIN from
  BY DEF Orphans
<1>2. DOMAIN Released(from, to, lost) = kept
  BY DEF Released
<1>3. DOMAIN Adopted(from, to, lost) = DOMAIN to \union moved
  BY DEF Adopted, WithMany, Restrict
<1> HIDE DEF lost
<1>4. kept \union (DOMAIN to \union moved) = DOMAIN from \union DOMAIN to
  BY <1>1
<1> QED
  BY <1>2, <1>3, <1>4 DEF lost

LEMMA ReuniteArchivedKeeps ==
  ASSUME NEW s, Whole(s)
  PROVE  KeepsTasks(s, ReuniteArchived(s))
<1> DEFINE lost == Orphans(s.archive, DOMAIN s.archive)
           A == Released(s.archive, s.tasks, lost)
           X == Adopted(s.archive, s.tasks, lost)
<1>1. ReuniteArchived(s) = [s EXCEPT !.archive = A, !.tasks = X]
  BY DEF ReuniteArchived
<1>2. DOMAIN A \union DOMAIN X = DOMAIN s.archive \union DOMAIN s.tasks
  BY ReunitedDomains
<1> HIDE DEF X, A, lost
<1>3. ReuniteArchived(s) \in Holding(X, A, s.lists, s.tagged)
  BY <1>1 DEF Whole, Holding
<1>4. DOMAIN X \union DOMAIN A = DOMAIN s.tasks \union DOMAIN s.archive
  BY <1>2
<1> QED
  BY <1>3, <1>4, KeepsByDomains

LEMMA ReuniteUnarchivedKeeps ==
  ASSUME NEW s, Whole(s)
  PROVE  KeepsTasks(s, ReuniteUnarchived(s))
<1> DEFINE lost == Orphans(s.tasks, DOMAIN s.tasks)
           X == Released(s.tasks, s.archive, lost)
           A == Adopted(s.tasks, s.archive, lost)
<1>1. ReuniteUnarchived(s) = [s EXCEPT !.tasks = X, !.archive = A]
  BY DEF ReuniteUnarchived
<1>2. DOMAIN X \union DOMAIN A = DOMAIN s.tasks \union DOMAIN s.archive
  BY ReunitedDomains
<1> HIDE DEF X, A, lost
<1>3. ReuniteUnarchived(s) \in Holding(X, A, s.lists, s.tagged)
  BY <1>1 DEF Whole, Holding
<1> QED
  BY <1>2, <1>3, KeepsByDomains

LEMMA CleanListsKeeps ==
  ASSUME NEW s, Whole(s)
  PROVE  KeepsTasks(s, CleanLists(s))
<1> DEFINE L == [p \in DOMAIN s.lists |-> {t \in s.lists[p] \intersect DOMAIN s.tasks : s.tasks[t].project = p}]
           G == [g \in DOMAIN s.tagged |-> s.tagged[g] \intersect DOMAIN s.tasks]
<1>1. CleanLists(s) = [s EXCEPT !.lists = L, !.tagged = G]
  BY DEF CleanLists
<1> HIDE DEF L, G
<1>2. CleanLists(s) \in Holding(s.tasks, s.archive, L, G)
  BY <1>1 DEF Whole, Holding
<1> QED
  BY <1>2, KeepsByDomains

\* A step that changes tasks and archived tasks one by one.
LEMMA OneByOneKeeps ==
  ASSUME NEW s, Whole(s), NEW X, NEW A, DOMAIN X = DOMAIN s.tasks, DOMAIN A = DOMAIN s.archive
  PROVE  KeepsTasks(s, [s EXCEPT !.tasks = X, !.archive = A])
<1>1. [s EXCEPT !.tasks = X, !.archive = A] \in Holding(X, A, s.lists, s.tagged)
  BY DEF Whole, Holding
<1> QED
  BY <1>1, KeepsByDomains

LEMMA TasksOneByOneKeep ==
  ASSUME NEW s, Whole(s), NEW X, DOMAIN X = DOMAIN s.tasks
  PROVE  KeepsTasks(s, [s EXCEPT !.tasks = X])
<1>1. [s EXCEPT !.tasks = X] \in Holding(X, s.archive, s.lists, s.tagged)
  BY DEF Whole, Holding
<1> QED
  BY <1>1, KeepsByDomains

LEMMA SingleKeeps ==
  ASSUME NEW s, Whole(s)
  PROVE  KeepsTasks(s, [s EXCEPT !.archive = Without(s.archive, DOMAIN s.tasks)])
<1> DEFINE A == Without(s.archive, DOMAIN s.tasks)
<1>1. DOMAIN A = DOMAIN s.archive \ DOMAIN s.tasks
  BY DEF Without, Restrict
<1> HIDE DEF A
<1>2. [s EXCEPT !.archive = A] \in Holding(s.tasks, A, s.lists, s.tagged)
  BY DEF Whole, Holding
<1>3. KeepsTasks(s, [s EXCEPT !.archive = A])
  BY <1>1, <1>2, KeepsByDomains
<1> QED
  BY <1>3 DEF A

LEMMA KeepsFollowed ==
  ASSUME NEW r, NEW s, NEW w, KeepsTasks(r, s), KeepsTasks(s, w)
  PROVE  KeepsTasks(r, w)
BY DEF KeepsTasks

LEMMA RepairedKeeps ==
  ASSUME NEW s, Whole(s)
  PROVE  KeepsTasks(s, Repaired(s))
<1> DEFINE s1 == RestoreListed(s)
           s2 == AddOrphanedToLists(s1)
           s3 == ReuniteArchived(s2)
           s4 == ReuniteUnarchived(s3)
           s5 == [s4 EXCEPT !.tasks = WithoutMissingSubs(s4.tasks), !.archive = WithoutMissingSubs(s4.archive)]
           s6 == CleanLists(s5)
           s7 == TagAsListed(s6)
           s8 == [s7 EXCEPT !.tasks = InParentsProject(s7.tasks), !.archive = InParentsProject(s7.archive)]
           s9 == [s8 EXCEPT !.archive = Without(s8.archive, DOMAIN s8.tasks)]
           s10 == WithoutMissingRefs(s9)
<1>1. Repaired(s) = s10
  BY DEF Repaired
<1>2. KeepsTasks(s, s1)
  BY RestoreListedKeeps
<1> HIDE DEF s1
<1>3. KeepsTasks(s, s2)
  BY <1>2, AddOrphanedKeeps, KeepsFollowed DEF KeepsTasks
<1> HIDE DEF s2
<1>4. KeepsTasks(s, s3)
  BY <1>3, ReuniteArchivedKeeps, KeepsFollowed DEF KeepsTasks
<1> HIDE DEF s3
<1>5. KeepsTasks(s, s4)
  BY <1>4, ReuniteUnarchivedKeeps, KeepsFollowed DEF KeepsTasks
<1> HIDE DEF s4
<1>6. KeepsTasks(s, s5)
  <2> DEFINE X == WithoutMissingSubs(s4.tasks)
             A == WithoutMissingSubs(s4.archive)
  <2>1. DOMAIN X = DOMAIN s4.tasks /\ DOMAIN A = DOMAIN s4.archive
    BY DEF WithoutMissingSubs
  <2> HIDE DEF X, A
  <2>2. KeepsTasks(s4, [s4 EXCEPT !.tasks = X, !.archive = A])
    BY <1>5, <2>1, OneByOneKeeps DEF KeepsTasks
  <2> QED
    BY <1>5, <2>2, KeepsFollowed DEF X, A
<1> HIDE DEF s5
<1>7. KeepsTasks(s, s6)
  BY <1>6, CleanListsKeeps, KeepsFollowed DEF KeepsTasks
<1> HIDE DEF s6
<1>8. KeepsTasks(s, s7)
  <2> DEFINE listing(t) == {g \in DOMAIN s6.tagged : t \in s6.tagged[g]}
             X == [t \in DOMAIN s6.tasks |-> [s6.tasks[t] EXCEPT !.tags = s6.tasks[t].tags \union listing(t)]]
  <2>1. s7 = [s6 EXCEPT !.tasks = X] /\ DOMAIN X = DOMAIN s6.tasks
    BY DEF TagAsListed
  <2> HIDE DEF X
  <2>2. KeepsTasks(s6, s7)
    BY <1>7, <2>1, TasksOneByOneKeep DEF KeepsTasks
  <2> QED
    BY <1>7, <2>2, KeepsFollowed
<1> HIDE DEF s7
<1>9. KeepsTasks(s, s8)
  <2> DEFINE X == InParentsProject(s7.tasks)
             A == InParentsProject(s7.archive)
  <2>1. DOMAIN X = DOMAIN s7.tasks /\ DOMAIN A = DOMAIN s7.archive
    BY DEF InParentsProject
  <2> HIDE DEF X, A
  <2>2. KeepsTasks(s7, [s7 EXCEPT !.tasks = X, !.archive = A])
    BY <1>8, <2>1, OneByOneKeeps DEF KeepsTasks
  <2> QED
    BY <1>8, <2>2, KeepsFollowed DEF X, A
<1> HIDE DEF s8
<1>10. KeepsTasks(s, s9)
  BY <1>9, SingleKeeps, KeepsFollowed DEF KeepsTasks
<1> HIDE DEF s9
<1>11. KeepsTasks(s, s10)
  <2> DEFINE X == [t \in DOMAIN s9.tasks |-> Normalized(s9.tasks[t], s9)]
  <2>1. s10 = [s9 EXCEPT !.tasks = X] /\ DOMAIN X = DOMAIN s9.tasks
    BY DEF WithoutMissingRefs
  <2> HIDE DEF X, s10
  <2>2. KeepsTasks(s9, s10)
    BY <1>10, <2>1, TasksOneByOneKeep DEF KeepsTasks
  <2> QED
    BY <1>10, <2>2, KeepsFollowed
<1> QED
  BY <1>1, <1>11

\* A repair of any store, whatever it holds, loses no task and makes none up.
THEOREM RepairsLoseNoTask == Spec => []RepairLosesNoTask
<1>1. Typed => RepairLosesNoTask
  <2> SUFFICES ASSUME Typed, NEW d \in Devices
               PROVE  Everywhere(Repaired(store[d])) = Everywhere(store[d])
    BY DEF RepairLosesNoTask
  <2>1. store[d] \in Store
    BY DEF Typed
  <2>2. Whole(store[d])
    BY <2>1 DEF Store, Whole, Holding
  <2> QED
    BY <2>2, RepairedKeeps DEF KeepsTasks
<1>2. Init => Typed /\ Born
  BY InitTyped
<1>3. Typed /\ Born /\ [Next]_vars => Typed' /\ Born'
  BY NextTyped
<1> QED
  BY <1>1, <1>2, <1>3, PTL DEF Spec

-----------------------------------------------------------------------------
(* Families of tasks after the reducers *)

LEMMA NoneNoTask ==
  ASSUME NEW f \in ById(Tasks, Task)
  PROVE  DOMAIN f \subseteq Tasks /\ None \notin DOMAIN f
BY MapFacts, NoneAssumption

LEMMA SameKin ==
  ASSUME NEW f, NEW g, Families(f), DOMAIN g = DOMAIN f,
         \A x \in DOMAIN f : g[x].parent = f[x].parent /\ g[x].project = f[x].project /\ g[x].subs = f[x].subs
  PROVE  Families(g)
<1>1. ASSUME NEW x \in DOMAIN f
      PROVE  Kin(g, x)
  <2>1. Kin(f, x)
    BY DEF Families
  <2> QED
    BY <2>1 DEF Kin
<1> QED
  BY <1>1 DEF Families

\* A new main task.
LEMMA FamiliesWithMain ==
  ASSUME NEW f \in ById(Tasks, Task), Families(f), NEW t \in Tasks, t \notin DOMAIN f, NEW g,
         DOMAIN g = DOMAIN f \union {t}, \A x \in DOMAIN f : g[x] = f[x], g[t].parent = None, g[t].subs = {}
  PROVE  Families(g)
<1>1. None \notin DOMAIN f /\ t # None
  BY NoneNoTask, NoneAssumption
<1>2. ASSUME NEW x \in DOMAIN f
      PROVE  Kin(g, x)
  <2>1. Kin(f, x)
    BY DEF Families
  <2> QED
    BY <1>1, <2>1 DEF Kin
<1>3. Kin(g, t)
  <2>1. \A x \in DOMAIN f : f[x].parent # t
    BY <1>1 DEF Families, Kin
  <2> QED
    BY <1>1, <2>1 DEF Kin
<1> QED
  BY <1>2, <1>3 DEF Families

\* A new subtask of p.
LEMMA FamiliesWithSub ==
  ASSUME NEW f \in ById(Tasks, Task), Families(f), NEW t \in Tasks, t \notin DOMAIN f,
         NEW p \in DOMAIN f, f[p].parent = None, NEW g,
         DOMAIN g = DOMAIN f \union {t},
         \A x \in DOMAIN f : /\ g[x].parent = f[x].parent /\ g[x].project = f[x].project
                             /\ g[x].subs = IF x = p THEN f[x].subs \union {t} ELSE f[x].subs,
         g[t].parent = p, g[t].project = f[p].project, g[t].subs = {}
  PROVE  Families(g)
<1>1. None \notin DOMAIN f /\ t # None /\ t # p
  BY NoneNoTask, NoneAssumption
<1>2. ASSUME NEW x \in DOMAIN f
      PROVE  Kin(g, x)
  <2>1. Kin(f, x)
    BY DEF Families
  <2>2. g[x].subs \subseteq DOMAIN g
    BY <2>1 DEF Kin
  <2>3. ASSUME NEW y \in DOMAIN f
        PROVE  y \in g[x].subs <=> g[y].parent = x
    <3>1. (y \in f[x].subs <=> f[y].parent = x) /\ g[y].parent = f[y].parent /\ y # t
      BY <2>1 DEF Kin
    <3>2. g[x].subs = f[x].subs \union {t} \/ g[x].subs = f[x].subs
      OBVIOUS
    <3> QED
      BY <3>1, <3>2
  <2>4. t \in g[x].subs <=> g[t].parent = x
    BY <2>1 DEF Kin
  <2>5. /\ g[x].parent \in DOMAIN g \union {None}
        /\ g[x].parent # None => g[g[x].parent].parent = None /\ g[x].project = g[g[x].parent].project
    BY <2>1 DEF Kin
  <2> QED
    BY <2>2, <2>3, <2>4, <2>5 DEF Kin
<1>3. Kin(g, t)
  <2>1. \A x \in DOMAIN f : f[x].parent # t
    BY <1>1 DEF Families, Kin
  <2> QED
    BY <1>1, <2>1 DEF Kin
<1> QED
  BY <1>2, <1>3 DEF Families

\* A subtask leaves its parent.
LEMMA FamiliesFreed ==
  ASSUME NEW f \in ById(Tasks, Task), Families(f), NEW t \in DOMAIN f, NEW p \in DOMAIN f, f[t].parent = p, NEW g,
         DOMAIN g = DOMAIN f,
         \A x \in DOMAIN f : /\ g[x].parent = IF x = t THEN None ELSE f[x].parent
                             /\ g[x].project = f[x].project
                             /\ g[x].subs = IF x = p THEN f[x].subs \ {t} ELSE f[x].subs
  PROVE  Families(g)
<1>1. None \notin DOMAIN f
  BY NoneNoTask
<1>2. ASSUME NEW x \in DOMAIN f
      PROVE  Kin(g, x)
  <2>1. Kin(f, x) /\ Kin(f, t)
    BY DEF Families
  <2>2. g[x].subs \subseteq DOMAIN g
    BY <2>1 DEF Kin
  <2>3. ASSUME NEW y \in DOMAIN f
        PROVE  y \in g[x].subs <=> g[y].parent = x
    <3>1. y \in f[x].subs <=> f[y].parent = x
      BY <2>1 DEF Kin
    <3>2. CASE y = t
      <4>1. g[y].parent = None /\ x # None
        BY <1>1, <3>2
      <4>2. y \in g[x].subs => x # p /\ y \in f[x].subs
        BY <3>2
      <4> QED
        BY <3>1, <3>2, <4>1, <4>2
    <3>3. CASE y # t
      <4>1. g[y].parent = f[y].parent
        BY <3>3
      <4>2. y \in g[x].subs <=> y \in f[x].subs
        BY <3>3
      <4> QED
        BY <3>1, <4>1, <4>2
    <3> QED
      BY <3>2, <3>3
  <2>4. g[x].parent \in DOMAIN g \union {None}
    BY <2>1 DEF Kin
  <2>5. ASSUME g[x].parent # None
        PROVE  g[g[x].parent].parent = None /\ g[x].project = g[g[x].parent].project
    <3> DEFINE w == f[x].parent
    <3>1. x # t /\ g[x].parent = w /\ w # None
      BY <2>5
    <3>2. w \in DOMAIN f /\ f[w].parent = None /\ f[x].project = f[w].project
      BY <2>1, <3>1 DEF Kin
    <3> HIDE DEF w
    <3>3. g[w].parent = None /\ g[w].project = f[w].project /\ g[x].project = f[x].project
      BY <3>2
    <3> QED
      BY <3>1, <3>2, <3>3
  <2> QED
    BY <2>2, <2>3, <2>4, <2>5 DEF Kin
<1> QED
  BY <1>2 DEF Families

\* A main task without subtasks goes under another one.
LEMMA FamiliesBound ==
  ASSUME NEW f \in ById(Tasks, Task), Families(f), NEW t \in DOMAIN f, NEW p \in DOMAIN f, t # p,
         f[t].parent = None, f[p].parent = None, f[t].subs = {}, NEW g,
         DOMAIN g = DOMAIN f,
         \A x \in DOMAIN f : /\ g[x].parent = IF x = t THEN p ELSE f[x].parent
                             /\ g[x].project = IF x = t THEN f[p].project ELSE f[x].project
                             /\ g[x].subs = IF x = p THEN f[x].subs \union {t} ELSE f[x].subs
  PROVE  Families(g)
<1>1. None \notin DOMAIN f
  BY NoneNoTask
<1>2. \A x \in DOMAIN f : f[x].parent # t
  <2>1. Kin(f, t)
    BY DEF Families
  <2> QED
    BY <2>1 DEF Kin
<1>3. ASSUME NEW x \in DOMAIN f
      PROVE  Kin(g, x)
  <2>1. Kin(f, x)
    BY DEF Families
  <2>2. g[x].subs \subseteq DOMAIN g
    BY <2>1 DEF Kin
  <2>3. ASSUME NEW y \in DOMAIN f
        PROVE  y \in g[x].subs <=> g[y].parent = x
    <3>1. y \in f[x].subs <=> f[y].parent = x
      BY <2>1 DEF Kin
    <3> QED
      BY <1>1, <3>1
  <2>4. g[x].parent \in DOMAIN g \union {None}
    BY <2>1 DEF Kin
  <2>5. ASSUME g[x].parent # None
        PROVE  g[g[x].parent].parent = None /\ g[x].project = g[g[x].parent].project
    <3>1. CASE x = t
      BY <3>1
    <3>2. CASE x # t
      <4> DEFINE w == f[x].parent
      <4>1. g[x].parent = w /\ w # None
        BY <2>5, <3>2
      <4>2. w \in DOMAIN f /\ f[w].parent = None /\ f[x].project = f[w].project /\ w # t
        BY <1>2, <2>1, <4>1 DEF Kin
      <4> HIDE DEF w
      <4>3. g[w].parent = None /\ g[w].project = f[w].project /\ g[x].project = f[x].project
        BY <3>2, <4>2
      <4> QED
        BY <4>1, <4>2, <4>3
    <3> QED
      BY <3>1, <3>2
  <2> QED
    BY <2>2, <2>3, <2>4, <2>5 DEF Kin
<1> QED
  BY <1>3 DEF Families

\* A subtask goes from one parent to another.
LEMMA FamiliesMoved ==
  ASSUME NEW f \in ById(Tasks, Task), Families(f), NEW t \in DOMAIN f, NEW p \in DOMAIN f, NEW q \in DOMAIN f,
         f[t].parent = p, q # p, f[q].parent = None, NEW g, Moves(f, g, t, p, q)
  PROVE  Families(g)
<1>0. /\ DOMAIN g = DOMAIN f
      /\ \A x \in DOMAIN f :
           /\ g[x].parent = IF x = t THEN q ELSE f[x].parent
           /\ g[x].project = IF x = t THEN f[q].project ELSE f[x].project
           /\ g[x].tags = f[x].tags
           /\ x = q => g[x].subs = f[x].subs \union {t}
           /\ x # q => g[x].subs = IF x = p THEN f[x].subs \ {t} ELSE f[x].subs
  BY DEF Moves
<1> USE <1>0
<1>1. None \notin DOMAIN f /\ t # q
  BY NoneNoTask
<1>2. \A x \in DOMAIN f : f[x].parent # t
  <2>1. ASSUME NEW x \in DOMAIN f, f[x].parent = t
        PROVE  FALSE
    <3>1. f[t].parent = None
      BY <1>1, <2>1 DEF Families, Kin
    <3> QED
      BY <1>1, <3>1
  <2> QED
    BY <2>1
<1>3. ASSUME NEW x \in DOMAIN f
      PROVE  Kin(g, x)
  <2>1. Kin(f, x)
    BY DEF Families
  <2>2. g[x].subs \subseteq DOMAIN g
    <3>1. f[x].subs \subseteq DOMAIN f
      BY <2>1 DEF Kin
    <3>2. g[x].subs = f[x].subs \union {t} \/ g[x].subs = f[x].subs \ {t} \/ g[x].subs = f[x].subs
      OBVIOUS
    <3> QED
      BY <3>1, <3>2
  <2>3. ASSUME NEW y \in DOMAIN f
        PROVE  y \in g[x].subs <=> g[y].parent = x
    <3>1. y \in f[x].subs <=> f[y].parent = x
      BY <2>1 DEF Kin
    <3>2. CASE y = t
      <4>1. g[y].parent = q
        BY <3>2
      <4>2. CASE x = q
        <5>1. g[x].subs = f[x].subs \union {t}
          BY <4>2
        <5> QED
          BY <3>2, <4>1, <4>2, <5>1
      <4>3. CASE x # q
        <5>1. y \in g[x].subs => x # p /\ y \in f[x].subs
          BY <3>2, <4>3
        <5> QED
          BY <3>1, <3>2, <4>1, <4>3, <5>1
      <4> QED
        BY <4>2, <4>3
    <3>3. CASE y # t
      <4>1. g[y].parent = f[y].parent
        BY <3>3
      <4>2. g[x].subs = f[x].subs \union {t} \/ g[x].subs = f[x].subs \ {t} \/ g[x].subs = f[x].subs
        OBVIOUS
      <4> QED
        BY <3>1, <3>3, <4>1, <4>2
    <3> QED
      BY <3>2, <3>3
  <2>4. g[x].parent \in DOMAIN g \union {None}
    BY <2>1 DEF Kin
  <2>5. ASSUME g[x].parent # None
        PROVE  g[g[x].parent].parent = None /\ g[x].project = g[g[x].parent].project
    <3>1. CASE x = t
      BY <1>1, <3>1
    <3>2. CASE x # t
      <4> DEFINE w == f[x].parent
      <4>1. g[x].parent = w /\ w # None
        BY <2>5, <3>2
      <4>2. w \in DOMAIN f /\ f[w].parent = None /\ f[x].project = f[w].project /\ w # t
        BY <1>2, <2>1, <4>1 DEF Kin
      <4> HIDE DEF w
      <4>3. g[w].parent = None /\ g[w].project = f[w].project /\ g[x].project = f[x].project
        BY <3>2, <4>2
      <4> QED
        BY <4>1, <4>2, <4>3
    <3> QED
      BY <3>1, <3>2
  <2> QED
    BY <2>2, <2>3, <2>4, <2>5 DEF Kin
<1> QED
  BY <1>3 DEF Families

\* A main task goes to another project with its subtasks.
LEMMA FamiliesPlaced ==
  ASSUME NEW f \in ById(Tasks, Task), Families(f), NEW t \in DOMAIN f, f[t].parent = None, NEW p, NEW g,
         Places(f, g, {t} \union f[t].subs, p)
  PROVE  Families(g)
<1>0. /\ DOMAIN g = DOMAIN f
      /\ \A x \in DOMAIN f : /\ g[x].parent = f[x].parent /\ g[x].subs = f[x].subs
                             /\ g[x].project = IF x \in {t} \union f[t].subs THEN p ELSE f[x].project
  BY DEF Places
<1> USE <1>0
<1>1. None \notin DOMAIN f /\ Kin(f, t)
  BY NoneNoTask DEF Families
<1>2. ASSUME NEW x \in DOMAIN f
      PROVE  Kin(g, x)
  <2>1. Kin(f, x)
    BY DEF Families
  <2>2. ASSUME f[x].parent # None
        PROVE  g[x].project = g[f[x].parent].project
    <3> DEFINE q == f[x].parent
    <3>1. q \in DOMAIN f /\ f[q].parent = None /\ f[x].project = f[q].project
      BY <2>1, <2>2 DEF Kin
    <3>2. q \notin f[t].subs
      BY <1>1, <3>1 DEF Kin
    <3>3. x \in {t} \union f[t].subs <=> q = t
      BY <1>1, <2>2 DEF Kin
    <3> HIDE DEF q
    <3>4. CASE q = t
      <4>1. g[x].project = p
        BY <3>3, <3>4
      <4>2. g[q].project = p
        BY <3>1, <3>4
      <4> QED
        BY <4>1, <4>2 DEF q
    <3>5. CASE q # t
      <4>1. g[x].project = f[x].project
        BY <3>3, <3>5
      <4>2. g[q].project = f[q].project
        BY <3>1, <3>2, <3>5
      <4> QED
        BY <3>1, <4>1, <4>2 DEF q
    <3> QED
      BY <3>4, <3>5
  <2> QED
    BY <2>1, <2>2 DEF Kin
<1> QED
  BY <1>2 DEF Families

\* A task goes, with its subtasks.
LEMMA FamiliesReduced ==
  ASSUME NEW f \in ById(Tasks, Task), Families(f), NEW t \in DOMAIN f, NEW g,
         Drops(f, g, t, f[t].parent, {t} \union f[t].subs)
  PROVE  Families(g)
<1>0. /\ DOMAIN g = DOMAIN f \ ({t} \union f[t].subs)
      /\ \A x \in DOMAIN g : /\ g[x].parent = f[x].parent /\ g[x].project = f[x].project
                             /\ g[x].subs = IF x = f[t].parent THEN f[x].subs \ {t} ELSE f[x].subs
  BY DEF Drops
<1> USE <1>0
<1>1. None \notin DOMAIN f /\ Kin(f, t)
  BY NoneNoTask DEF Families
<1>2. ASSUME NEW x \in DOMAIN g
      PROVE  Kin(g, x)
  <2>1. Kin(f, x) /\ x \in DOMAIN f /\ x # t /\ f[x].parent # t
    BY <1>1 DEF Families, Kin
  <2>2. ASSUME f[x].parent # None
        PROVE  f[x].parent \in DOMAIN g
    <3> DEFINE q == f[x].parent
    <3>1. q \in DOMAIN f /\ f[q].parent = None
      BY <2>1, <2>2 DEF Kin
    <3>2. q \notin f[t].subs
      BY <1>1, <3>1 DEF Kin
    <3> QED
      BY <2>1, <3>1, <3>2
  <2>3. /\ g[x].parent \in DOMAIN g \union {None}
        /\ g[x].parent # None => g[g[x].parent].parent = None /\ g[x].project = g[g[x].parent].project
    BY <2>1, <2>2 DEF Kin
  <2>4. ASSUME NEW y \in g[x].subs
        PROVE  y \in DOMAIN g
    <3>1. y \in f[x].subs /\ y \in DOMAIN f /\ f[y].parent = x
      BY <2>1, <2>4 DEF Kin
    <3>2. y # t
      BY <2>4, <3>1
    <3>3. y \notin f[t].subs
      BY <1>1, <2>1, <3>1 DEF Kin
    <3> QED
      BY <3>1, <3>2, <3>3
  <2>5. ASSUME NEW y \in DOMAIN g
        PROVE  y \in g[x].subs <=> g[y].parent = x
    <3>1. y \in DOMAIN f /\ y # t
      OBVIOUS
    <3>2. y \in f[x].subs <=> f[y].parent = x
      BY <2>1, <3>1 DEF Kin
    <3> QED
      BY <3>1, <3>2
  <2> QED
    BY <2>3, <2>4, <2>5 DEF Kin
<1> QED
  BY <1>2 DEF Families

\* Two sets of families side by side.
LEMMA FamiliesJoined ==
  ASSUME NEW f \in ById(Tasks, Task), Families(f), NEW h \in ById(Tasks, Task), Families(h),
         DOMAIN f \intersect DOMAIN h = {}
  PROVE  Families(WithMany(f, h))
<1> DEFINE g == WithMany(f, h)
<1>1. /\ DOMAIN g = DOMAIN f \union DOMAIN h
      /\ \A x \in DOMAIN f : g[x] = f[x]
      /\ \A x \in DOMAIN h : g[x] = h[x]
  BY DEF WithMany
<1> HIDE DEF g
<1>2. None \notin DOMAIN f /\ None \notin DOMAIN h
  BY NoneNoTask
<1>3. ASSUME NEW x \in DOMAIN f
      PROVE  Kin(g, x)
  <2>1. Kin(f, x)
    BY DEF Families
  <2>2. \A y \in DOMAIN h : y \notin f[x].subs /\ h[y].parent # x
    BY <1>2, <2>1 DEF Kin, Families
  <2> QED
    BY <1>1, <1>2, <2>1, <2>2 DEF Kin
<1>4. ASSUME NEW x \in DOMAIN h
      PROVE  Kin(g, x)
  <2>1. Kin(h, x)
    BY DEF Families
  <2>2. \A y \in DOMAIN f : y \notin h[x].subs /\ f[y].parent # x
    BY <1>2, <2>1 DEF Kin, Families
  <2> QED
    BY <1>1, <1>2, <2>1, <2>2 DEF Kin
<1> QED
  BY <1>1, <1>3, <1>4 DEF Families, g

-----------------------------------------------------------------------------
(* The operations that are made of a sound store leave it sound *)

LEMMA SoundParts ==
  ASSUME NEW s, Sound(s)
  PROVE  /\ s \in Store
         /\ s.tasks \in ById(Tasks, Task) /\ DOMAIN s.tasks \subseteq Tasks /\ None \notin DOMAIN s.tasks
         /\ s.archive \in ById(Tasks, Task) /\ DOMAIN s.archive \subseteq Tasks /\ None \notin DOMAIN s.archive
         /\ s.lists \in ById(Projects, SUBSET Tasks) /\ DOMAIN s.lists \subseteq Projects
         /\ s.tagged \in ById(Tags, SUBSET Tasks) /\ DOMAIN s.tagged \subseteq Tags
         /\ Families(s.tasks) /\ Families(s.archive)
         /\ DOMAIN s.tasks \intersect DOMAIN s.archive = {}
         /\ INBOX \in DOMAIN s.lists
<1>1. s \in Store
  BY DEF Sound
<1>2. /\ s.tasks \in ById(Tasks, Task) /\ s.archive \in ById(Tasks, Task)
      /\ s.lists \in ById(Projects, SUBSET Tasks) /\ s.tagged \in ById(Tags, SUBSET Tasks)
  BY <1>1, StoreParts
<1>3. DOMAIN s.lists \subseteq Projects /\ DOMAIN s.tagged \subseteq Tags
  BY <1>2, MapFacts
<1>4. DOMAIN s.tasks \subseteq Tasks /\ None \notin DOMAIN s.tasks
  BY <1>2, NoneNoTask
<1>5. DOMAIN s.archive \subseteq Tasks /\ None \notin DOMAIN s.archive
  BY <1>2, NoneNoTask
<1> QED
  BY <1>1, <1>2, <1>3, <1>4, <1>5 DEF Sound, Apart

\* What a sound store has, task by task.
IsListed(s, x, l) == x \in DOMAIN s.tasks /\ s.tasks[x].parent = None /\ s.tasks[x].project = l

LEMMA SoundLists ==
  ASSUME NEW s, Sound(s)
  PROVE  /\ \A x \in DOMAIN s.tasks : s.tasks[x].project \in DOMAIN s.lists
         /\ \A l \in DOMAIN s.lists : \A x : x \in s.lists[l] <=> IsListed(s, x, l)
BY DEF Sound, ListsFit, IsListed

LEMMA SoundTags ==
  ASSUME NEW s, Sound(s)
  PROVE  /\ \A x \in DOMAIN s.tasks : \A g \in s.tasks[x].tags : g \in DOMAIN s.tagged /\ x \in s.tagged[g]
         /\ \A g \in DOMAIN s.tagged : \A x \in s.tagged[g] : x \in DOMAIN s.tasks
BY DEF Sound, TagsFit

LEMMA SoundBy ==
  ASSUME NEW r \in Store, Families(r.tasks), Families(r.archive), Apart(r), INBOX \in DOMAIN r.lists,
         \A x \in DOMAIN r.tasks : r.tasks[x].project \in DOMAIN r.lists,
         \A l \in DOMAIN r.lists : \A x : x \in r.lists[l] <=> IsListed(r, x, l),
         \A x \in DOMAIN r.tasks : \A g \in r.tasks[x].tags : g \in DOMAIN r.tagged /\ x \in r.tagged[g],
         \A g \in DOMAIN r.tagged : \A x \in r.tagged[g] : x \in DOMAIN r.tasks
  PROVE  Sound(r)
<1>1. ListsFit(r.tasks, r.lists)
  BY DEF ListsFit, IsListed
<1>2. TagsFit(r.tasks, r.tagged)
  BY DEF TagsFit
<1> QED
  BY <1>1, <1>2 DEF Sound

LEMMA CreateTaskSound ==
  ASSUME NEW s, Sound(s), NEW op, ByCreateTask(op, s)
  PROVE  Sound(Reduced(op, s))
<1>1. PICK t \in Tasks \ Everywhere(s), p \in DOMAIN s.lists, tags \in SUBSET DOMAIN s.tagged :
         op = [kind |-> "addTask", task |-> t, project |-> p, tags |-> tags]
  BY DEF ByCreateTask
<1> DEFINE r == Reduced(op, s)
           new == [parent |-> None, project |-> p, tags |-> tags, subs |-> {}]
<1>2. op.kind = "addTask" /\ op.task = t /\ op.project = p /\ op.tags = tags
  BY <1>1
<1>3. s \in Store /\ p \in Projects /\ tags \in SUBSET Tags
  BY SoundParts
<1>4. t \notin DOMAIN s.tasks /\ t \notin DOMAIN s.archive
  BY DEF Everywhere
<1>5. /\ r \in Store /\ r.tasks = WithOne(s.tasks, t, new) /\ r.archive = s.archive
      /\ r.lists = Listed(s.lists, {p}, {t}) /\ r.tagged = Listed(s.tagged, tags, {t})
  <2>1. r = AddTask(op, s)
    BY <1>2, ReducedByKind
  <2> QED
    BY <1>2, <1>3, <2>1, AddTaskShape
<1> HIDE DEF r
<1>6. /\ DOMAIN r.tasks = DOMAIN s.tasks \union {t} /\ r.tasks[t] = new
      /\ \A x \in DOMAIN s.tasks : r.tasks[x] = s.tasks[x]
  BY <1>4, <1>5 DEF WithOne
<1>7. /\ DOMAIN r.lists = DOMAIN s.lists
      /\ \A l \in DOMAIN s.lists : r.lists[l] = IF l = p THEN s.lists[l] \union {t} ELSE s.lists[l]
  BY <1>5 DEF Listed
<1>8. /\ DOMAIN r.tagged = DOMAIN s.tagged
      /\ \A g \in DOMAIN s.tagged : r.tagged[g] = IF g \in tags THEN s.tagged[g] \union {t} ELSE s.tagged[g]
  BY <1>5 DEF Listed
<1>0. r.tasks[t].parent = None /\ r.tasks[t].project = p /\ r.tasks[t].tags = tags /\ r.tasks[t].subs = {}
  BY <1>6
<1> HIDE DEF new
<1>9. Families(r.tasks)
  <2>2. s.tasks \in ById(Tasks, Task) /\ Families(s.tasks)
    BY SoundParts
  <2> QED
    BY <1>0, <1>4, <1>6, <2>2, FamiliesWithMain
<1>10. Apart(r) /\ Families(r.archive) /\ INBOX \in DOMAIN r.lists
  BY <1>4, <1>5, <1>6, <1>7, SoundParts DEF Apart
<1>11. ASSUME NEW x \in DOMAIN r.tasks
       PROVE  r.tasks[x].project \in DOMAIN r.lists
  <2>1. CASE x = t
    BY <1>0, <1>7, <2>1
  <2>2. CASE x # t
    BY <1>6, <1>7, <2>2, SoundLists
  <2> QED
    BY <2>1, <2>2
<1>12. ASSUME NEW l \in DOMAIN r.lists, NEW x
       PROVE  x \in r.lists[l] <=> IsListed(r, x, l)
  <2>1. x \in s.lists[l] <=> IsListed(s, x, l)
    BY <1>7, SoundLists
  <2>2. CASE x = t
    <3>1. t \notin s.lists[l]
      BY <1>4, <2>1, <2>2 DEF IsListed
    <3>2. t \in r.lists[l] <=> l = p
      BY <1>7, <3>1
    <3> QED
      BY <1>0, <1>6, <2>2, <3>2 DEF IsListed
  <2>3. CASE x # t
    BY <1>6, <1>7, <2>1, <2>3 DEF IsListed
  <2> QED
    BY <2>2, <2>3
<1>13. ASSUME NEW x \in DOMAIN r.tasks, NEW g \in r.tasks[x].tags
       PROVE  g \in DOMAIN r.tagged /\ x \in r.tagged[g]
  <2>1. CASE x = t
    <3>1. g \in tags /\ g \in DOMAIN s.tagged
      BY <1>0, <2>1
    <3> QED
      BY <1>8, <2>1, <3>1
  <2>2. CASE x # t
    BY <1>6, <1>8, <2>2, SoundTags
  <2> QED
    BY <2>1, <2>2
<1>14. ASSUME NEW g \in DOMAIN r.tagged, NEW x \in r.tagged[g]
       PROVE  x \in DOMAIN r.tasks
  <2>1. x \in s.tagged[g] \union {t}
    BY <1>8
  <2> QED
    BY <1>6, <1>8, <2>1, SoundTags
<1>15. Sound(r)
  BY <1>5, <1>9, <1>10, <1>11, <1>12, <1>13, <1>14, SoundBy
<1> QED
  BY <1>15 DEF r

LEMMA CreateSubTaskSound ==
  ASSUME NEW s, Sound(s), NEW op, ByCreateSubTask(op, s)
  PROVE  Sound(Reduced(op, s))
<1>1. PICK t \in Tasks \ Everywhere(s), p \in MainsOf(s) : op = [kind |-> "addSubTask", task |-> t, parent |-> p]
  BY DEF ByCreateSubTask
<1> DEFINE r == Reduced(op, s)
           new == [parent |-> p, project |-> s.tasks[p].project, tags |-> {}, subs |-> {}]
           with == WithSub(s.tasks, p, t)
<1>2. op.kind = "addSubTask" /\ op.task = t /\ op.parent = p
  BY <1>1
<1>3. s \in Store /\ p \in DOMAIN s.tasks /\ s.tasks[p].parent = None /\ p # None
  BY SoundParts DEF MainsOf
<1>4. t \notin DOMAIN s.tasks /\ t \notin DOMAIN s.archive
  BY DEF Everywhere
<1>5. /\ r \in Store /\ r.tasks = WithOne(with, t, new) /\ r.archive = s.archive
      /\ r.lists = s.lists /\ r.tagged = s.tagged
  <2>1. r = AddSubTask(op, s)
    BY <1>2, ReducedByKind
  <2> QED
    BY <1>2, <1>3, <2>1, AddSubTaskShape
<1>6. /\ DOMAIN with = DOMAIN s.tasks
      /\ \A x \in DOMAIN s.tasks :
           /\ with[x].parent = s.tasks[x].parent /\ with[x].project = s.tasks[x].project
           /\ with[x].tags = s.tasks[x].tags
           /\ with[x].subs = IF x = p THEN s.tasks[x].subs \union {t} ELSE s.tasks[x].subs
  <2>1. s.tasks \in ById(Tasks, Task)
    BY SoundParts
  <2> DEFINE f == s.tasks
  <2>2. f \in ById(Tasks, Task)
    BY <2>1
  <2> HIDE DEF f
  <2>3. /\ DOMAIN WithSub(f, p, t) = DOMAIN f
        /\ \A x \in DOMAIN f :
              LET y == WithSub(f, p, t)[x]
              IN  /\ y.parent = f[x].parent /\ y.project = f[x].project /\ y.tags = f[x].tags
                  /\ y.subs = IF x = p THEN f[x].subs \union {t} ELSE f[x].subs
    BY <2>2, WithSubFacts
  <2> QED
    BY <2>3 DEF f
<1> HIDE DEF r, with
<1>7. /\ DOMAIN r.tasks = DOMAIN s.tasks \union {t} /\ r.tasks[t] = new
      /\ \A x \in DOMAIN s.tasks : r.tasks[x] = with[x]
  BY <1>4, <1>5, <1>6 DEF WithOne
<1>8. \A x \in DOMAIN s.tasks :
         /\ r.tasks[x].parent = s.tasks[x].parent /\ r.tasks[x].project = s.tasks[x].project
         /\ r.tasks[x].tags = s.tasks[x].tags
         /\ r.tasks[x].subs = IF x = p THEN s.tasks[x].subs \union {t} ELSE s.tasks[x].subs
  BY <1>6, <1>7
<1>0. /\ r.tasks[t].parent = p /\ r.tasks[t].project = s.tasks[p].project
      /\ r.tasks[t].tags = {} /\ r.tasks[t].subs = {}
  BY <1>7
<1> HIDE DEF new
<1>9. Families(r.tasks)
  <2> DEFINE f == s.tasks
             g == r.tasks
  <2>1. f \in ById(Tasks, Task) /\ Families(f)
    BY SoundParts
  <2>2. t \in Tasks /\ t \notin DOMAIN f /\ p \in DOMAIN f /\ f[p].parent = None
    BY <1>3, <1>4
  <2>3. DOMAIN g = DOMAIN f \union {t}
    BY <1>7
  <2>4. \A x \in DOMAIN f : /\ g[x].parent = f[x].parent /\ g[x].project = f[x].project
                            /\ g[x].subs = IF x = p THEN f[x].subs \union {t} ELSE f[x].subs
    BY <1>8
  <2>5. g[t].parent = p /\ g[t].project = f[p].project /\ g[t].subs = {}
    BY <1>0
  <2> HIDE DEF f, g
  <2>6. Families(g)
    BY <2>1, <2>2, <2>3, <2>4, <2>5, FamiliesWithSub
  <2> QED
    BY <2>6 DEF g
<1>10. Apart(r) /\ Families(r.archive) /\ INBOX \in DOMAIN r.lists
  BY <1>4, <1>5, <1>7, SoundParts DEF Apart
<1>11. ASSUME NEW x \in DOMAIN r.tasks
       PROVE  r.tasks[x].project \in DOMAIN r.lists
  <2>1. CASE x = t
    BY <1>0, <1>3, <1>5, <2>1, SoundLists
  <2>2. CASE x # t
    BY <1>5, <1>7, <1>8, <2>2, SoundLists
  <2> QED
    BY <2>1, <2>2
<1>12. ASSUME NEW l \in DOMAIN r.lists, NEW x
       PROVE  x \in r.lists[l] <=> IsListed(r, x, l)
  <2>1. x \in r.lists[l] <=> IsListed(s, x, l)
    BY <1>5, SoundLists
  <2>2. CASE x = t
    BY <1>0, <1>3, <1>4, <2>1, <2>2 DEF IsListed
  <2>3. CASE x # t
    BY <1>7, <1>8, <2>1, <2>3 DEF IsListed
  <2> QED
    BY <2>2, <2>3
<1>13. ASSUME NEW x \in DOMAIN r.tasks, NEW g \in r.tasks[x].tags
       PROVE  g \in DOMAIN r.tagged /\ x \in r.tagged[g]
  <2>1. x # t
    BY <1>0
  <2> QED
    BY <1>5, <1>7, <1>8, <2>1, SoundTags
<1>14. ASSUME NEW g \in DOMAIN r.tagged, NEW x \in r.tagged[g]
       PROVE  x \in DOMAIN r.tasks
  BY <1>5, <1>7, SoundTags
<1>15. Sound(r)
  BY <1>5, <1>9, <1>10, <1>11, <1>12, <1>13, <1>14, SoundBy
<1> QED
  BY <1>15 DEF r

LEMMA ConvertToMainTaskSound ==
  ASSUME NEW s, Sound(s), NEW op, ByConvertToMainTask(op, s)
  PROVE  Sound(Reduced(op, s))
<1>1. PICK t \in DOMAIN s.tasks \ MainsOf(s) :
         op = [kind |-> "convertToMain", task |-> t, parent |-> s.tasks[t].parent, project |-> s.tasks[t].project,
               parentTags |-> s.tasks[s.tasks[t].parent].tags]
  BY DEF ByConvertToMainTask
<1> DEFINE r == Reduced(op, s)
           p == s.tasks[t].parent
           j == s.tasks[t].project
           tags == s.tasks[p].tags
<1>2. /\ op.kind = "convertToMain" /\ op.task = t /\ op.parent = p /\ op.project = j
      /\ op.parentTags = tags
  BY <1>1
<1>3. s \in Store /\ t \in Tasks /\ p \in DOMAIN s.tasks /\ s.tasks[p].parent = None /\ p # None
  <2>1. p # None /\ Kin(s.tasks, t)
    BY SoundParts DEF MainsOf, Families
  <2> QED
    BY <2>1, SoundParts DEF Kin
<1>4. /\ r \in Store /\ r.tasks = MadeMain(s.tasks, t, p) /\ r.archive = s.archive
      /\ r.lists = Listed(s.lists, {j}, {t}) /\ r.tagged = Listed(s.tagged, tags, {t})
  <2>1. r = ConvertToMain(op, s)
    BY <1>2, ReducedByKind
  <2> HIDE DEF p, j, tags
  <2> QED
    BY <1>2, <1>3, <2>1, ConvertToMainShape
<1> HIDE DEF r, p, tags
<1>5. /\ DOMAIN r.tasks = DOMAIN s.tasks
      /\ \A x \in DOMAIN s.tasks :
           /\ r.tasks[x].parent = IF x = t THEN None ELSE s.tasks[x].parent
           /\ r.tasks[x].project = s.tasks[x].project
           /\ r.tasks[x].tags = IF x = t THEN tags ELSE s.tasks[x].tags
           /\ r.tasks[x].subs = IF x = p THEN s.tasks[x].subs \ {t} ELSE s.tasks[x].subs
  <2>1. s.tasks \in ById(Tasks, Task)
    BY SoundParts
  <2>2. Frees(s.tasks, r.tasks, t, p)
    BY <1>3, <1>4, <2>1, MadeMainFacts
  <2> QED
    BY <2>2 DEF Frees, tags
<1>6. /\ DOMAIN r.lists = DOMAIN s.lists
      /\ \A l \in DOMAIN s.lists : r.lists[l] = IF l = j THEN s.lists[l] \union {t} ELSE s.lists[l]
  BY <1>4 DEF Listed
<1>7. /\ DOMAIN r.tagged = DOMAIN s.tagged
      /\ \A g \in DOMAIN s.tagged : r.tagged[g] = IF g \in tags THEN s.tagged[g] \union {t} ELSE s.tagged[g]
  BY <1>4 DEF Listed
<1>8. Families(r.tasks)
  <2> DEFINE f == s.tasks
             g == r.tasks
  <2>1. f \in ById(Tasks, Task) /\ Families(f)
    BY SoundParts
  <2>2. t \in DOMAIN f /\ p \in DOMAIN f /\ f[t].parent = p
    BY <1>3 DEF p
  <2>3. DOMAIN g = DOMAIN f
    BY <1>5
  <2>4. \A x \in DOMAIN f : /\ g[x].parent = IF x = t THEN None ELSE f[x].parent
                            /\ g[x].project = f[x].project
                            /\ g[x].subs = IF x = p THEN f[x].subs \ {t} ELSE f[x].subs
    BY <1>5
  <2> HIDE DEF f, g
  <2>5. Families(g)
    BY <2>1, <2>2, <2>3, <2>4, FamiliesFreed
  <2> QED
    BY <2>5 DEF g
<1>9. Apart(r) /\ Families(r.archive) /\ INBOX \in DOMAIN r.lists
  BY <1>4, <1>5, <1>6, SoundParts DEF Apart
<1>10. ASSUME NEW x \in DOMAIN r.tasks
       PROVE  r.tasks[x].project \in DOMAIN r.lists
  BY <1>5, <1>6, SoundLists
<1>11. ASSUME NEW l \in DOMAIN r.lists, NEW x
       PROVE  x \in r.lists[l] <=> IsListed(r, x, l)
  <2>1. x \in s.lists[l] <=> IsListed(s, x, l)
    BY <1>6, SoundLists
  <2>2. CASE x = t
    <3>1. t \notin s.lists[l]
      BY <1>3, <2>1, <2>2 DEF IsListed, p
    <3>2. t \in r.lists[l] <=> l = j
      BY <1>6, <3>1
    <3>3. r.tasks[t].parent = None /\ r.tasks[t].project = j /\ t \in DOMAIN r.tasks
      BY <1>5
    <3> QED
      BY <2>2, <3>2, <3>3 DEF IsListed
  <2>3. CASE x # t
    <3>1. x \in r.lists[l] <=> x \in s.lists[l]
      BY <1>6, <2>3
    <3> QED
      BY <1>5, <2>1, <2>3, <3>1 DEF IsListed
  <2> QED
    BY <2>2, <2>3
<1>12. ASSUME NEW x \in DOMAIN r.tasks, NEW g \in r.tasks[x].tags
       PROVE  g \in DOMAIN r.tagged /\ x \in r.tagged[g]
  <2>1. CASE x = t
    <3>1. g \in tags
      BY <1>5, <2>1
    <3>2. g \in DOMAIN s.tagged
      BY <1>3, <3>1, SoundTags DEF tags
    <3> QED
      BY <1>7, <2>1, <3>1, <3>2
  <2>2. CASE x # t
    <3>1. g \in DOMAIN s.tagged /\ x \in s.tagged[g]
      BY <1>5, <2>2, SoundTags
    <3> QED
      BY <1>7, <3>1
  <2> QED
    BY <2>1, <2>2
<1>13. ASSUME NEW g \in DOMAIN r.tagged, NEW x \in r.tagged[g]
       PROVE  x \in DOMAIN r.tasks
  <2>1. x \in s.tagged[g] \union {t}
    BY <1>7
  <2> QED
    BY <1>5, <1>7, <2>1, SoundTags
<1>14. Sound(r)
  BY <1>4, <1>8, <1>9, <1>10, <1>11, <1>12, <1>13, SoundBy
<1> QED
  BY <1>14 DEF r

LEMMA ConvertToSubTaskSound ==
  ASSUME NEW s, Sound(s), NEW op, ByConvertToSubTask(op, s)
  PROVE  Sound(Reduced(op, s))
<1>1. PICK t \in MainsOf(s), p \in MainsOf(s) :
         CanApplyConvertToSubTask(t, p, s.tasks) /\ op = [kind |-> "convertToSub", task |-> t, parent |-> p]
  BY DEF ByConvertToSubTask
<1> DEFINE r == Reduced(op, s)
           j == s.tasks[t].project
<1>2. op.kind = "convertToSub" /\ op.task = t /\ op.parent = p
  BY <1>1
<1>3. /\ s \in Store /\ t \in Tasks /\ t \in DOMAIN s.tasks /\ p \in DOMAIN s.tasks /\ t # p /\ p # None
      /\ s.tasks[p].parent = None /\ s.tasks[t].parent = None /\ s.tasks[t].subs = {}
  BY <1>1, SoundParts DEF MainsOf, CanApplyConvertToSubTask
<1>4. /\ r \in Store /\ r.tasks = MadeSub(s.tasks, t, p) /\ r.archive = s.archive
      /\ r.lists = Unlisted(s.lists, {j}, {t}) /\ r.tagged = Unlisted(s.tagged, Tags, {t})
  <2>1. r = ConvertToSub(op, s)
    BY <1>2, ReducedByKind
  <2> QED
    BY <1>1, <1>2, <1>3, <2>1, ConvertToSubShape
<1> HIDE DEF r
<1>5. /\ DOMAIN r.tasks = DOMAIN s.tasks
      /\ \A x \in DOMAIN s.tasks :
           /\ r.tasks[x].parent = IF x = t THEN p ELSE s.tasks[x].parent
           /\ r.tasks[x].project = IF x = t THEN s.tasks[p].project ELSE s.tasks[x].project
           /\ r.tasks[x].tags = IF x = t THEN {} ELSE s.tasks[x].tags
           /\ r.tasks[x].subs = IF x = p THEN s.tasks[x].subs \union {t} ELSE s.tasks[x].subs
  <2>1. s.tasks \in ById(Tasks, Task)
    BY SoundParts
  <2>2. Binds(s.tasks, r.tasks, t, p)
    BY <1>3, <1>4, <2>1, MadeSubFacts
  <2> QED
    BY <2>2 DEF Binds
<1>6. /\ DOMAIN r.lists = DOMAIN s.lists
      /\ \A l \in DOMAIN s.lists : r.lists[l] = IF l = j THEN s.lists[l] \ {t} ELSE s.lists[l]
  BY <1>4 DEF Unlisted
<1>7. /\ DOMAIN r.tagged = DOMAIN s.tagged
      /\ \A g \in DOMAIN s.tagged : r.tagged[g] = s.tagged[g] \ {t}
  BY <1>4, SoundParts DEF Unlisted
<1>8. Families(r.tasks)
  <2> DEFINE f == s.tasks
             g == r.tasks
  <2>1. f \in ById(Tasks, Task) /\ Families(f)
    BY SoundParts
  <2>2. t \in DOMAIN f /\ p \in DOMAIN f /\ t # p /\ f[t].parent = None /\ f[p].parent = None /\ f[t].subs = {}
    BY <1>3
  <2>3. DOMAIN g = DOMAIN f
    BY <1>5
  <2>4. \A x \in DOMAIN f : /\ g[x].parent = IF x = t THEN p ELSE f[x].parent
                            /\ g[x].project = IF x = t THEN f[p].project ELSE f[x].project
                            /\ g[x].subs = IF x = p THEN f[x].subs \union {t} ELSE f[x].subs
    BY <1>5
  <2> HIDE DEF f, g
  <2>5. Families(g)
    BY <2>1, <2>2, <2>3, <2>4, FamiliesBound
  <2> QED
    BY <2>5 DEF g
<1>9. Apart(r) /\ Families(r.archive) /\ INBOX \in DOMAIN r.lists
  BY <1>4, <1>5, <1>6, SoundParts DEF Apart
<1>10. ASSUME NEW x \in DOMAIN r.tasks
       PROVE  r.tasks[x].project \in DOMAIN r.lists
  BY <1>3, <1>5, <1>6, SoundLists
<1>11. ASSUME NEW l \in DOMAIN r.lists, NEW x
       PROVE  x \in r.lists[l] <=> IsListed(r, x, l)
  <2>1. x \in s.lists[l] <=> IsListed(s, x, l)
    BY <1>6, SoundLists
  <2>2. CASE x = t
    <3>1. l # j => t \notin s.lists[l]
      BY <2>1, <2>2 DEF IsListed
    <3>2. t \notin r.lists[l]
      BY <1>6, <3>1
    <3>3. r.tasks[t].parent = p
      BY <1>3, <1>5
    <3> QED
      BY <1>3, <2>2, <3>2, <3>3 DEF IsListed
  <2>3. CASE x # t
    <3>1. x \in r.lists[l] <=> x \in s.lists[l]
      BY <1>6, <2>3
    <3> QED
      BY <1>5, <2>1, <2>3, <3>1 DEF IsListed
  <2> QED
    BY <2>2, <2>3
<1>12. ASSUME NEW x \in DOMAIN r.tasks, NEW g \in r.tasks[x].tags
       PROVE  g \in DOMAIN r.tagged /\ x \in r.tagged[g]
  <2>1. x # t
    BY <1>5
  <2>2. g \in DOMAIN s.tagged /\ x \in s.tagged[g]
    BY <1>5, <2>1, SoundTags
  <2> QED
    BY <1>7, <2>1, <2>2
<1>13. ASSUME NEW g \in DOMAIN r.tagged, NEW x \in r.tagged[g]
       PROVE  x \in DOMAIN r.tasks
  BY <1>5, <1>7, SoundTags
<1>14. Sound(r)
  BY <1>4, <1>8, <1>9, <1>10, <1>11, <1>12, <1>13, SoundBy
<1> QED
  BY <1>14 DEF r

LEMMA DragSubTaskSound ==
  ASSUME NEW s, Sound(s), NEW op, ByDragSubTask(op, s)
  PROVE  Sound(Reduced(op, s))
<1>1. PICK t \in DOMAIN s.tasks \ MainsOf(s), q \in MainsOf(s) :
         /\ q # s.tasks[t].parent
         /\ op = [kind |-> "moveSubTask", task |-> t, source |-> s.tasks[t].parent, target |-> q]
  BY DEF ByDragSubTask
<1> DEFINE r == Reduced(op, s)
           p == s.tasks[t].parent
           moves == /\ {op.source, op.target} \subseteq DOMAIN s.tasks
                    /\ op.task \notin Above(op.target, s.tasks) \union {op.source}
<1>2. op.kind = "moveSubTask" /\ op.task = t /\ op.source = p /\ op.target = q
  BY <1>1
<1>3. /\ s \in Store /\ t \in Tasks /\ t \in DOMAIN s.tasks /\ p \in DOMAIN s.tasks /\ p # None
      /\ q \in DOMAIN s.tasks /\ s.tasks[q].parent = None /\ q # p /\ q # None
  <2>1. p # None /\ Kin(s.tasks, t)
    BY SoundParts DEF MainsOf, Families
  <2> QED
    BY <1>1, <2>1, SoundParts DEF Kin, MainsOf
<1>4. r = MoveSubTask(op, s)
  BY <1>2, ReducedByKind
<1>5. CASE ~moves
  <2>1. MoveSubTask(op, s) = s
    BY <1>5 DEF MoveSubTask
  <2> QED
    BY <1>4, <2>1
<1>6. CASE moves
  <2>1. /\ r \in Store /\ r.tasks = MovedUnder(s.tasks, t, p, q) /\ r.archive = s.archive
        /\ r.lists = s.lists /\ r.tagged = s.tagged
    <3> HIDE DEF p
    <3> QED
      BY <1>2, <1>3, <1>4, <1>6, MoveSubTaskShape
  <2> HIDE DEF r, p, moves
  <2>0. Moves(s.tasks, r.tasks, t, p, q)
    <3>1. s.tasks \in ById(Tasks, Task)
      BY SoundParts
    <3> QED
      BY <1>3, <2>1, <3>1, MovedUnderFacts
  <2>2. /\ DOMAIN r.tasks = DOMAIN s.tasks
        /\ \A x \in DOMAIN s.tasks :
             /\ r.tasks[x].parent = IF x = t THEN q ELSE s.tasks[x].parent
             /\ r.tasks[x].project = IF x = t THEN s.tasks[q].project ELSE s.tasks[x].project
             /\ r.tasks[x].tags = s.tasks[x].tags
             /\ x = q => r.tasks[x].subs = s.tasks[x].subs \union {t}
             /\ x # q => r.tasks[x].subs = IF x = p THEN s.tasks[x].subs \ {t} ELSE s.tasks[x].subs
    BY <2>0 DEF Moves
  <2>3. Families(r.tasks)
    <3>1. s.tasks \in ById(Tasks, Task) /\ Families(s.tasks)
      BY SoundParts
    <3>2. s.tasks[t].parent = p
      BY DEF p
    <3> QED
      BY <1>3, <2>0, <3>1, <3>2, FamiliesMoved
  <2>4. Apart(r) /\ Families(r.archive) /\ INBOX \in DOMAIN r.lists
    BY <2>1, <2>2, SoundParts DEF Apart
  <2>5. ASSUME NEW x \in DOMAIN r.tasks
        PROVE  r.tasks[x].project \in DOMAIN r.lists
    BY <1>3, <2>1, <2>2, SoundLists
  <2>6. ASSUME NEW l \in DOMAIN r.lists, NEW x
        PROVE  x \in r.lists[l] <=> IsListed(r, x, l)
    <3>1. x \in r.lists[l] <=> IsListed(s, x, l)
      BY <2>1, SoundLists
    <3>2. CASE x = t
      <4>1. s.tasks[t].parent # None /\ r.tasks[t].parent # None
        BY <1>3, <2>2 DEF p
      <4> QED
        BY <3>1, <3>2, <4>1 DEF IsListed
    <3>3. CASE x # t
      BY <2>2, <3>1, <3>3 DEF IsListed
    <3> QED
      BY <3>2, <3>3
  <2>7. ASSUME NEW x \in DOMAIN r.tasks, NEW g \in r.tasks[x].tags
        PROVE  g \in DOMAIN r.tagged /\ x \in r.tagged[g]
    <3>1. x \in DOMAIN s.tasks /\ g \in s.tasks[x].tags
      BY <2>2
    <3> QED
      BY <2>1, <3>1, SoundTags
  <2>8. ASSUME NEW g \in DOMAIN r.tagged, NEW x \in r.tagged[g]
        PROVE  x \in DOMAIN r.tasks
    BY <2>1, <2>2, SoundTags
  <2>9. Sound(r)
    BY <2>1, <2>3, <2>4, <2>5, <2>6, <2>7, <2>8, SoundBy
  <2> QED
    BY <2>9 DEF r
<1> QED
  BY <1>5, <1>6

LEMMA ToggleTagsSound ==
  ASSUME NEW s, Sound(s), NEW op, ByToggleTags(op, s)
  PROVE  Sound(Reduced(op, s))
<1>1. PICK t \in DOMAIN s.tasks, tags \in SUBSET DOMAIN s.tagged : op = [kind |-> "setTags", task |-> t, tags |-> tags]
  BY DEF ByToggleTags
<1> DEFINE r == Reduced(op, s)
           before == s.tasks[t].tags
<1>2. op.kind = "setTags" /\ op.task = t /\ op.tags = tags
  BY <1>1
<1>3. s \in Store /\ t \in Tasks /\ tags \in SUBSET Tags
  BY SoundParts
<1>4. /\ r \in Store /\ r.tasks = Retagged(s.tasks, t, tags) /\ r.archive = s.archive /\ r.lists = s.lists
      /\ r.tagged = Listed(Unlisted(s.tagged, before \ tags, {t}), tags \ before, {t})
  <2>1. r = SetTags(op, s)
    BY <1>2, ReducedByKind
  <2>2. LET u == Unlisted(s.tagged, s.tasks[op.task].tags \ op.tags, {op.task})
        IN  /\ r \in Store /\ r.tasks = Retagged(s.tasks, op.task, op.tags) /\ r.archive = s.archive
            /\ r.lists = s.lists /\ r.tagged = Listed(u, op.tags \ s.tasks[op.task].tags, {op.task})
    <3>1. op.task \in DOMAIN s.tasks /\ op.tags \in SUBSET Tags
      BY <1>2, <1>3
    <3> HIDE DEF r
    <3> QED
      BY <1>3, <2>1, <3>1, SetTagsShape
  <2> HIDE DEF r
  <2> QED
    BY <1>2, <2>2
<1> HIDE DEF r, before
<1>5. /\ DOMAIN r.tasks = DOMAIN s.tasks
      /\ \A x \in DOMAIN s.tasks :
           /\ r.tasks[x].parent = s.tasks[x].parent /\ r.tasks[x].project = s.tasks[x].project
           /\ r.tasks[x].subs = s.tasks[x].subs
           /\ r.tasks[x].tags = IF x = t THEN tags ELSE s.tasks[x].tags
  <2>1. s.tasks \in ById(Tasks, Task)
    BY SoundParts
  <2>2. Retags(s.tasks, r.tasks, t, tags)
    BY <1>3, <1>4, <2>1, RetaggedFacts
  <2> QED
    BY <2>2 DEF Retags
<1>6. /\ DOMAIN r.tagged = DOMAIN s.tagged
      /\ \A g \in DOMAIN s.tagged : \A x : x # t => (x \in r.tagged[g] <=> x \in s.tagged[g])
      /\ \A g \in DOMAIN s.tagged : g \in tags \ before => t \in r.tagged[g]
      /\ \A g \in DOMAIN s.tagged : g \in tags /\ g \in before => (t \in r.tagged[g] <=> t \in s.tagged[g])
  <2> DEFINE u == Unlisted(s.tagged, before \ tags, {t})
  <2>1. DOMAIN u = DOMAIN s.tagged /\ \A g \in DOMAIN s.tagged :
          u[g] = IF g \in before \ tags THEN s.tagged[g] \ {t} ELSE s.tagged[g]
    BY DEF Unlisted
  <2>2. r.tagged = Listed(u, tags \ before, {t})
    BY <1>4
  <2> HIDE DEF u
  <2>3. DOMAIN r.tagged = DOMAIN u /\ \A g \in DOMAIN u :
          r.tagged[g] = IF g \in tags \ before THEN u[g] \union {t} ELSE u[g]
    BY <2>2 DEF Listed
  <2> QED
    BY <2>1, <2>3
<1>7. Families(r.tasks)
  <2>1. Families(s.tasks)
    BY SoundParts
  <2> QED
    BY <1>5, <2>1, SameKin
<1>8. Apart(r) /\ Families(r.archive) /\ INBOX \in DOMAIN r.lists
  BY <1>4, <1>5, SoundParts DEF Apart
<1>9. ASSUME NEW x \in DOMAIN r.tasks
      PROVE  r.tasks[x].project \in DOMAIN r.lists
  BY <1>4, <1>5, SoundLists
<1>10. ASSUME NEW l \in DOMAIN r.lists, NEW x
       PROVE  x \in r.lists[l] <=> IsListed(r, x, l)
  <2>1. x \in r.lists[l] <=> IsListed(s, x, l)
    BY <1>4, SoundLists
  <2> QED
    BY <1>5, <2>1 DEF IsListed
<1>11. ASSUME NEW x \in DOMAIN r.tasks, NEW g \in r.tasks[x].tags
       PROVE  g \in DOMAIN r.tagged /\ x \in r.tagged[g]
  <2>1. CASE x = t
    <3>1. g \in tags /\ g \in DOMAIN s.tagged
      BY <1>5, <2>1
    <3>2. g \in before => t \in s.tagged[g]
      BY SoundTags DEF before
    <3> QED
      BY <1>6, <2>1, <3>1, <3>2
  <2>2. CASE x # t
    <3>1. g \in DOMAIN s.tagged /\ x \in s.tagged[g]
      BY <1>5, <2>2, SoundTags
    <3> QED
      BY <1>6, <2>2, <3>1
  <2> QED
    BY <2>1, <2>2
<1>12. ASSUME NEW g \in DOMAIN r.tagged, NEW x \in r.tagged[g]
       PROVE  x \in DOMAIN r.tasks
  BY <1>5, <1>6, SoundTags
<1>13. Sound(r)
  BY <1>4, <1>7, <1>8, <1>9, <1>10, <1>11, <1>12, SoundBy
<1> QED
  BY <1>13 DEF r

LEMMA SoundKin ==
  ASSUME NEW s, Sound(s), NEW t \in DOMAIN s.tasks
  PROVE  /\ s.tasks[t].parent \in DOMAIN s.tasks \union {None}
         /\ s.tasks[t].parent # None =>
              /\ s.tasks[s.tasks[t].parent].parent = None
              /\ s.tasks[t].project = s.tasks[s.tasks[t].parent].project
         /\ \A x : x \in s.tasks[t].subs <=> x \in DOMAIN s.tasks /\ s.tasks[x].parent = t
         /\ SubsOf(s.tasks, t) = s.tasks[t].subs
<1>1. Kin(s.tasks, t)
  BY SoundParts DEF Families
<1> QED
  BY <1>1 DEF Kin, SubsOf

LEMMA MoveToOtherProjectSound ==
  ASSUME NEW s, Sound(s), NEW op, ByMoveToOtherProject(op, s)
  PROVE  Sound(Reduced(op, s))
<1>1. PICK t \in MainsOf(s), q \in DOMAIN s.lists :
         /\ q # s.tasks[t].project
         /\ op = [kind |-> "moveToProject", task |-> t, project |-> s.tasks[t].project,
                  subs |-> s.tasks[t].subs, target |-> q]
  BY DEF ByMoveToOtherProject
<1> DEFINE r == Reduced(op, s)
           j == s.tasks[t].project
           subs == s.tasks[t].subs
           family == {t} \union subs
<1>2. op.kind = "moveToProject" /\ op.task = t /\ op.project = j /\ op.subs = subs /\ op.target = q
  BY <1>1
<1>3. /\ s \in Store /\ t \in Tasks /\ t \in DOMAIN s.tasks /\ s.tasks[t].parent = None
      /\ q \in Projects /\ q # j
  BY <1>1, SoundParts DEF MainsOf
<1>4. /\ r \in Store /\ r.tasks = InProject(s.tasks, family, q) /\ r.archive = s.archive
      /\ r.lists = Listed(Unlisted(s.lists, {j}, family), {q}, {t}) /\ r.tagged = s.tagged
  <2>1. r = MoveToProject(op, s)
    BY <1>2, ReducedByKind
  <2>2. Along(op, s) = family /\ Origin(op, s) = j
    BY <1>2, <1>3 DEF Along, Origin
  <2>3. op.task \in Tasks /\ op.target \in Projects
    BY <1>2, <1>3
  <2>4. LET w == MoveToProject(op, s)
        IN  /\ w \in Store /\ w.tasks = InProject(s.tasks, Along(op, s), op.target) /\ w.archive = s.archive
            /\ w.lists = Listed(Unlisted(s.lists, {Origin(op, s)}, Along(op, s)), {op.target}, {op.task})
            /\ w.tagged = s.tagged
    BY <1>3, <2>3, MoveToProjectShape
  <2> HIDE DEF r, j, subs, family
  <2> QED
    BY <1>2, <2>1, <2>2, <2>4
<1> HIDE DEF r
<1>5. Places(s.tasks, r.tasks, family, q)
  <2>1. s.tasks \in ById(Tasks, Task)
    BY SoundParts
  <2> HIDE DEF family
  <2> QED
    BY <1>3, <1>4, <2>1, InProjectFacts
<1>6. Families(r.tasks)
  <2>1. s.tasks \in ById(Tasks, Task) /\ Families(s.tasks)
    BY SoundParts
  <2> QED
    BY <1>3, <1>5, <2>1, FamiliesPlaced
<1>7. \A x : x \in family <=> x = t \/ (x \in DOMAIN s.tasks /\ s.tasks[x].parent = t)
  BY <1>3, SoundKin
<1> HIDE DEF family, subs
<1>8. /\ DOMAIN r.tasks = DOMAIN s.tasks
      /\ \A x \in DOMAIN s.tasks :
           /\ r.tasks[x].parent = s.tasks[x].parent /\ r.tasks[x].tags = s.tasks[x].tags
           /\ r.tasks[x].project = IF x \in family THEN q ELSE s.tasks[x].project
  BY <1>5 DEF Places
<1>9. /\ DOMAIN r.lists = DOMAIN s.lists
      /\ \A x : x \in r.lists[q] <=> x \in s.lists[q] \/ x = t
      /\ \A x : x \in r.lists[j] <=> x \in s.lists[j] /\ x \notin family
      /\ \A l \in DOMAIN s.lists : l # q /\ l # j => r.lists[l] = s.lists[l]
  <2> DEFINE u == Unlisted(s.lists, {j}, family)
  <2>1. DOMAIN u = DOMAIN s.lists /\ \A l \in DOMAIN s.lists : u[l] = IF l = j THEN s.lists[l] \ family ELSE s.lists[l]
    BY DEF Unlisted
  <2>2. r.lists = Listed(u, {q}, {t})
    BY <1>4
  <2> HIDE DEF u
  <2>3. DOMAIN r.lists = DOMAIN u /\ \A l \in DOMAIN u : r.lists[l] = IF l = q THEN u[l] \union {t} ELSE u[l]
    BY <2>2 DEF Listed
  <2>4. j \in DOMAIN s.lists
    BY <1>3, SoundLists
  <2>5. r.lists[q] = s.lists[q] \union {t}
    BY <1>3, <2>1, <2>3
  <2>6. r.lists[j] = s.lists[j] \ family
    BY <1>3, <2>1, <2>3, <2>4
  <2>7. \A l \in DOMAIN s.lists : l # q /\ l # j => r.lists[l] = s.lists[l]
    BY <2>1, <2>3
  <2> QED
    BY <2>1, <2>3, <2>5, <2>6, <2>7
<1>10. Apart(r) /\ Families(r.archive) /\ INBOX \in DOMAIN r.lists
  BY <1>4, <1>8, <1>9, SoundParts DEF Apart
<1>11. ASSUME NEW x \in DOMAIN r.tasks
       PROVE  r.tasks[x].project \in DOMAIN r.lists
  BY <1>8, <1>9, SoundLists
<1>12. ASSUME NEW l \in DOMAIN r.lists, NEW x
       PROVE  x \in r.lists[l] <=> IsListed(r, x, l)
  <2>1. x \in s.lists[l] <=> IsListed(s, x, l)
    BY <1>9, SoundLists
  <2>2. CASE x = t
    <3>1. IsListed(r, t, l) <=> l = q
      BY <1>3, <1>7, <1>8 DEF IsListed
    <3>2. IsListed(s, t, l) <=> l = j
      BY <1>3 DEF IsListed
    <3>3. t \in r.lists[l] <=> l = q
      BY <1>3, <1>7, <1>9, <2>1, <2>2, <3>2
    <3> QED
      BY <2>2, <3>1, <3>3
  <2>3. CASE x # t /\ x \in family
    <3>1. ~IsListed(r, x, l) /\ ~IsListed(s, x, l)
      <4>1. s.tasks[x].parent = t /\ x \in DOMAIN s.tasks /\ t # None
        BY <1>3, <1>7, <2>3, SoundParts
      <4> QED
        BY <1>8, <4>1 DEF IsListed
    <3>2. x \notin r.lists[l]
      BY <1>9, <2>1, <2>3, <3>1
    <3> QED
      BY <3>1, <3>2
  <2>4. CASE x # t /\ x \notin family
    <3>1. IsListed(r, x, l) <=> IsListed(s, x, l)
      BY <1>8, <2>4 DEF IsListed
    <3>2. x \in r.lists[l] <=> x \in s.lists[l]
      BY <1>9, <2>4
    <3> QED
      BY <2>1, <3>1, <3>2
  <2> QED
    BY <2>2, <2>3, <2>4
<1>13. ASSUME NEW x \in DOMAIN r.tasks, NEW g \in r.tasks[x].tags
       PROVE  g \in DOMAIN r.tagged /\ x \in r.tagged[g]
  BY <1>4, <1>8, SoundTags
<1>14. ASSUME NEW g \in DOMAIN r.tagged, NEW x \in r.tagged[g]
       PROVE  x \in DOMAIN r.tasks
  BY <1>4, <1>8, SoundTags
<1>15. Sound(r)
  BY <1>4, <1>6, <1>10, <1>11, <1>12, <1>13, <1>14, SoundBy
<1> QED
  BY <1>15 DEF r

LEMMA RemoveTaskSound ==
  ASSUME NEW s, Sound(s), NEW op, ByRemoveTask(op, s)
  PROVE  Sound(Reduced(op, s))
<1>1. PICK t \in DOMAIN s.tasks :
         op = [kind |-> "deleteTask", task |-> t, project |-> s.tasks[t].project,
               parent |-> s.tasks[t].parent, subs |-> s.tasks[t].subs]
  BY DEF ByRemoveTask
<1> DEFINE r == Reduced(op, s)
           j == s.tasks[t].project
           subs == s.tasks[t].subs
           gone == {t} \union subs
<1>2. op.kind = "deleteTask" /\ op.task = t /\ op.project = j /\ op.parent = s.tasks[t].parent /\ op.subs = subs
  BY <1>1
<1>3. s \in Store /\ t \in Tasks
  BY SoundParts
<1>4. /\ r \in Store /\ r.tasks = Removed(s.tasks, t, s.tasks[t].parent, subs) /\ r.archive = s.archive
      /\ r.lists = Unlisted(s.lists, {j}, {t}) /\ r.tagged = Unlisted(s.tagged, Tags, gone)
  <2>1. r = DeleteTask(op, s)
    BY <1>2, ReducedByKind
  <2> QED
    BY <1>2, <1>3, <2>1, DeleteTaskShape
<1> HIDE DEF r
<1>5. Drops(s.tasks, r.tasks, t, s.tasks[t].parent, gone)
  <2>1. s.tasks \in ById(Tasks, Task)
    BY SoundParts
  <2>2. SubsOf(s.tasks, t) = subs
    BY SoundKin
  <2> DEFINE f == s.tasks
             p == s.tasks[t].parent
  <2>3. Drops(f, Removed(f, t, p, subs), t, p, {t} \union subs \union SubsOf(f, t))
    <3>1. f \in ById(Tasks, Task)
      BY <2>1
    <3> HIDE DEF f, p, subs
    <3> QED
      BY <3>1, RemovedFacts
  <2>4. {t} \union subs \union SubsOf(f, t) = gone
    BY <2>2
  <2> QED
    BY <1>4, <2>3, <2>4
<1>6. Families(r.tasks)
  <2>1. s.tasks \in ById(Tasks, Task) /\ Families(s.tasks)
    BY SoundParts
  <2> QED
    BY <1>5, <2>1, FamiliesReduced
<1>7. \A x : x \in gone <=> x = t \/ (x \in DOMAIN s.tasks /\ s.tasks[x].parent = t)
  BY SoundKin
<1> HIDE DEF gone, subs
<1>8. /\ DOMAIN r.tasks = DOMAIN s.tasks \ gone
      /\ \A x \in DOMAIN s.tasks \ gone :
           /\ r.tasks[x].parent = s.tasks[x].parent /\ r.tasks[x].tags = s.tasks[x].tags
           /\ r.tasks[x].project = s.tasks[x].project
  BY <1>5 DEF Drops
<1>9. /\ DOMAIN r.lists = DOMAIN s.lists
      /\ \A l \in DOMAIN s.lists : r.lists[l] = IF l = j THEN s.lists[l] \ {t} ELSE s.lists[l]
  BY <1>4 DEF Unlisted
<1>10. /\ DOMAIN r.tagged = DOMAIN s.tagged
       /\ \A g \in DOMAIN s.tagged : r.tagged[g] = s.tagged[g] \ gone
  BY <1>4, SoundParts DEF Unlisted
<1>11. Apart(r) /\ Families(r.archive) /\ INBOX \in DOMAIN r.lists
  BY <1>4, <1>8, <1>9, SoundParts DEF Apart
<1>12. ASSUME NEW x \in DOMAIN r.tasks
       PROVE  r.tasks[x].project \in DOMAIN r.lists
  BY <1>8, <1>9, SoundLists
<1>13. ASSUME NEW l \in DOMAIN r.lists, NEW x
       PROVE  x \in r.lists[l] <=> IsListed(r, x, l)
  <2>1. x \in s.lists[l] <=> IsListed(s, x, l)
    BY <1>9, SoundLists
  <2>2. CASE x \in gone
    <3>1. x \notin r.lists[l]
      <4>1. CASE x = t
        <5>1. t \in s.lists[l] => l = j
          BY <2>1, <4>1 DEF IsListed
        <5> QED
          BY <1>9, <4>1, <5>1
      <4>2. CASE x # t
        <5>1. s.tasks[x].parent = t /\ t # None
          BY <1>7, <2>2, <4>2, SoundParts
        <5>2. x \notin s.lists[l]
          BY <2>1, <5>1 DEF IsListed
        <5> QED
          BY <1>9, <5>2
      <4> QED
        BY <4>1, <4>2
    <3> QED
      BY <1>8, <2>2, <3>1 DEF IsListed
  <2>3. CASE x \notin gone
    <3>1. x \in r.lists[l] <=> x \in s.lists[l]
      BY <1>7, <1>9, <2>3
    <3> QED
      BY <1>8, <2>1, <2>3, <3>1 DEF IsListed
  <2> QED
    BY <2>2, <2>3
<1>14. ASSUME NEW x \in DOMAIN r.tasks, NEW g \in r.tasks[x].tags
       PROVE  g \in DOMAIN r.tagged /\ x \in r.tagged[g]
  BY <1>8, <1>10, SoundTags
<1>15. ASSUME NEW g \in DOMAIN r.tagged, NEW x \in r.tagged[g]
       PROVE  x \in DOMAIN r.tasks
  BY <1>8, <1>10, SoundTags
<1>16. Sound(r)
  BY <1>4, <1>6, <1>11, <1>12, <1>13, <1>14, <1>15, SoundBy
<1> QED
  BY <1>16 DEF r

LEMMA RemoveProjectSound ==
  ASSUME NEW s, Sound(s), NEW op, ByRemoveProject(op, s)
  PROVE  Sound(Reduced(op, s))
<1>1. PICK p \in DOMAIN s.lists \ {INBOX} :
         op = [kind |-> "deleteProject", project |-> p,
               tasks |-> s.lists[p] \union UNION {s.tasks[t].subs : t \in s.lists[p]}]
  BY DEF ByRemoveProject
<1> DEFINE r == Reduced(op, s)
           gone == s.lists[p] \union UNION {s.tasks[t].subs : t \in s.lists[p]}
           lost == ArchivedIn(s, p)
<1>2. op.kind = "deleteProject" /\ op.project = p /\ op.tasks = gone
  BY <1>1
<1>3. s \in Store /\ p \in Projects
  BY SoundParts
<1>4. ASSUME NEW x
      PROVE  x \in gone <=> x \in DOMAIN s.tasks /\ s.tasks[x].project = p
  <2>1. \A y : y \in s.lists[p] <=> IsListed(s, y, p)
    BY SoundLists
  <2>2. ASSUME x \in gone
        PROVE  x \in DOMAIN s.tasks /\ s.tasks[x].project = p
    <3>1. CASE x \in s.lists[p]
      BY <2>1, <3>1 DEF IsListed
    <3>2. CASE x \notin s.lists[p]
      <4>1. PICK t \in s.lists[p] : x \in s.tasks[t].subs
        BY <2>2, <3>2
      <4>2. t \in DOMAIN s.tasks /\ s.tasks[t].project = p /\ t # None
        BY <2>1, SoundParts DEF IsListed
      <4>3. x \in DOMAIN s.tasks /\ s.tasks[x].parent = t
        BY <4>1, <4>2, SoundKin
      <4> QED
        BY <4>2, <4>3, SoundKin
    <3> QED
      BY <3>1, <3>2
  <2>3. ASSUME x \in DOMAIN s.tasks, s.tasks[x].project = p
        PROVE  x \in gone
    <3>1. CASE s.tasks[x].parent = None
      BY <2>1, <2>3, <3>1 DEF IsListed
    <3>2. CASE s.tasks[x].parent # None
      <4> DEFINE t == s.tasks[x].parent
      <4>1. t \in DOMAIN s.tasks /\ s.tasks[t].parent = None /\ s.tasks[t].project = p
        BY <2>3, <3>2, SoundKin
      <4>2. t \in s.lists[p]
        BY <2>1, <4>1 DEF IsListed
      <4>3. x \in s.tasks[t].subs
        BY <2>3, <4>1, SoundKin
      <4> QED
        BY <4>2, <4>3
    <3> QED
      BY <3>1, <3>2
  <2> QED
    BY <2>2, <2>3
<1>5. /\ r \in Store /\ r.tasks = Without(s.tasks, gone) /\ r.archive = Without(s.archive, lost)
      /\ r.lists = Without(s.lists, {p}) /\ r.tagged = Unlisted(s.tagged, Tags, gone)
  <2>1. r = DeleteProject(op, s)
    BY <1>2, ReducedByKind
  <2>2. op.project \in Projects
    BY <1>2, <1>3
  <2>3. LET w == DeleteProject(op, s)
        IN  /\ w \in Store /\ w.tasks = Without(s.tasks, op.tasks)
            /\ w.archive = Without(s.archive, ArchivedIn(s, op.project))
            /\ w.lists = Without(s.lists, {op.project}) /\ w.tagged = Unlisted(s.tagged, Tags, op.tasks)
    BY <1>3, <2>2, DeleteProjectShape
  <2> HIDE DEF r, gone
  <2> QED
    BY <1>2, <2>1, <2>3
<1> HIDE DEF r, gone
<1>6. Families(r.tasks)
  <2> DEFINE f == s.tasks
             K == DOMAIN f \ gone
  <2>1. f \in ById(Tasks, Task) /\ Families(f)
    BY SoundParts
  <2>2. \A t \in DOMAIN f : f[t].parent # None => (t \in K <=> f[t].parent \in K)
    BY <1>4, SoundKin
  <2>3. r.tasks = Restrict(f, K)
    BY <1>5 DEF Without
  <2>4. K \in SUBSET (DOMAIN f)
    OBVIOUS
  <2> HIDE DEF f, K
  <2>5. Families(Restrict(f, K))
    BY <2>1, <2>2, <2>4, FamiliesRestricted
  <2> QED
    BY <2>3, <2>5
<1>7. Families(r.archive)
  <2> DEFINE f == s.archive
             K == DOMAIN f \ lost
  <2>1. f \in ById(Tasks, Task) /\ Families(f)
    BY SoundParts
  <2>2. \A t \in DOMAIN f : f[t].parent # None => (t \in K <=> f[t].parent \in K)
    BY <2>1 DEF Families, Kin, ArchivedIn
  <2>3. r.archive = Restrict(f, K)
    BY <1>5 DEF Without
  <2>4. K \in SUBSET (DOMAIN f)
    OBVIOUS
  <2> HIDE DEF f, K
  <2>5. Families(Restrict(f, K))
    BY <2>1, <2>2, <2>4, FamiliesRestricted
  <2> QED
    BY <2>3, <2>5
<1>8. /\ DOMAIN r.tasks = DOMAIN s.tasks \ gone
      /\ \A x \in DOMAIN s.tasks \ gone : r.tasks[x] = s.tasks[x]
  BY <1>5 DEF Without, Restrict
<1>9. /\ DOMAIN r.lists = DOMAIN s.lists \ {p}
      /\ \A l \in DOMAIN s.lists \ {p} : r.lists[l] = s.lists[l]
  BY <1>5 DEF Without, Restrict
<1>10. /\ DOMAIN r.tagged = DOMAIN s.tagged
       /\ \A g \in DOMAIN s.tagged : r.tagged[g] = s.tagged[g] \ gone
  BY <1>5, SoundParts DEF Unlisted
<1>11. Apart(r) /\ INBOX \in DOMAIN r.lists
  <2>1. DOMAIN r.archive \subseteq DOMAIN s.archive
    BY <1>5 DEF Without, Restrict
  <2> QED
    BY <1>1, <1>8, <1>9, <2>1, SoundParts DEF Apart
<1>12. ASSUME NEW x \in DOMAIN r.tasks
       PROVE  r.tasks[x].project \in DOMAIN r.lists
  BY <1>4, <1>8, <1>9, SoundLists
<1>13. ASSUME NEW l \in DOMAIN r.lists, NEW x
       PROVE  x \in r.lists[l] <=> IsListed(r, x, l)
  <2>1. x \in r.lists[l] <=> IsListed(s, x, l)
    BY <1>9, SoundLists
  <2>2. l # p
    BY <1>9
  <2>3. CASE x \in gone
    BY <1>4, <1>8, <2>1, <2>2, <2>3 DEF IsListed
  <2>4. CASE x \notin gone
    BY <1>8, <2>1, <2>4 DEF IsListed
  <2> QED
    BY <2>3, <2>4
<1>14. ASSUME NEW x \in DOMAIN r.tasks, NEW g \in r.tasks[x].tags
       PROVE  g \in DOMAIN r.tagged /\ x \in r.tagged[g]
  BY <1>8, <1>10, SoundTags
<1>15. ASSUME NEW g \in DOMAIN r.tagged, NEW x \in r.tagged[g]
       PROVE  x \in DOMAIN r.tasks
  BY <1>8, <1>10, SoundTags
<1>16. Sound(r)
  BY <1>5, <1>6, <1>7, <1>11, <1>12, <1>13, <1>14, <1>15, SoundBy
<1> QED
  BY <1>16 DEF r

LEMMA RemoveTagSound ==
  ASSUME NEW s, Sound(s), NEW op, ByRemoveTag(op, s)
  PROVE  Sound(Reduced(op, s))
<1>1. PICK h \in DOMAIN s.tagged : op = [kind |-> "deleteTag", tag |-> h]
  BY DEF ByRemoveTag
<1> DEFINE r == Reduced(op, s)
<1>2. op.kind = "deleteTag" /\ op.tag = h
  BY <1>1
<1>3. s \in Store /\ h \in Tags
  BY SoundParts
<1>4. /\ r \in Store /\ r.tasks = Untagged(s.tasks, h) /\ r.archive = Untagged(s.archive, h)
      /\ r.lists = s.lists /\ r.tagged = Without(s.tagged, {h})
  <2>1. r = DeleteTag(op, s)
    BY <1>2, ReducedByKind
  <2> QED
    BY <1>2, <1>3, <2>1, DeleteTagShape
<1> HIDE DEF r
<1>5. Untags(s.tasks, r.tasks, h) /\ Untags(s.archive, r.archive, h)
  <2>1. s.tasks \in ById(Tasks, Task) /\ s.archive \in ById(Tasks, Task)
    BY SoundParts
  <2> QED
    BY <1>4, <2>1, UntaggedFacts
<1>6. Families(r.tasks) /\ Families(r.archive)
  <2>1. Families(s.tasks) /\ Families(s.archive)
    BY SoundParts
  <2>2. ASSUME NEW f, NEW g, Families(f), Untags(f, g, h)
        PROVE  Families(g)
    <3>1. /\ DOMAIN g = DOMAIN f
          /\ \A x \in DOMAIN f : g[x].parent = f[x].parent /\ g[x].project = f[x].project /\ g[x].subs = f[x].subs
      BY <2>2 DEF Untags
    <3> QED
      BY <2>2, <3>1, SameKin
  <2> QED
    BY <1>5, <2>1, <2>2
<1>7. /\ DOMAIN r.tasks = DOMAIN s.tasks /\ DOMAIN r.archive = DOMAIN s.archive
      /\ \A x \in DOMAIN s.tasks :
           /\ r.tasks[x].parent = s.tasks[x].parent /\ r.tasks[x].project = s.tasks[x].project
           /\ r.tasks[x].tags = s.tasks[x].tags \ {h}
  BY <1>5 DEF Untags
<1>8. /\ DOMAIN r.tagged = DOMAIN s.tagged \ {h}
      /\ \A g \in DOMAIN s.tagged \ {h} : r.tagged[g] = s.tagged[g]
  BY <1>4 DEF Without, Restrict
<1>9. Apart(r) /\ INBOX \in DOMAIN r.lists
  BY <1>4, <1>7, SoundParts DEF Apart
<1>10. ASSUME NEW x \in DOMAIN r.tasks
       PROVE  r.tasks[x].project \in DOMAIN r.lists
  BY <1>4, <1>7, SoundLists
<1>11. ASSUME NEW l \in DOMAIN r.lists, NEW x
       PROVE  x \in r.lists[l] <=> IsListed(r, x, l)
  <2>1. x \in r.lists[l] <=> IsListed(s, x, l)
    BY <1>4, SoundLists
  <2> QED
    BY <1>7, <2>1 DEF IsListed
<1>12. ASSUME NEW x \in DOMAIN r.tasks, NEW g \in r.tasks[x].tags
       PROVE  g \in DOMAIN r.tagged /\ x \in r.tagged[g]
  BY <1>7, <1>8, SoundTags
<1>13. ASSUME NEW g \in DOMAIN r.tagged, NEW x \in r.tagged[g]
       PROVE  x \in DOMAIN r.tasks
  BY <1>7, <1>8, SoundTags
<1>14. Sound(r)
  BY <1>4, <1>6, <1>9, <1>10, <1>11, <1>12, <1>13, SoundBy
<1> QED
  BY <1>14 DEF r

LEMMA ArchiveSound ==
  ASSUME NEW s, Sound(s), NEW op, ByArchive(op, s)
  PROVE  Sound(Reduced(op, s))
<1>1. PICK t \in MainsOf(s) :
         op = [kind |-> "moveToArchive", task |-> t, records |-> Restrict(s.tasks, {t} \union s.tasks[t].subs)]
  BY DEF ByArchive
<1> DEFINE r == Reduced(op, s)
           j == s.tasks[t].project
           subs == s.tasks[t].subs
           family == {t} \union subs
           projects == {s.tasks[x].project : x \in family \intersect DOMAIN s.tasks}
<1>2. op.kind = "moveToArchive" /\ op.task = t /\ op.records = Restrict(s.tasks, family)
  BY <1>1
<1>3. s \in Store /\ t \in Tasks /\ t \in DOMAIN s.tasks /\ s.tasks[t].parent = None /\ t # None
  BY SoundParts DEF MainsOf
<1>4. \A x : x \in family <=> x = t \/ (x \in DOMAIN s.tasks /\ s.tasks[x].parent = t)
  BY <1>3, SoundKin
<1>5. SubsOf(s.tasks, t) = subs
  BY <1>3, SoundKin
<1>6. j \in projects
  BY <1>3
<1> HIDE DEF family, projects
<1>7. family \in SUBSET (DOMAIN s.tasks)
  BY <1>3, <1>4
<1>8. op.records \in ById(Tasks, Task) /\ DOMAIN op.records = family
  <2>1. s.tasks \in ById(Tasks, Task)
    BY SoundParts
  <2> QED
    BY <1>2, <1>7, <2>1, RestrictFacts
<1>9. /\ r \in Store /\ r.tasks = Removed(s.tasks, t, None, family) /\ r.archive = WithMany(s.archive, op.records)
      /\ r.lists = Unlisted(s.lists, projects, family) /\ r.tagged = Unlisted(s.tagged, Tags, family)
  <2>1. r = MoveToArchive(op, s)
    BY <1>2, ReducedByKind
  <2>2. LET w == MoveToArchive(op, s)
            gone == DOMAIN op.records
        IN  /\ w \in Store /\ w.tasks = Removed(s.tasks, op.task, None, gone) /\ w.archive = WithMany(s.archive, op.records)
            /\ w.lists = Unlisted(s.lists, {s.tasks[x].project : x \in gone \intersect DOMAIN s.tasks}, gone)
            /\ w.tagged = Unlisted(s.tagged, Tags, gone)
    BY <1>3, <1>8, MoveToArchiveShape
  <2>3. projects = {s.tasks[x].project : x \in DOMAIN op.records \intersect DOMAIN s.tasks}
    BY <1>8 DEF projects
  <2> HIDE DEF r
  <2> QED
    BY <1>2, <1>8, <2>1, <2>2, <2>3
<1> HIDE DEF r
<1>10. Drops(s.tasks, r.tasks, t, None, family)
  <2> DEFINE f == s.tasks
  <2>1. f \in ById(Tasks, Task)
    BY SoundParts
  <2>2. Drops(f, Removed(f, t, None, family), t, None, {t} \union family \union SubsOf(f, t))
    <3> HIDE DEF f
    <3> QED
      BY <2>1, RemovedFacts
  <2>3. {t} \union family \union SubsOf(f, t) = family
    BY <1>5 DEF family
  <2> QED
    BY <1>9, <2>2, <2>3
<1>11. Families(r.tasks)
  <2>1. s.tasks \in ById(Tasks, Task) /\ Families(s.tasks)
    BY SoundParts
  <2>2. Drops(s.tasks, r.tasks, t, s.tasks[t].parent, {t} \union s.tasks[t].subs)
    BY <1>3, <1>10 DEF family
  <2> QED
    BY <1>3, <2>1, <2>2, FamiliesReduced
<1>12. Families(r.archive)
  <2>1. s.tasks \in ById(Tasks, Task) /\ Families(s.tasks)
    BY SoundParts
  <2>2. \A x \in DOMAIN s.tasks : s.tasks[x].parent # None => (x \in family <=> s.tasks[x].parent \in family)
    <3>1. ASSUME NEW x \in DOMAIN s.tasks, s.tasks[x].parent # None
          PROVE  x \in family <=> s.tasks[x].parent \in family
      <4> DEFINE q == s.tasks[x].parent
      <4>1. q \in DOMAIN s.tasks /\ s.tasks[q].parent = None
        BY <3>1, SoundKin
      <4> HIDE DEF q
      <4>2. q \in family <=> q = t
        BY <1>3, <1>4, <4>1
      <4>3. x \in family <=> q = t
        BY <1>3, <1>4, <3>1 DEF q
      <4> QED
        BY <4>2, <4>3 DEF q
    <3> QED
      BY <3>1
  <2>3. Families(op.records)
    <3> DEFINE f == s.tasks
    <3>1. /\ f \in ById(Tasks, Task) /\ Families(f)
          /\ \A x \in DOMAIN f : f[x].parent # None => (x \in family <=> f[x].parent \in family)
      BY <2>1, <2>2
    <3>2. op.records = Restrict(f, family) /\ family \in SUBSET (DOMAIN f)
      BY <1>2, <1>7
    <3> HIDE DEF f
    <3> QED
      BY <3>1, <3>2, FamiliesRestricted
  <2>4. s.archive \in ById(Tasks, Task) /\ Families(s.archive)
    BY SoundParts
  <2>5. DOMAIN s.archive \intersect DOMAIN op.records = {}
    BY <1>7, <1>8, SoundParts
  <2>6. Families(WithMany(s.archive, op.records))
    BY <1>8, <2>3, <2>4, <2>5, FamiliesJoined
  <2> QED
    BY <1>9, <2>6
<1>13. /\ DOMAIN r.tasks = DOMAIN s.tasks \ family
       /\ \A x \in DOMAIN s.tasks \ family :
            /\ r.tasks[x].parent = s.tasks[x].parent /\ r.tasks[x].tags = s.tasks[x].tags
            /\ r.tasks[x].project = s.tasks[x].project
  BY <1>10 DEF Drops
<1>14. /\ DOMAIN r.lists = DOMAIN s.lists
       /\ \A l \in DOMAIN s.lists : r.lists[l] = IF l \in projects THEN s.lists[l] \ family ELSE s.lists[l]
  BY <1>9 DEF Unlisted
<1>15. /\ DOMAIN r.tagged = DOMAIN s.tagged
       /\ \A g \in DOMAIN s.tagged : r.tagged[g] = s.tagged[g] \ family
  BY <1>9, SoundParts DEF Unlisted
<1>16. Apart(r) /\ INBOX \in DOMAIN r.lists
  <2>1. DOMAIN r.archive = DOMAIN s.archive \union family
    BY <1>8, <1>9 DEF WithMany
  <2> QED
    BY <1>13, <1>14, <2>1, SoundParts DEF Apart
<1>17. ASSUME NEW x \in DOMAIN r.tasks
       PROVE  r.tasks[x].project \in DOMAIN r.lists
  BY <1>13, <1>14, SoundLists
<1>18. ASSUME NEW l \in DOMAIN r.lists, NEW x
       PROVE  x \in r.lists[l] <=> IsListed(r, x, l)
  <2>1. x \in s.lists[l] <=> IsListed(s, x, l)
    BY <1>14, SoundLists
  <2>2. CASE x \in family
    <3>1. x \in s.lists[l] => l = j
      BY <1>3, <1>4, <2>1, <2>2 DEF IsListed
    <3>2. x \notin r.lists[l]
      BY <1>6, <1>14, <2>2, <3>1
    <3> QED
      BY <1>13, <2>2, <3>2 DEF IsListed
  <2>3. CASE x \notin family
    <3>1. x \in r.lists[l] <=> x \in s.lists[l]
      BY <1>14, <2>3
    <3> QED
      BY <1>13, <2>1, <2>3, <3>1 DEF IsListed
  <2> QED
    BY <2>2, <2>3
<1>19. ASSUME NEW x \in DOMAIN r.tasks, NEW g \in r.tasks[x].tags
       PROVE  g \in DOMAIN r.tagged /\ x \in r.tagged[g]
  BY <1>13, <1>15, SoundTags
<1>20. ASSUME NEW g \in DOMAIN r.tagged, NEW x \in r.tagged[g]
       PROVE  x \in DOMAIN r.tasks
  BY <1>13, <1>15, SoundTags
<1>21. Sound(r)
  BY <1>9, <1>11, <1>12, <1>16, <1>17, <1>18, <1>19, <1>20, SoundBy
<1> QED
  BY <1>21 DEF r

\* Families whose tasks change their projects together.
LEMMA FamiliesRenamed ==
  ASSUME NEW f, NEW g, Families(f), DOMAIN g = DOMAIN f,
         \A x \in DOMAIN f : g[x].parent = f[x].parent /\ g[x].subs = f[x].subs,
         \A x, y \in DOMAIN f : f[x].project = f[y].project => g[x].project = g[y].project
  PROVE  Families(g)
<1>1. ASSUME NEW x \in DOMAIN f
      PROVE  Kin(g, x)
  <2>1. Kin(f, x)
    BY DEF Families
  <2>2. ASSUME f[x].parent # None
        PROVE  g[f[x].parent].parent = None /\ g[x].project = g[f[x].parent].project
    <3> DEFINE q == f[x].parent
    <3>1. q \in DOMAIN f /\ f[q].parent = None /\ f[x].project = f[q].project
      BY <2>1, <2>2 DEF Kin
    <3> HIDE DEF q
    <3>2. g[q].parent = None /\ g[x].project = g[q].project
      BY <3>1
    <3> QED
      BY <3>2 DEF q
  <2> QED
    BY <2>1, <2>2 DEF Kin
<1> QED
  BY <1>1 DEF Families

LEMMA RestoreSound ==
  ASSUME NEW s, Sound(s), NEW op, ByRestore(op, s)
  PROVE  Sound(Reduced(op, s))
<1>1. PICK t \in DOMAIN s.archive :
         /\ s.archive[t].parent = None
         /\ op = [kind |-> "restoreTask", task |-> t,
                  records |-> Restrict(s.archive, ({t} \union s.archive[t].subs) \intersect DOMAIN s.archive)]
  BY DEF ByRestore
<1> DEFINE r == Reduced(op, s)
           back == Back(op, s)
           family == ({t} \union s.archive[t].subs) \intersect DOMAIN s.archive
           j == back[t].project
<1>2. op.kind = "restoreTask" /\ op.task = t /\ op.records = Restrict(s.archive, family)
  BY <1>1
<1>3. /\ s \in Store /\ t \in Tasks /\ s.archive[t].parent = None /\ t # None
      /\ s.archive \in ById(Tasks, Task) /\ Families(s.archive)
  BY <1>1, SoundParts
<1>4. \A x : x \in family <=> x = t \/ (x \in DOMAIN s.archive /\ s.archive[x].parent = t)
  BY <1>3 DEF Families, Kin
<1> HIDE DEF family
<1>5. family \in SUBSET (DOMAIN s.archive) /\ t \in family
  BY <1>4
<1>6. /\ op.records \in ById(Tasks, Task) /\ DOMAIN op.records = family
      /\ \A x \in family : op.records[x] = s.archive[x]
  BY <1>2, <1>3, <1>5, RestrictFacts
<1>7. /\ r \in Store /\ r.tasks = WithMany(s.tasks, back) /\ r.archive = Without(s.archive, DOMAIN back)
      /\ r.lists = Listed(s.lists, {j}, {t})
      /\ r.tagged = TaggedWith(s.tagged, back)
  <2>1. r = RestoreTask(op, s)
    BY <1>2, ReducedByKind
  <2> QED
    <3> HIDE DEF r, back
    <3>1. op.task \in Tasks /\ op.records \in ById(Tasks, Task) /\ s \in Store
      BY <1>2, <1>3, <1>6
    <3>2. LET w == RestoreTask(op, s)
          IN  /\ w \in Store
              /\ w.tasks = WithMany(s.tasks, Back(op, s))
              /\ w.archive = Without(s.archive, DOMAIN Back(op, s))
              /\ w.lists = Listed(s.lists, {Back(op, s)[op.task].project}, {op.task})
              /\ w.tagged = TaggedWith(s.tagged, Back(op, s))
      BY <3>1, RestoreTaskShape
    <3>3. back = Back(op, s) /\ op.task = t
      BY <1>2 DEF back
    <3> QED
      BY <2>1, <3>2, <3>3
<1>8. /\ back \in ById(Tasks, Task) /\ DOMAIN back = family
      /\ \A x \in family :
           /\ back[x].parent = s.archive[x].parent /\ back[x].subs = s.archive[x].subs
           /\ back[x].project = (IF s.archive[x].project \in DOMAIN s.lists THEN s.archive[x].project ELSE INBOX)
           /\ back[x].tags = s.archive[x].tags \intersect DOMAIN s.tagged
  BY <1>3, <1>6, BackFacts
<1> HIDE DEF r, back
<1>9. \A x \in DOMAIN s.archive : s.archive[x].parent # None => (x \in family <=> s.archive[x].parent \in family)
  <2>1. ASSUME NEW x \in DOMAIN s.archive, s.archive[x].parent # None
        PROVE  x \in family <=> s.archive[x].parent \in family
    <3> DEFINE q == s.archive[x].parent
    <3>1. q \in DOMAIN s.archive /\ s.archive[q].parent = None
      BY <1>3, <2>1 DEF Families, Kin
    <3> HIDE DEF q
    <3>2. q \in family <=> q = t
      BY <1>3, <1>4, <3>1
    <3>3. x \in family <=> q = t
      BY <1>3, <1>4, <2>1 DEF q
    <3> QED
      BY <3>2, <3>3 DEF q
  <2> QED
    BY <2>1
<1>10. Families(back)
  <2> DEFINE f == s.archive
             h == Restrict(f, family)
  <2>1. /\ f \in ById(Tasks, Task) /\ Families(f) /\ family \in SUBSET (DOMAIN f)
        /\ \A x \in DOMAIN f : f[x].parent # None => (x \in family <=> f[x].parent \in family)
    BY <1>3, <1>5, <1>9
  <2>2. h = op.records
    BY <1>2
  <2>3. Families(h)
    <3> HIDE DEF f
    <3> QED
      BY <2>1, FamiliesRestricted
  <2>4. DOMAIN h = family /\ \A x \in family : h[x] = s.archive[x]
    BY <1>6, <2>2
  <2> HIDE DEF h
  <2>5. \A x \in DOMAIN h : back[x].parent = h[x].parent /\ back[x].subs = h[x].subs
    BY <1>8, <2>4
  <2>6. \A x, y \in DOMAIN h : h[x].project = h[y].project => back[x].project = back[y].project
    BY <1>8, <2>4
  <2>7. DOMAIN back = DOMAIN h
    BY <1>8, <2>4
  <2> QED
    BY <2>3, <2>5, <2>6, <2>7, FamiliesRenamed
<1>11. DOMAIN s.tasks \intersect DOMAIN back = {}
  BY <1>5, <1>8, SoundParts
<1>12. Families(r.tasks)
  <2>1. s.tasks \in ById(Tasks, Task) /\ Families(s.tasks)
    BY SoundParts
  <2>2. back \in ById(Tasks, Task)
    BY <1>8
  <2> QED
    BY <1>7, <1>10, <1>11, <2>1, <2>2, FamiliesJoined
<1>13. Families(r.archive)
  <2> DEFINE f == s.archive
             K == DOMAIN f \ family
  <2>1. f \in ById(Tasks, Task) /\ Families(f) /\ K \in SUBSET (DOMAIN f)
    BY <1>3
  <2>2. \A x \in DOMAIN f : f[x].parent # None => (x \in K <=> f[x].parent \in K)
    BY <1>3, <1>9 DEF Families, Kin
  <2>3. r.archive = Restrict(f, K)
    BY <1>7, <1>8 DEF Without
  <2> HIDE DEF f, K
  <2>4. Families(Restrict(f, K))
    BY <2>1, <2>2, FamiliesRestricted
  <2> QED
    BY <2>3, <2>4
<1>14. /\ DOMAIN r.tasks = DOMAIN s.tasks \union family
       /\ \A x \in DOMAIN s.tasks : r.tasks[x] = s.tasks[x]
       /\ \A x \in family : r.tasks[x] = back[x]
  BY <1>7, <1>8, <1>11 DEF WithMany
<1>15. /\ DOMAIN r.lists = DOMAIN s.lists
       /\ \A l \in DOMAIN s.lists : r.lists[l] = IF l = j THEN s.lists[l] \union {t} ELSE s.lists[l]
  BY <1>7 DEF Listed
<1>16. /\ DOMAIN r.tagged = DOMAIN s.tagged
       /\ \A g \in DOMAIN s.tagged : \A x : x \in r.tagged[g] <=> x \in s.tagged[g] \/ (x \in family /\ g \in back[x].tags)
  BY <1>7, <1>8 DEF TaggedWith
<1>17. Apart(r) /\ INBOX \in DOMAIN r.lists
  <2>1. DOMAIN r.archive = DOMAIN s.archive \ family
    BY <1>7, <1>8 DEF Without, Restrict
  <2> QED
    BY <1>14, <1>15, <2>1, SoundParts DEF Apart
<1>18. ASSUME NEW x \in DOMAIN r.tasks
       PROVE  r.tasks[x].project \in DOMAIN r.lists
  <2>1. CASE x \in DOMAIN s.tasks
    BY <1>14, <1>15, <2>1, SoundLists
  <2>2. CASE x \in family
    <3>1. back[x].project \in DOMAIN s.lists
      BY <1>8, <2>2, SoundParts
    <3> QED
      BY <1>14, <1>15, <2>2, <3>1
  <2> QED
    BY <1>14, <2>1, <2>2
<1>19. ASSUME NEW l \in DOMAIN r.lists, NEW x
       PROVE  x \in r.lists[l] <=> IsListed(r, x, l)
  <2>1. x \in s.lists[l] <=> IsListed(s, x, l)
    BY <1>15, SoundLists
  <2>2. CASE x \in family
    <3>1. x \notin DOMAIN s.tasks
      BY <1>8, <1>11, <2>2
    <3>2. x \notin s.lists[l]
      BY <2>1, <3>1 DEF IsListed
    <3>3. x \in DOMAIN r.tasks /\ r.tasks[x] = back[x]
      BY <1>14, <2>2
    <3>4. back[x].parent = None <=> x = t
      BY <1>3, <1>4, <1>8, <2>2
    <3>5. x \in r.lists[l] <=> l = j /\ x = t
      BY <1>15, <3>2
    <3> QED
      BY <3>3, <3>4, <3>5 DEF IsListed
  <2>3. CASE x \notin family
    <3>1. x \in r.lists[l] <=> x \in s.lists[l]
      BY <1>5, <1>15, <2>3
    <3> QED
      BY <1>14, <2>1, <2>3, <3>1 DEF IsListed
  <2> QED
    BY <2>2, <2>3
<1>20. ASSUME NEW x \in DOMAIN r.tasks, NEW g \in r.tasks[x].tags
       PROVE  g \in DOMAIN r.tagged /\ x \in r.tagged[g]
  <2>1. CASE x \in DOMAIN s.tasks
    BY <1>14, <1>16, <2>1, SoundTags
  <2>2. CASE x \in family
    <3>1. g \in back[x].tags
      BY <1>14, <2>2
    <3>2. g \in DOMAIN s.tagged
      BY <1>8, <2>2, <3>1
    <3> QED
      BY <1>16, <2>2, <3>1, <3>2
  <2> QED
    BY <1>14, <2>1, <2>2
<1>21. ASSUME NEW g \in DOMAIN r.tagged, NEW x \in r.tagged[g]
       PROVE  x \in DOMAIN r.tasks
  <2>1. x \in s.tagged[g] \/ x \in family
    BY <1>16
  <2> QED
    BY <1>14, <1>16, <2>1, SoundTags
<1>22. Sound(r)
  BY <1>7, <1>12, <1>13, <1>17, <1>18, <1>19, <1>20, <1>21, SoundBy
<1> QED
  BY <1>22 DEF r

\* What an action of the user makes of a sound store is sound, and it does not throw.
LEMMA MadeSound ==
  ASSUME NEW s, Sound(s), NEW op, MadeOf(op, s)
  PROVE  Sound(Reduced(op, s)) /\ Proper(op, s)
<1>1. Proper(op, s)
  <2>1. s \in Store /\ Fits(s)
    BY SoundFits DEF Sound
  <2> QED
    BY <2>1, MadeProper
<1>2. Sound(Reduced(op, s))
  BY CreateTaskSound, CreateSubTaskSound, RemoveTaskSound, ConvertToMainTaskSound, ConvertToSubTaskSound,
     DragSubTaskSound, ToggleTagsSound, RemoveTagSound, MoveToOtherProjectSound, RemoveProjectSound,
     ArchiveSound, RestoreSound DEF MadeOf
<1> QED
  BY <1>1, <1>2

-----------------------------------------------------------------------------
(* Histories without concurrent operations *)

\* An operation that the user makes of one store and that leads to the other.
Made2(s, e, r) == MadeOf(e.op, s) /\ r = Reduced(e.op, s)

\* The stores that a run of such operations leads through.
Runs(w, entries) == Sound(w[0]) /\ \A k \in 1..Len(entries) : Made2(w[k - 1], entries[k], w[k])

LEMMA RunsSound ==
  ASSUME NEW entries \in Seq(Entry), NEW w, Runs(w, entries)
  PROVE  (\A k \in 0..Len(entries) : Sound(w[k])) /\ Leads(entries, w)
<1> DEFINE n == Len(entries)
           S == {k \in 0..n : Sound(w[k])}
<1>1. n \in Nat
  OBVIOUS
<1>2. 0 \in S
  BY <1>1 DEF Runs
<1>3. ASSUME NEW k \in 0..n - 1, k \in S
      PROVE  k + 1 \in S
  <2>1. k + 1 \in 1..n /\ (k + 1) - 1 = k
    BY <1>1
  <2>2. MadeOf(entries[k + 1].op, w[k]) /\ w[k + 1] = Reduced(entries[k + 1].op, w[k])
    BY <2>1 DEF Runs, Made2
  <2>3. Sound(w[k])
    BY <1>3
  <2>4. Sound(w[k + 1])
    BY <2>2, <2>3, MadeSound
  <2> QED
    BY <1>1, <2>1, <2>4
<1>4. \A k \in 0..n : Sound(w[k])
  <2> HIDE DEF S, n
  <2>1. \A k \in 0..n : k \in S
    BY <1>1, <1>2, <1>3, SegmentInduction
  <2> QED
    BY <2>1 DEF S
<1>5. ASSUME NEW k \in 1..n
      PROVE  ~Throws(entries[k].op, w[k - 1]) /\ w[k] = Reduced(entries[k].op, w[k - 1])
  <2>1. k - 1 \in 0..n
    BY <1>1
  <2>2. Sound(w[k - 1])
    BY <1>4, <2>1
  <2>3. MadeOf(entries[k].op, w[k - 1]) /\ w[k] = Reduced(entries[k].op, w[k - 1])
    BY DEF Runs, Made2
  <2> QED
    BY <2>2, <2>3, MadeSound DEF Proper
<1> QED
  BY <1>4, <1>5 DEF Leads

\* No two of the first n operations of a history are concurrent.
Linear(h, n) == \A i, j \in 1..n : ~Concurrent(h, i, j)

LEMMA LinearSegment ==
  ASSUME NEW h, NEW n \in Nat, NEW m \in 0..n, Linear(h, n)
  PROVE  Linear(h, m)
BY DEF Linear

LEMMA LinearAlike ==
  ASSUME NEW h, NEW g, NEW n \in Nat, \A k \in 1..n : h[k] = g[k]
  PROVE  Linear(h, n) <=> Linear(g, n)
BY DEF Linear, Concurrent

\* The stores that the operations of a log lead through, while they are not concurrent.
Traces(st, h) ==
  Sound(st[0]) /\ \A j \in 1..Len(h) : Linear(h, j) => Made2(st[j - 1], h[j], st[j])

LEMMA TracesSound ==
  ASSUME NEW h \in Seq(Entry), NEW st, Traces(st, h), NEW n \in 0..Len(h), Linear(h, n)
  PROVE  Sound(st[n])
<1> DEFINE S == {k \in 0..n : Sound(st[k])}
<1>1. n \in Nat /\ Len(h) \in Nat /\ n <= Len(h)
  OBVIOUS
<1>2. 0 \in S
  BY <1>1 DEF Traces
<1>3. ASSUME NEW k \in 0..n - 1, k \in S
      PROVE  k + 1 \in S
  <2>1. k + 1 \in 1..Len(h) /\ (k + 1) - 1 = k /\ k + 1 \in 0..n
    BY <1>1
  <2>2. Linear(h, k + 1)
    BY <1>1, <2>1, LinearSegment
  <2>3. MadeOf(h[k + 1].op, st[k]) /\ st[k + 1] = Reduced(h[k + 1].op, st[k])
    BY <2>1, <2>2 DEF Traces, Made2
  <2>4. Sound(st[k])
    BY <1>3
  <2>5. Sound(st[k + 1])
    BY <2>3, <2>4, MadeSound
  <2> QED
    BY <2>1, <2>5
<1>4. \A k \in 0..n : k \in S
  <2> HIDE DEF S
  <2> QED
    BY <1>1, <1>2, <1>3, SegmentInduction
<1> QED
  BY <1>1, <1>4

\* A store that some operations made of one the log leads to.
Ahead(st, n, entries, s) == \E w : Runs(w, entries) /\ w[0] = st[n] /\ w[Len(entries)] = s

\* Each store is the one that the operations its device has applied lead to, unless some
\* of them are concurrent.
Traced ==
  \E st : /\ Traces(st, log)
          /\ \A d \in Devices : Linear(log, seen[d]) => Ahead(st, seen[d], pending[d], store[d])

\* The operations a device has not uploaded are its own, made when it had seen what it
\* has seen, and what it has not seen is by others.
Authored ==
  /\ \A d \in Devices : \A k \in 1..Len(pending[d]) : pending[d][k].by = d /\ pending[d][k].base = seen[d]
  /\ \A d \in Devices : \A j \in 1..Len(log) : j > seen[d] => log[j].by # d

LEMMA InitTraced ==
  ASSUME Init
  PROVE  Traced /\ Authored
<1>1. PICK s \in StartStores : store = [d \in Devices |-> s]
  BY DEF Init
<1>2. Sound(s)
  BY StartSound
<1>3. log = <<>> /\ pending = [d \in Devices |-> <<>>] /\ seen = [d \in Devices |-> 0]
  BY DEF Init
<1> DEFINE st == [j \in 0..0 |-> s]
<1>4. st[0] = s
  OBVIOUS
<1> HIDE DEF st
<1>5. Traces(st, log)
  BY <1>2, <1>3, <1>4 DEF Traces
<1>6. Runs(st, <<>>)
  BY <1>2, <1>4 DEF Runs
<1>7. ASSUME NEW d \in Devices
      PROVE  Ahead(st, seen[d], pending[d], store[d])
  <2>1. seen[d] = 0 /\ pending[d] = <<>> /\ store[d] = s /\ Len(<<>>) = 0
    BY <1>1, <1>3
  <2> QED
    BY <1>4, <1>6, <2>1 DEF Ahead
<1>8. Traced
  BY <1>5, <1>7 DEF Traced
<1>9. Authored
  BY <1>3 DEF Authored
<1> QED
  BY <1>8, <1>9

\* One more operation.
LEMMA AheadByOne ==
  ASSUME NEW st, NEW n, NEW entries \in Seq(Entry), NEW s, Ahead(st, n, entries, s),
         NEW e \in Entry, MadeOf(e.op, s)
  PROVE  Ahead(st, n, Append(entries, e), Reduced(e.op, s))
<1>1. PICK w : Runs(w, entries) /\ w[0] = st[n] /\ w[Len(entries)] = s
  BY DEF Ahead
<1> DEFINE m == Len(entries)
           r == Reduced(e.op, s)
           longer == Append(entries, e)
           v == [k \in 0..m + 1 |-> IF k = m + 1 THEN r ELSE w[k]]
<1>2. m \in Nat /\ Len(longer) = m + 1
  OBVIOUS
<1>3. /\ \A k \in 1..m : longer[k] = entries[k]
      /\ longer[m + 1] = e
  OBVIOUS
<1> HIDE DEF longer
<1>4. v[0] = w[0] /\ v[m] = s /\ v[m + 1] = r /\ \A k \in 0..m : v[k] = w[k]
  BY <1>1, <1>2
<1> HIDE DEF v, m
<1>5. ASSUME NEW k \in 1..m + 1
      PROVE  Made2(v[k - 1], longer[k], v[k])
  <2>1. CASE k = m + 1
    <3>1. (m + 1) - 1 = m
      BY <1>2
    <3>2. Made2(s, e, r)
      BY DEF Made2
    <3> QED
      BY <1>3, <1>4, <2>1, <3>1, <3>2
  <2>2. CASE k # m + 1
    <3>1. k \in 1..m /\ k \in 0..m /\ k - 1 \in 0..m
      BY <1>2, <2>2
    <3>2. Made2(w[k - 1], entries[k], w[k])
      BY <1>1, <3>1 DEF Runs, m
    <3> QED
      BY <1>3, <1>4, <3>1, <3>2
  <2> QED
    BY <2>1, <2>2
<1>6. Runs(v, longer)
  BY <1>1, <1>2, <1>4, <1>5 DEF Runs
<1> QED
  BY <1>1, <1>2, <1>4, <1>6 DEF Ahead, longer

LEMMA MakesTraced ==
  ASSUME Typed, Born, Traced, Authored, NEW d \in Devices, Makes(d)
  PROVE  Traced' /\ Authored'
<1>1. PICK op : Dispatch(d, op) /\ MadeOf(op, store[d]) /\ born' = born \union Brings(op)
  BY DEF Makes
<1> DEFINE e == Made1(d, op)
<1>2. /\ e \in Entry
      /\ store' = [store EXCEPT ![d] = Reduced(op, store[d])]
      /\ pending' = [pending EXCEPT ![d] = Append(pending[d], e)]
      /\ log' = log /\ seen' = seen
  BY <1>1, DispatchFacts
<1>3. e.op = op /\ e.by = d /\ e.base = seen[d]
  BY DEF Made1
<1> HIDE DEF e
<1>4. \A x \in Devices : /\ store'[x] = IF x = d THEN Reduced(op, store[d]) ELSE store[x]
                         /\ pending'[x] = IF x = d THEN Append(pending[d], e) ELSE pending[x]
  BY <1>2 DEF Typed
<1>5. pending[d] \in Seq(Entry)
  BY DEF Typed
<1>6. Traced'
  <2>1. PICK st : /\ Traces(st, log)
                  /\ \A x \in Devices : Linear(log, seen[x]) => Ahead(st, seen[x], pending[x], store[x])
    BY DEF Traced
  <2>2. ASSUME NEW x \in Devices, Linear(log, seen[x])
        PROVE  Ahead(st, seen[x], pending'[x], store'[x])
    <3>1. Ahead(st, seen[x], pending[x], store[x])
      BY <2>1, <2>2
    <3>2. CASE x = d
      <4>1. Ahead(st, seen[d], Append(pending[d], e), Reduced(op, store[d]))
        BY <1>1, <1>2, <1>3, <1>5, <3>1, <3>2, AheadByOne
      <4> QED
        BY <1>4, <3>2, <4>1
    <3> QED
      BY <1>4, <3>1, <3>2
  <2> QED
    BY <1>2, <2>1, <2>2 DEF Traced
<1>7. Authored'
  <2> DEFINE q == pending[d]
             longer == Append(q, e)
  <2>0. q \in Seq(Entry) /\ Len(q) \in Nat
    BY <1>5
  <2>1. Len(longer) = Len(q) + 1 /\ longer[Len(q) + 1] = e /\ \A k \in 1..Len(q) : longer[k] = q[k]
    BY <2>0
  <2> HIDE DEF longer
  <2>2. ASSUME NEW k \in 1..Len(longer)
        PROVE  longer[k].by = d /\ longer[k].base = seen[d]
    <3>1. CASE k = Len(q) + 1
      BY <1>3, <2>1, <3>1
    <3>2. CASE k # Len(q) + 1
      <4>1. k \in 1..Len(q) /\ longer[k] = q[k]
        BY <2>0, <2>1, <3>2
      <4> QED
        BY <4>1 DEF Authored
    <3> QED
      BY <3>1, <3>2
  <2>3. ASSUME NEW x \in Devices, NEW k \in 1..Len(pending'[x])
        PROVE  pending'[x][k].by = x /\ pending'[x][k].base = seen[x]
    <3>1. CASE x = d
      <4>1. pending'[x] = longer
        BY <1>4, <3>1 DEF longer
      <4> QED
        BY <2>2, <3>1, <4>1
    <3>2. CASE x # d
      <4>1. pending'[x] = pending[x]
        BY <1>4, <3>2
      <4> QED
        BY <4>1 DEF Authored
    <3> QED
      BY <3>1, <3>2
  <2> QED
    BY <1>2, <2>3 DEF Authored
<1> QED
  BY <1>6, <1>7
\* Without concurrent operations a replay ends where the log does.
LEMMA ReplayEnds ==
  ASSUME Typed, NEW st, Traces(st, log), Linear(log, Len(log)), NEW d \in Devices, store[d] = st[seen[d]]
  PROVE  Batch(New1(d), store[d]).store = st[Len(log)]
<1> DEFINE q == New1(d)
           a == seen[d]
           n == Len(log)
           u == [k \in 0..n - a |-> st[a + k]]
<1>1. /\ q \in Seq(Entry) /\ Len(q) = n - a
      /\ \A k \in 1..Len(q) : q[k] = log[a + k] /\ a + k \in 1..n
  BY NewFacts
<1>2. log \in Seq(Entry) /\ n \in Nat /\ a \in Nat /\ a <= n
  BY DEF Typed
<1> HIDE DEF q, a, n
<1>3. u[0] = st[a] /\ u[n - a] = st[n] /\ \A k \in 0..n - a : u[k] = st[a + k]
  BY <1>2
<1> HIDE DEF u
<1>4. u[0] = store[d] /\ store[d] \in Store
  BY <1>3 DEF a, Typed
<1>5. ASSUME NEW k \in 1..Len(q)
      PROVE  ~Throws(q[k].op, u[k - 1]) /\ u[k] = Reduced(q[k].op, u[k - 1])
  <2>1. /\ a + k \in 1..n /\ (a + k) - 1 \in 0..n /\ k \in 0..n - a /\ k - 1 \in 0..n - a
        /\ (a + k) - 1 = a + (k - 1)
    BY <1>1, <1>2
  <2>2. Linear(log, a + k) /\ Linear(log, (a + k) - 1)
    <3>1. Linear(log, n) /\ a + k \in 0..n
      BY <2>1, <1>2 DEF n
    <3> QED
      BY <1>2, <2>1, <3>1, LinearSegment
  <2>3. Made2(st[(a + k) - 1], log[a + k], st[a + k])
    BY <2>1, <2>2 DEF Traces, n
  <2>4. Sound(st[(a + k) - 1])
    BY <1>2, <2>1, <2>2, TracesSound DEF n
  <2>5. u[k - 1] = st[(a + k) - 1] /\ u[k] = st[a + k] /\ q[k] = log[a + k]
    BY <1>1, <1>3, <2>1
  <2>6. MadeOf(q[k].op, u[k - 1]) /\ u[k] = Reduced(q[k].op, u[k - 1]) /\ Sound(u[k - 1])
    BY <2>3, <2>4, <2>5 DEF Made2
  <2> QED
    BY <2>6, MadeSound DEF Proper
<1>6. Leads(q, u)
  BY <1>5 DEF Leads
<1>7. Batch(q, u[0]) = [store |-> u[Len(q)], threw |-> FALSE]
  BY <1>1, <1>4, <1>6, BatchLeads
<1>8. u[Len(q)] = st[n]
  BY <1>1, <1>3
<1> QED
  BY <1>4, <1>7, <1>8 DEF q, n

LEMMA NothingNew ==
  ASSUME Typed, NEW d \in Devices, seen[d] = Len(log)
  PROVE  Batch(New1(d), store[d]).store = store[d]
<1> DEFINE u == [k \in 0..0 |-> store[d]]
           q == New1(d)
<1>1. q \in Seq(Entry) /\ Len(q) = 0
  <2>1. Len(log) \in Nat
    BY DEF Typed
  <2> QED
    BY <2>1, NewFacts
<1> HIDE DEF q
<1>2. u[0] = store[d] /\ u[0] \in Store
  BY DEF Typed
<1> HIDE DEF u
<1>3. Leads(q, u)
  BY <1>1 DEF Leads
<1>4. Batch(q, u[0]) = [store |-> u[Len(q)], threw |-> FALSE]
  BY <1>1, <1>2, <1>3, BatchLeads
<1> QED
  BY <1>1, <1>2, <1>4 DEF q

\* Operations that were made before others were seen are concurrent with these.
LEMMA UploadsConcurrent ==
  ASSUME Typed, Authored, NEW d \in Devices, seen[d] < Len(log), pending[d] # <<>>,
         NEW n \in Nat, n > Len(log)
  PROVE  ~Linear(log \o pending[d], n)
<1> DEFINE p == pending[d]
           m == Len(log)
           h == log \o p
<1>1. log \in Seq(Entry) /\ p \in Seq(Entry) /\ m \in Nat /\ Len(p) \in Nat /\ seen[d] \in Nat /\ Len(p) # 0
  BY DEF Typed
<1>2. p[1].by = d /\ p[1].base = seen[d]
  BY <1>1 DEF Authored
<1>3. log[m].by # d
  <2>1. m \in 1..Len(log) /\ m > seen[d]
    BY <1>1
  <2> QED
    BY <2>1 DEF Authored
<1>4. h[m] = log[m] /\ h[m + 1] = p[1]
  BY <1>1
<1> HIDE DEF h, p
<1>5. m < m + 1 /\ h[m].by # h[m + 1].by /\ h[m + 1].base < m
  BY <1>1, <1>2, <1>3, <1>4
<1>6. Concurrent(h, m, m + 1) /\ m \in 1..n /\ m + 1 \in 1..n
  BY <1>1, <1>5 DEF Concurrent
<1> QED
  BY <1>6 DEF Linear, h, p
LEMMA SyncedAuthored ==
  ASSUME Typed, Authored, NEW d \in Devices, Synced(d)
  PROVE  Authored'
<1> DEFINE p == pending[d]
           m == Len(log)
           h == log \o p
<1>1. log \in Seq(Entry) /\ p \in Seq(Entry) /\ m \in Nat /\ Len(p) \in Nat /\ Len(h) = m + Len(p)
  BY DEF Typed
<1>2. /\ log' = h
      /\ \A x \in Devices : /\ pending'[x] = IF x = d THEN <<>> ELSE pending[x]
                            /\ seen'[x] = IF x = d THEN Len(h) ELSE seen[x]
  BY DEF Synced, Typed
<1>3. (\A k \in 1..m : h[k] = log[k]) /\ \A k \in 1..Len(p) : h[m + k] = p[k]
  BY <1>1
<1> HIDE DEF h
<1>4. ASSUME NEW x \in Devices, NEW k \in 1..Len(pending'[x])
      PROVE  pending'[x][k].by = x /\ pending'[x][k].base = seen'[x]
  <2>1. x # d
    BY <1>2
  <2>2. pending'[x] = pending[x] /\ seen'[x] = seen[x]
    BY <1>2, <2>1
  <2> QED
    BY <2>2 DEF Authored
<1>5. ASSUME NEW x \in Devices, NEW j \in 1..Len(h), j > seen'[x]
      PROVE  h[j].by # x
  <2>1. x # d /\ seen'[x] = seen[x]
    BY <1>1, <1>2, <1>5
  <2>2. CASE j <= m
    BY <1>1, <1>3, <1>5, <2>1, <2>2 DEF Authored
  <2>3. CASE j > m
    <3> DEFINE k == j - m
    <3>1. k \in 1..Len(p) /\ j = m + k
      BY <1>1, <2>3
    <3> HIDE DEF k
    <3>2. h[j] = p[k] /\ p[k].by = d
      BY <1>3, <3>1 DEF Authored
    <3> QED
      BY <2>1, <3>2
  <2> QED
    BY <1>1, <2>2, <2>3
<1> QED
  BY <1>2, <1>4, <1>5 DEF Authored

LEMMA SyncedTraced ==
  ASSUME Typed, Traced, Authored, NEW d \in Devices, Synced(d)
  PROVE  Traced'
<1> DEFINE p == pending[d]
           m == Len(log)
           h == log \o p
           r == Batch(New1(d), store[d]).store
<1>1. /\ log \in Seq(Entry) /\ p \in Seq(Entry) /\ m \in Nat /\ Len(p) \in Nat
      /\ h \in Seq(Entry) /\ Len(h) = m + Len(p)
  BY DEF Typed
<1>2. /\ log' = h
      /\ \A x \in Devices : /\ pending'[x] = IF x = d THEN <<>> ELSE pending[x]
                            /\ seen'[x] = IF x = d THEN Len(h) ELSE seen[x]
                            /\ store'[x] = IF x = d THEN r ELSE store[x]
  BY DEF Synced, Typed
<1>3. (\A k \in 1..m : h[k] = log[k]) /\ (\A k \in 1..Len(p) : h[m + k] = p[k]) /\ (p = <<>> => h = log)
  BY <1>1
<1>4. \A x \in Devices : seen[x] \in 0..m
  BY DEF Typed
<1> HIDE DEF h, r
<1>5. PICK st : /\ Traces(st, log)
                /\ \A x \in Devices : Linear(log, seen[x]) => Ahead(st, seen[x], pending[x], store[x])
  BY DEF Traced
<1>6. PICK w : Linear(log, seen[d]) => Runs(w, p) /\ w[0] = st[seen[d]] /\ w[Len(p)] = store[d]
  <2>1. Linear(log, seen[d]) => \E w : Runs(w, p) /\ w[0] = st[seen[d]] /\ w[Len(p)] = store[d]
    BY <1>5 DEF Ahead
  <2> QED
    BY <2>1
<1> HIDE DEF p
<1> DEFINE nt == [j \in 0..m + Len(p) |-> IF j <= m THEN st[j] ELSE w[j - m]]
<1>7. (\A j \in 0..m : nt[j] = st[j]) /\ \A k \in 1..Len(p) : nt[m + k] = w[k]
  <2>1. \A j \in 0..m : j \in 0..m + Len(p) /\ j <= m
    BY <1>1
  <2>2. \A k \in 1..Len(p) : m + k \in 0..m + Len(p) /\ ~(m + k <= m) /\ (m + k) - m = k
    BY <1>1
  <2> QED
    BY <2>1, <2>2
<1> HIDE DEF nt
<1>8. \A j \in 0..m : Linear(h, j) <=> Linear(log, j)
  <2>1. ASSUME NEW j \in 0..m
        PROVE  Linear(h, j) <=> Linear(log, j)
    <3>1. j \in Nat /\ \A k \in 1..j : h[k] = log[k]
      BY <1>1, <1>3
    <3> QED
      BY <3>1, LinearAlike
  <2> QED
    BY <2>1
\* After the old log, a log that is linear had nothing new for d.
<1>9. ASSUME NEW n \in Nat, n > m, n <= Len(h), Linear(h, n)
      PROVE  seen[d] = m /\ Linear(log, m) /\ Runs(w, p) /\ w[0] = st[m] /\ w[Len(p)] = store[d]
  <2>1. p # <<>>
    BY <1>1, <1>9
  <2>2. ~(seen[d] < m)
    BY <1>9, <2>1, UploadsConcurrent DEF h, p
  <2>3. seen[d] = m
    BY <1>1, <1>4, <2>2
  <2>4. Linear(log, m)
    <3>1. m \in 0..n
      BY <1>1, <1>9
    <3>2. Linear(h, m)
      BY <1>9, <3>1, LinearSegment
    <3> QED
      BY <1>1, <1>8, <3>2
  <2> QED
    BY <1>6, <2>3, <2>4
<1>10. Traces(nt, h)
  <2>1. Sound(nt[0])
    BY <1>1, <1>5, <1>7 DEF Traces
  <2>2. ASSUME NEW j \in 1..Len(h), Linear(h, j)
        PROVE  Made2(nt[j - 1], h[j], nt[j])
    <3>1. CASE j <= m
      <4>1. j \in 1..m /\ j \in 0..m /\ j - 1 \in 0..m
        BY <1>1, <3>1
      <4>2. Made2(st[j - 1], log[j], st[j])
        BY <1>5, <1>8, <2>2, <4>1 DEF Traces
      <4> QED
        BY <1>3, <1>7, <4>1, <4>2
    <3>2. CASE j > m
      <4> DEFINE k == j - m
      <4>1. k \in 1..Len(p) /\ j = m + k /\ j - 1 = m + (k - 1) /\ j \in Nat /\ j <= Len(h)
        BY <1>1, <3>2
      <4> HIDE DEF k
      <4>2. Runs(w, p) /\ w[0] = st[m]
        BY <1>9, <2>2, <3>2, <4>1
      <4>3. Made2(w[k - 1], p[k], w[k])
        BY <4>1, <4>2 DEF Runs
      <4>4. nt[j] = w[k] /\ h[j] = p[k]
        BY <1>3, <1>7, <4>1
      <4>5. nt[j - 1] = w[k - 1]
        <5>1. CASE k = 1
          <6>1. j - 1 = m /\ m \in 0..m /\ k - 1 = 0
            BY <1>1, <4>1, <5>1
          <6> QED
            BY <1>7, <4>2, <6>1
        <5>2. CASE k # 1
          <6>1. k - 1 \in 1..Len(p)
            BY <1>1, <4>1, <5>2
          <6> QED
            BY <1>7, <4>1, <6>1
        <5> QED
          BY <5>1, <5>2
      <4> QED
        BY <4>3, <4>4, <4>5
    <3> QED
      BY <1>1, <3>1, <3>2
  <2> QED
    BY <2>1, <2>2 DEF Traces
<1>11. ASSUME NEW x \in Devices, x # d, Linear(h, seen[x])
       PROVE  Ahead(nt, seen[x], pending[x], store[x])
  <2>1. Linear(log, seen[x])
    BY <1>4, <1>8, <1>11
  <2>2. Ahead(st, seen[x], pending[x], store[x])
    BY <1>5, <2>1
  <2>3. nt[seen[x]] = st[seen[x]]
    BY <1>4, <1>7
  <2> QED
    BY <2>2, <2>3 DEF Ahead
<1>12. ASSUME Linear(h, Len(h))
       PROVE  Ahead(nt, Len(h), <<>>, r)
  <2>1. Len(h) \in Nat /\ Len(h) \in 0..Len(h)
    BY <1>1
  <2>2. Sound(nt[Len(h)])
    BY <1>1, <1>10, <1>12, <2>1, TracesSound
  <2>3. r = nt[Len(h)]
    <3>1. CASE p = <<>>
      <4>1. Len(h) = m /\ h = log /\ Len(p) = 0
        BY <1>1, <1>3, <3>1
      <4>2. Linear(log, seen[d])
        BY <1>1, <1>4, <1>12, <4>1, LinearSegment
      <4>3. store[d] = st[seen[d]]
        BY <1>6, <4>1, <4>2
      <4>4. r = st[m]
        BY <1>5, <1>12, <4>1, <4>3, ReplayEnds DEF r
      <4> QED
        BY <1>1, <1>7, <4>1, <4>4
    <3>2. CASE p # <<>>
      <4>1. Len(p) \in 1..Len(p) /\ Len(h) > m
        BY <1>1, <3>2
      <4>2. seen[d] = m /\ w[Len(p)] = store[d]
        BY <1>9, <1>12, <2>1, <4>1
      <4>3. r = store[d]
        BY <4>2, NothingNew DEF r
      <4> QED
        BY <1>1, <1>7, <4>1, <4>2, <4>3
    <3> QED
      BY <3>1, <3>2
  <2> DEFINE v == [k \in 0..0 |-> r]
  <2>4. v[0] = r
    OBVIOUS
  <2> HIDE DEF v
  <2>5. Runs(v, <<>>)
    BY <2>2, <2>3, <2>4 DEF Runs
  <2>6. Len(<<>>) = 0
    OBVIOUS
  <2> QED
    BY <2>3, <2>4, <2>5, <2>6 DEF Ahead
<1>13. ASSUME NEW x \in Devices, Linear(h, seen'[x])
       PROVE  Ahead(nt, seen'[x], pending'[x], store'[x])
  <2>1. CASE x = d
    BY <1>2, <1>12, <1>13, <2>1
  <2>2. CASE x # d
    BY <1>2, <1>11, <1>13, <2>2
  <2> QED
    BY <2>1, <2>2
<1> QED
  BY <1>2, <1>10, <1>13 DEF Traced

LEMMA NextTraced ==
  ASSUME Typed, Born, Traced, Authored, [Next]_vars
  PROVE  Traced' /\ Authored'
<1>1. CASE Next
  <2>1. PICK d \in Devices : Makes(d) \/ Sync(d)
    BY <1>1, NextMakes
  <2>2. CASE Makes(d)
    BY <2>2, MakesTraced
  <2>3. CASE Sync(d)
    <3>1. Synced(d) \/ Threw(d)
      BY <2>3, SyncFacts
    <3>2. CASE Threw(d)
      BY <3>2 DEF Threw, Traced, Authored
    <3> QED
      BY <3>1, <3>2, SyncedTraced, SyncedAuthored
  <2> QED
    BY <2>1, <2>2, <2>3
<1>2. CASE UNCHANGED vars
  BY <1>2 DEF vars, Traced, Authored
<1> QED
  BY <1>1, <1>2

LEMMA TracedConsistent ==
  ASSUME Typed, Traced
  PROVE  OwnEditsKeepConsistent
<1>1. PICK st : /\ Traces(st, log)
                /\ \A d \in Devices : Linear(log, seen[d]) => Ahead(st, seen[d], pending[d], store[d])
  BY DEF Traced
<1>2. ASSUME NEW d \in Devices, \A i, j \in DOMAIN History(d) : ~Concurrent(History(d), i, j)
      PROVE  Consistent(store[d])
  <2> DEFINE n == seen[d]
             p == pending[d]
             g == SubSeq(log, 1, n)
             h == g \o p
  <2>1. log \in Seq(Entry) /\ p \in Seq(Entry) /\ n \in Nat /\ n <= Len(log) /\ Len(p) \in Nat
    BY DEF Typed
  <2>2. g \in Seq(Entry) /\ Len(g) = n /\ \A k \in 1..n : g[k] = log[k]
    BY <2>1
  <2>3. h = History(d)
    BY DEF History
  <2> HIDE DEF g, p, n
  <2>4. DOMAIN h = 1..n + Len(p) /\ \A k \in 1..n : h[k] = log[k]
    BY <2>1, <2>2
  <2> HIDE DEF h
  <2>5. Linear(h, n)
    <3>1. \A i \in 1..n : i \in DOMAIN h
      BY <2>1, <2>4
    <3> QED
      BY <1>2, <2>3, <3>1 DEF Linear
  <2>6. Linear(log, n)
    BY <2>1, <2>4, <2>5, LinearAlike
  <2>7. PICK w : Runs(w, p) /\ w[Len(p)] = store[d]
    BY <1>1, <2>6 DEF Ahead, n, p
  <2>8. Sound(store[d])
    <3>1. Len(p) \in 0..Len(p)
      BY <2>1
    <3> QED
      BY <2>1, <2>7, <3>1, RunsSound
  <2> QED
    BY <2>8, SoundConsistent
<1> QED
  BY <1>2 DEF OwnEditsKeepConsistent

\* As long as no two operations that a device has applied are concurrent, both ends of
\* every relation agree in its store, however many devices made them, in whatever order,
\* and however often it replayed the operations of others.
THEOREM OwnEditsConsistent == Spec => []OwnEditsKeepConsistent
<1>1. Init => Typed /\ Born /\ Traced /\ Authored
  BY InitTyped, InitTraced
<1>2. Typed /\ Born /\ Traced /\ Authored /\ [Next]_vars => (Typed /\ Born /\ Traced /\ Authored)'
  BY NextTyped, NextTraced
<1>3. Typed /\ Traced => OwnEditsKeepConsistent
  BY TracedConsistent
<1> QED
  BY <1>1, <1>2, <1>3, PTL DEF Spec
-----------------------------------------------------------------------------
(* A task is in one place *)

\* No task is both in the store and in the archive, and the inbox is there.
Tidy(s) == s \in Store /\ Apart(s) /\ INBOX \in DOMAIN s.lists

\* The inbox is not deleted.
SparesInbox(op) == op.kind = "deleteProject" => op.project # INBOX

LEMMA TidyByParts ==
  ASSUME NEW s, Tidy(s), NEW r \in Store,
         DOMAIN r.tasks \subseteq DOMAIN s.tasks, DOMAIN r.archive \subseteq DOMAIN s.archive,
         DOMAIN r.lists = DOMAIN s.lists
  PROVE  Tidy(r)
BY DEF Tidy, Apart

LEMMA AddTaskTidy ==
  ASSUME NEW s, Tidy(s), NEW op, IsOperation(op), op.kind = "addTask", op.task \notin Everywhere(s)
  PROVE  Tidy(AddTask(op, s))
<1> DEFINE r == AddTask(op, s)
           new == [parent |-> None, project |-> op.project, tags |-> op.tags, subs |-> {}]
<1>1. op.task \in Tasks /\ op.project \in Projects /\ op.tags \in SUBSET Tags /\ s \in Store
  BY OperationFields DEF Tidy
<1>2. /\ r \in Store /\ r.tasks = WithOne(s.tasks, op.task, new) /\ r.archive = s.archive
      /\ r.lists = Listed(s.lists, {op.project}, {op.task})
  BY <1>1, AddTaskShape
<1>3. DOMAIN r.tasks = DOMAIN s.tasks \union {op.task} /\ DOMAIN r.lists = DOMAIN s.lists
  BY <1>2 DEF WithOne, Listed
<1> QED
  BY <1>2, <1>3 DEF Tidy, Apart, Everywhere

LEMMA AddSubTaskTidy ==
  ASSUME NEW s, Tidy(s), NEW op, IsOperation(op), op.kind = "addSubTask", op.task \notin Everywhere(s)
  PROVE  Tidy(AddSubTask(op, s))
<1> DEFINE r == AddSubTask(op, s)
           new == [parent |-> op.parent, project |-> s.tasks[op.parent].project, tags |-> {}, subs |-> {}]
<1>1. op.task \in Tasks /\ s \in Store
  BY OperationFields DEF Tidy
<1>2. CASE op.parent \in DOMAIN s.tasks
  <2>1. /\ r \in Store /\ r.archive = s.archive /\ r.lists = s.lists
        /\ r.tasks = WithOne(WithSub(s.tasks, op.parent, op.task), op.task, new)
    BY <1>1, <1>2, AddSubTaskShape
  <2>2. DOMAIN r.tasks = DOMAIN s.tasks \union {op.task}
    BY <2>1 DEF WithOne, WithSub
  <2> QED
    BY <2>1, <2>2 DEF Tidy, Apart, Everywhere
<1>3. CASE op.parent \notin DOMAIN s.tasks
  BY <1>3 DEF AddSubTask
<1> QED
  BY <1>2, <1>3

LEMMA ConvertToMainTidy ==
  ASSUME NEW s, Tidy(s), NEW op, IsOperation(op), op.kind = "convertToMain", ~Throws(op, s)
  PROVE  Tidy(ConvertToMain(op, s))
<1> DEFINE r == ConvertToMain(op, s)
<1>1. op.task \in Tasks /\ op.parent \in DOMAIN s.tasks /\ s \in Store
  BY OperationFields DEF Throws, Tidy
<1>2. /\ r \in Store /\ r.tasks = MadeMain(s.tasks, op.task, op.parent) /\ r.archive = s.archive
      /\ r.lists = Listed(s.lists, {op.project}, {op.task})
  BY <1>1, ConvertToMainShape
<1>3. DOMAIN r.tasks = DOMAIN s.tasks /\ DOMAIN r.lists = DOMAIN s.lists
  BY <1>2 DEF MadeMain, Listed
<1> QED
  BY <1>2, <1>3, TidyByParts

LEMMA ConvertToSubTidy ==
  ASSUME NEW s, Tidy(s), NEW op, IsOperation(op), op.kind = "convertToSub"
  PROVE  Tidy(ConvertToSub(op, s))
<1> DEFINE r == ConvertToSub(op, s)
<1>1. op.task \in Tasks /\ s \in Store
  BY OperationFields DEF Tidy
<1>2. CASE CanApplyConvertToSubTask(op.task, op.parent, s.tasks)
  <2>1. /\ r \in Store /\ r.tasks = MadeSub(s.tasks, op.task, op.parent) /\ r.archive = s.archive
        /\ r.lists = Unlisted(s.lists, {s.tasks[op.task].project}, {op.task})
    BY <1>1, <1>2, ConvertToSubShape
  <2>2. DOMAIN r.tasks = DOMAIN s.tasks /\ DOMAIN r.lists = DOMAIN s.lists
    BY <2>1 DEF MadeSub, Unlisted
  <2> QED
    BY <2>1, <2>2, TidyByParts
<1>3. CASE ~CanApplyConvertToSubTask(op.task, op.parent, s.tasks)
  BY <1>3 DEF ConvertToSub
<1> QED
  BY <1>2, <1>3

LEMMA MoveSubTaskTidy ==
  ASSUME NEW s, Tidy(s), NEW op, IsOperation(op), op.kind = "moveSubTask"
  PROVE  Tidy(MoveSubTask(op, s))
<1> DEFINE r == MoveSubTask(op, s)
           moves == /\ {op.source, op.target} \subseteq DOMAIN s.tasks
                    /\ op.task \notin Above(op.target, s.tasks) \union {op.source}
<1>1. op.task \in Tasks /\ s \in Store
  BY OperationFields DEF Tidy
<1>2. CASE moves
  <2>1. /\ r \in Store /\ r.tasks = MovedUnder(s.tasks, op.task, op.source, op.target) /\ r.archive = s.archive
        /\ r.lists = s.lists
    BY <1>1, <1>2, MoveSubTaskShape
  <2>2. DOMAIN r.tasks = DOMAIN s.tasks
    BY <2>1 DEF MovedUnder
  <2> QED
    BY <2>1, <2>2, TidyByParts
<1>3. CASE ~moves
  BY <1>3 DEF MoveSubTask
<1> QED
  BY <1>2, <1>3

LEMMA SetTagsTidy ==
  ASSUME NEW s, Tidy(s), NEW op, IsOperation(op), op.kind = "setTags"
  PROVE  Tidy(SetTags(op, s))
<1> DEFINE r == SetTags(op, s)
<1>1. op.tags \in SUBSET Tags /\ s \in Store
  BY OperationFields DEF Tidy
<1>2. CASE op.task \in DOMAIN s.tasks
  <2>1. r \in Store /\ r.tasks = Retagged(s.tasks, op.task, op.tags) /\ r.archive = s.archive /\ r.lists = s.lists
    BY <1>1, <1>2, SetTagsShape
  <2>2. DOMAIN r.tasks = DOMAIN s.tasks
    BY <2>1 DEF Retagged
  <2> QED
    BY <2>1, <2>2, TidyByParts
<1>3. CASE op.task \notin DOMAIN s.tasks
  BY <1>3 DEF SetTags
<1> QED
  BY <1>2, <1>3

LEMMA MoveToProjectTidy ==
  ASSUME NEW s, Tidy(s), NEW op, IsOperation(op), op.kind = "moveToProject"
  PROVE  Tidy(MoveToProject(op, s))
<1> DEFINE r == MoveToProject(op, s)
<1>1. op.task \in Tasks /\ op.target \in Projects /\ s \in Store
  BY OperationFields DEF Tidy
<1>2. /\ r \in Store /\ r.tasks = InProject(s.tasks, Along(op, s), op.target) /\ r.archive = s.archive
      /\ r.lists = Listed(Unlisted(s.lists, {Origin(op, s)}, Along(op, s)), {op.target}, {op.task})
  BY <1>1, MoveToProjectShape
<1>3. DOMAIN r.tasks = DOMAIN s.tasks /\ DOMAIN r.lists = DOMAIN s.lists
  BY <1>2 DEF InProject, Listed, Unlisted
<1> QED
  BY <1>2, <1>3, TidyByParts

LEMMA DeleteTaskTidy ==
  ASSUME NEW s, Tidy(s), NEW op, IsOperation(op), op.kind = "deleteTask"
  PROVE  Tidy(DeleteTask(op, s))
<1> DEFINE r == DeleteTask(op, s)
<1>1. op.task \in Tasks /\ s \in Store
  BY OperationFields DEF Tidy
<1>2. /\ r \in Store /\ r.tasks = Removed(s.tasks, op.task, op.parent, op.subs) /\ r.archive = s.archive
      /\ r.lists = Unlisted(s.lists, {op.project}, {op.task})
  BY <1>1, DeleteTaskShape
<1>3. DOMAIN r.tasks \subseteq DOMAIN s.tasks /\ DOMAIN r.lists = DOMAIN s.lists
  BY <1>2 DEF Removed, Without, Restrict, WithoutSub, Unlisted
<1> QED
  BY <1>2, <1>3, TidyByParts

LEMMA DeleteProjectTidy ==
  ASSUME NEW s, Tidy(s), NEW op, IsOperation(op), op.kind = "deleteProject", SparesInbox(op)
  PROVE  Tidy(DeleteProject(op, s))
<1> DEFINE r == DeleteProject(op, s)
           gone == ArchivedIn(s, op.project)
<1>1. op.project \in Projects /\ s \in Store
  BY OperationFields DEF Tidy
<1>2. /\ r \in Store /\ r.tasks = Without(s.tasks, op.tasks) /\ r.archive = Without(s.archive, gone)
      /\ r.lists = Without(s.lists, {op.project})
  BY <1>1, DeleteProjectShape
<1>3. DOMAIN r.tasks \subseteq DOMAIN s.tasks /\ DOMAIN r.archive \subseteq DOMAIN s.archive
  BY <1>2 DEF Without, Restrict
<1>4. DOMAIN r.lists = DOMAIN s.lists \ {op.project}
  BY <1>2 DEF Without, Restrict
<1> QED
  BY <1>2, <1>3, <1>4 DEF Tidy, Apart, SparesInbox

LEMMA DeleteTagTidy ==
  ASSUME NEW s, Tidy(s), NEW op, IsOperation(op), op.kind = "deleteTag"
  PROVE  Tidy(DeleteTag(op, s))
<1> DEFINE r == DeleteTag(op, s)
<1>1. op.tag \in Tags /\ s \in Store
  BY OperationFields DEF Tidy
<1>2. /\ r \in Store /\ r.tasks = Untagged(s.tasks, op.tag) /\ r.archive = Untagged(s.archive, op.tag)
      /\ r.lists = s.lists
  BY <1>1, DeleteTagShape
<1>3. DOMAIN r.tasks = DOMAIN s.tasks /\ DOMAIN r.archive = DOMAIN s.archive
  BY <1>2 DEF Untagged
<1> QED
  BY <1>2, <1>3, TidyByParts

LEMMA MoveToArchiveTidy ==
  ASSUME NEW s, Tidy(s), NEW op, IsOperation(op), op.kind = "moveToArchive"
  PROVE  Tidy(MoveToArchive(op, s))
<1> DEFINE r == MoveToArchive(op, s)
           gone == DOMAIN op.records
<1>1. op.records \in ById(Tasks, Task) /\ s \in Store
  BY OperationFields DEF Tidy
<1>2. /\ r \in Store /\ r.tasks = Removed(s.tasks, op.task, None, gone) /\ r.archive = WithMany(s.archive, op.records)
      /\ r.lists = Unlisted(s.lists, {s.tasks[x].project : x \in gone \intersect DOMAIN s.tasks}, gone)
  BY <1>1, MoveToArchiveShape
<1>3. DOMAIN r.tasks \subseteq DOMAIN s.tasks \ gone
  BY <1>2 DEF Removed, Without, Restrict, WithoutSub
<1>4. DOMAIN r.archive = DOMAIN s.archive \union gone /\ DOMAIN r.lists = DOMAIN s.lists
  BY <1>2 DEF WithMany, Unlisted
<1> QED
  BY <1>2, <1>3, <1>4 DEF Tidy, Apart

LEMMA RestoreTaskTidy ==
  ASSUME NEW s, Tidy(s), NEW op, IsOperation(op), op.kind = "restoreTask"
  PROVE  Tidy(RestoreTask(op, s))
<1> DEFINE r == RestoreTask(op, s)
           back == DOMAIN op.records
<1>1. op.records \in ById(Tasks, Task) /\ op.task \in Tasks /\ s \in Store
  BY OperationFields, MapFacts DEF Tidy
<1>2. /\ r \in Store /\ r.tasks = WithMany(s.tasks, Back(op, s))
      /\ r.archive = Without(s.archive, DOMAIN Back(op, s))
      /\ r.lists = Listed(s.lists, {Back(op, s)[op.task].project}, {op.task})
  BY <1>1, RestoreTaskShape
<1>3. DOMAIN r.tasks = DOMAIN s.tasks \union back /\ DOMAIN r.lists = DOMAIN s.lists
  BY <1>2 DEF WithMany, Back, Listed
<1>4. DOMAIN r.archive = DOMAIN s.archive \ back
  BY <1>2 DEF Without, Restrict, Back
<1> QED
  BY <1>2, <1>3, <1>4 DEF Tidy, Apart

LEMMA ReducedTidy ==
  ASSUME NEW s, Tidy(s), NEW op, IsOperation(op), ~Throws(op, s), SparesInbox(op), Adds(op) \intersect Everywhere(s) = {}
  PROVE  Tidy(Reduced(op, s))
<1>0. op.kind \in {"addTask", "addSubTask"} => op.task \notin Everywhere(s)
  BY DEF Adds
<1>1. CASE op.kind = "addTask"
  BY <1>0, <1>1, ReducedByKind, AddTaskTidy
<1>2. CASE op.kind = "addSubTask"
  BY <1>0, <1>2, ReducedByKind, AddSubTaskTidy
<1>3. CASE op.kind = "convertToMain"
  BY <1>3, ReducedByKind, ConvertToMainTidy
<1>4. CASE op.kind = "convertToSub"
  BY <1>4, ReducedByKind, ConvertToSubTidy
<1>5. CASE op.kind = "moveSubTask"
  BY <1>5, ReducedByKind, MoveSubTaskTidy
<1>6. CASE op.kind = "setTags"
  BY <1>6, ReducedByKind, SetTagsTidy
<1>7. CASE op.kind = "moveToProject"
  BY <1>7, ReducedByKind, MoveToProjectTidy
<1>8. CASE op.kind = "deleteTask"
  BY <1>8, ReducedByKind, DeleteTaskTidy
<1>9. CASE op.kind = "deleteProject"
  BY <1>9, ReducedByKind, DeleteProjectTidy
<1>10. CASE op.kind = "deleteTag"
  BY <1>10, ReducedByKind, DeleteTagTidy
<1>11. CASE op.kind = "moveToArchive"
  BY <1>11, ReducedByKind, MoveToArchiveTidy
<1>12. CASE op.kind = "restoreTask"
  BY <1>12, ReducedByKind, RestoreTaskTidy
<1> QED
  BY <1>1, <1>2, <1>3, <1>4, <1>5, <1>6, <1>7, <1>8, <1>9, <1>10, <1>11, <1>12, OperationFields

\* The tasks that a run of operations can bring in, and those that it makes.
Brought(entries) == UNION {Brings(entries[k].op) : k \in 1..Len(entries)}
Added(entries) == UNION {Adds(entries[k].op) : k \in 1..Len(entries)}

\* None of the operations carries a task that a later one makes.
InTurn(entries) == \A i, j \in 1..Len(entries) : i < j => Brings(entries[i].op) \intersect Adds(entries[j].op) = {}

SpareInbox(entries) == \A k \in 1..Len(entries) : SparesInbox(entries[k].op)

LEMMA AfterTidy ==
  ASSUME NEW r \in Outcome, Tidy(r.store), NEW op \in Operation, SparesInbox(op),
         Adds(op) \intersect Everywhere(r.store) = {}
  PROVE  Tidy(After(op, r).store)
<1>1. r.threw \in BOOLEAN /\ r = [store |-> r.store, threw |-> r.threw]
  BY DEF Outcome
<1>2. CASE r.threw \/ Throws(op, r.store)
  <2>1. After(op, r) = [store |-> r.store, threw |-> TRUE]
    BY <1>1, <1>2 DEF After
  <2> QED
    BY <2>1
<1>3. CASE ~(r.threw \/ Throws(op, r.store))
  <2>1. After(op, r) = [store |-> Reduced(op, r.store), threw |-> FALSE]
    BY <1>1, <1>3 DEF After
  <2>2. Tidy(Reduced(op, r.store))
    BY <1>3, OperationIsOperation, ReducedTidy
  <2> QED
    BY <2>1, <2>2
<1> QED
  BY <1>2, <1>3

LEMMA BatchTidy ==
  ASSUME NEW s, Tidy(s), NEW entries \in Seq(Entry), InTurn(entries), SpareInbox(entries),
         Added(entries) \intersect Everywhere(s) = {}
  PROVE  /\ Tidy(Batch(entries, s).store)
         /\ Everywhere(Batch(entries, s).store) \subseteq Everywhere(s) \union Brought(entries)
<1>0. s \in Store
  BY DEF Tidy
<1>1. PICK upto : Reduces(upto, entries, s) /\ Batch(entries, s) = upto[Len(entries)]
  BY <1>0, BatchSteps
<1> DEFINE n == Len(entries)
           upTo(k) == UNION {Brings(entries[i].op) : i \in 1..k}
           S == {k \in 0..n : /\ upto[k] \in Outcome /\ Tidy(upto[k].store)
                              /\ Everywhere(upto[k].store) \subseteq Everywhere(s) \union upTo(k)}
<1>2. n \in Nat
  OBVIOUS
<1>3. 0 \in S
  <2>1. upto[0] = [store |-> s, threw |-> FALSE]
    BY <1>1 DEF Reduces
  <2>2. upto[0] \in Outcome /\ upto[0].store = s
    BY <1>0, <2>1, StartOutcome
  <2>3. 0 \in 0..n
    BY <1>2
  <2> QED
    BY <2>2, <2>3
<1>4. ASSUME NEW k \in 0..n - 1, k \in S
      PROVE  k + 1 \in S
  <2>1. k + 1 \in 1..n /\ (k + 1) - 1 = k
    BY <1>2
  <2> DEFINE op == entries[k + 1].op
             r == upto[k]
  <2>2. upto[k + 1] = After(op, r)
    BY <1>1, <2>1 DEF Reduces
  <2>3. r \in Outcome /\ Tidy(r.store) /\ Everywhere(r.store) \subseteq Everywhere(s) \union upTo(k)
    BY <1>4
  <2>4. op \in Operation
    BY <2>1, EntryAt
  <2>5. Adds(op) \intersect Everywhere(s) = {}
    BY <2>1 DEF Added
  <2>6. Adds(op) \intersect upTo(k) = {}
    <3>1. \A i \in 1..k : i \in 1..n /\ i < k + 1
      BY <1>2, <2>1
    <3>2. \A i \in 1..k : Brings(entries[i].op) \intersect Adds(op) = {}
      BY <2>1, <3>1 DEF InTurn
    <3> QED
      BY <3>2
  <2>7. SparesInbox(op)
    BY <2>1 DEF SpareInbox
  <2>8. upTo(k + 1) = upTo(k) \union Brings(op)
    <3>1. 1..(k + 1) = (1..k) \union {k + 1}
      BY <1>2, <2>1
    <3> QED
      BY <3>1
  <2> HIDE DEF op, r, upTo
  <2>9. After(op, r) \in Outcome /\ Everywhere(After(op, r).store) \subseteq Everywhere(r.store) \union Brings(op)
    BY <2>3, <2>4, AfterFacts
  <2>10. Tidy(After(op, r).store)
    BY <2>3, <2>4, <2>5, <2>6, <2>7, AfterTidy
  <2>11. k + 1 \in 0..n
    BY <1>2, <2>1
  <2> QED
    BY <2>2, <2>3, <2>8, <2>9, <2>10, <2>11
<1>5. n \in S
  <2> HIDE DEF S, n
  <2>1. \A k \in 0..n : k \in S
    BY <1>2, <1>3, <1>4, SegmentInduction
  <2> QED
    BY <1>2, <2>1
<1> QED
  BY <1>1, <1>5 DEF Brought

LEMMA BroughtAppended ==
  ASSUME NEW q \in Seq(Entry), NEW e \in Entry
  PROVE  /\ Append(q, e) \in Seq(Entry) /\ Len(Append(q, e)) = Len(q) + 1 /\ Len(q) \in Nat
         /\ Append(q, e)[Len(q) + 1] = e
         /\ \A k \in 1..Len(q) : Append(q, e)[k] = q[k]
         /\ Brought(Append(q, e)) = Brought(q) \union Brings(e.op)
         /\ Added(Append(q, e)) = Added(q) \union Adds(e.op)
<1> DEFINE a == Append(q, e)
           n == Len(q)
<1>1. a \in Seq(Entry) /\ Len(a) = n + 1 /\ n \in Nat /\ a[n + 1] = e /\ \A k \in 1..n : a[k] = q[k]
  OBVIOUS
<1> HIDE DEF a, n
<1>2. 1..(n + 1) = (1..n) \union {n + 1}
  BY <1>1
<1>3. ASSUME NEW x
      PROVE  /\ x \in Brought(a) <=> (\E k \in 1..n : x \in Brings(q[k].op)) \/ x \in Brings(e.op)
             /\ x \in Added(a) <=> (\E k \in 1..n : x \in Adds(q[k].op)) \/ x \in Adds(e.op)
  <2>1. x \in Brought(a) <=> \E k \in 1..(n + 1) : x \in Brings(a[k].op)
    BY <1>1 DEF Brought
  <2>2. x \in Added(a) <=> \E k \in 1..(n + 1) : x \in Adds(a[k].op)
    BY <1>1 DEF Added
  <2>3. (\E k \in 1..(n + 1) : x \in Brings(a[k].op)) <=> (\E k \in 1..n : x \in Brings(a[k].op)) \/ x \in Brings(a[n + 1].op)
    BY <1>2
  <2>4. (\E k \in 1..(n + 1) : x \in Adds(a[k].op)) <=> (\E k \in 1..n : x \in Adds(a[k].op)) \/ x \in Adds(a[n + 1].op)
    BY <1>2
  <2> QED
    BY <1>1, <2>1, <2>2, <2>3, <2>4
<1>4. ASSUME NEW x
      PROVE  /\ x \in Brought(q) <=> \E k \in 1..n : x \in Brings(q[k].op)
             /\ x \in Added(q) <=> \E k \in 1..n : x \in Adds(q[k].op)
  BY DEF Brought, Added, n
<1>5. Brought(a) = Brought(q) \union Brings(e.op)
  BY <1>3, <1>4
<1>6. Added(a) = Added(q) \union Adds(e.op)
  BY <1>3, <1>4
<1> QED
  BY <1>1, <1>5, <1>6 DEF a, n

LEMMA BroughtJoined ==
  ASSUME NEW q \in Seq(Entry), NEW p \in Seq(Entry)
  PROVE  /\ q \o p \in Seq(Entry) /\ Len(q \o p) = Len(q) + Len(p) /\ Len(q) \in Nat /\ Len(p) \in Nat
         /\ \A k \in 1..Len(q) : (q \o p)[k] = q[k]
         /\ \A k \in (Len(q) + 1)..(Len(q) + Len(p)) : k - Len(q) \in 1..Len(p) /\ (q \o p)[k] = p[k - Len(q)]
         /\ Brought(q \o p) = Brought(q) \union Brought(p)
<1> DEFINE a == q \o p
           n == Len(q)
           m == Len(p)
<1>1. /\ a \in Seq(Entry) /\ Len(a) = n + m /\ n \in Nat /\ m \in Nat
      /\ \A k \in 1..n : a[k] = q[k]
      /\ \A k \in (n + 1)..(n + m) : k - n \in 1..m /\ a[k] = p[k - n]
  OBVIOUS
<1>2. \A k \in 1..m : n + k \in (n + 1)..(n + m) /\ (n + k) - n = k
  BY <1>1
<1> HIDE DEF a, n, m
<1>3. 1..(n + m) = (1..n) \union ((n + 1)..(n + m))
  BY <1>1
<1>4. \A k \in 1..m : a[n + k] = p[k] /\ n + k \in 1..(n + m)
  BY <1>1, <1>2, <1>3
<1>5. ASSUME NEW x
      PROVE  x \in Brought(a) <=> (\E k \in 1..n : x \in Brings(q[k].op)) \/ \E k \in 1..m : x \in Brings(p[k].op)
  <2>1. x \in Brought(a) <=> \E k \in 1..(n + m) : x \in Brings(a[k].op)
    BY <1>1 DEF Brought
  <2>2. ASSUME NEW k \in 1..(n + m), x \in Brings(a[k].op)
        PROVE  (\E l \in 1..n : x \in Brings(q[l].op)) \/ \E l \in 1..m : x \in Brings(p[l].op)
    <3>1. CASE k \in 1..n
      <4>1. a[k] = q[k]
        BY <1>1, <3>1
      <4> QED
        BY <2>2, <3>1, <4>1
    <3>2. CASE k \in (n + 1)..(n + m)
      <4>1. k - n \in 1..m /\ a[k] = p[k - n]
        BY <1>1, <3>2
      <4> QED
        BY <2>2, <4>1
    <3> QED
      BY <1>3, <3>1, <3>2
  <2>3. ASSUME NEW k \in 1..n, x \in Brings(q[k].op)
        PROVE  \E l \in 1..(n + m) : x \in Brings(a[l].op)
    <3>1. k \in 1..(n + m) /\ a[k] = q[k]
      BY <1>1, <1>3
    <3> QED
      BY <2>3, <3>1
  <2>4. ASSUME NEW k \in 1..m, x \in Brings(p[k].op)
        PROVE  \E l \in 1..(n + m) : x \in Brings(a[l].op)
    BY <1>4, <2>4
  <2> QED
    BY <2>1, <2>2, <2>3, <2>4
<1>6. ASSUME NEW x
      PROVE  /\ x \in Brought(q) <=> \E k \in 1..n : x \in Brings(q[k].op)
             /\ x \in Brought(p) <=> \E k \in 1..m : x \in Brings(p[k].op)
  BY DEF Brought, n, m
<1>7. Brought(a) = Brought(q) \union Brought(p)
  BY <1>5, <1>6
<1> QED
  BY <1>1, <1>7 DEF a, n, m

\* What a device knows of: the tasks of its store and of the operations it has yet to upload.
Known(d) == Everywhere(store[d]) \union Brought(pending[d])

\* A task that an operation makes is not known to a device that has not applied it, nor
\* to any operation before it.
Fresh ==
  /\ InTurn(log)
  /\ \A d \in Devices : InTurn(pending[d])
  /\ \A d \in Devices : \A j \in 1..Len(log) : seen[d] < j => Adds(log[j].op) \intersect Known(d) = {}
  /\ \A d, e \in Devices : d # e => Added(pending[e]) \intersect Known(d) = {}
  /\ \A e \in Devices : Added(pending[e]) \intersect Brought(log) = {}

\* The stores are tidy, and stay so whatever is uploaded.
AllTidy ==
  /\ \A d \in Devices : Tidy(store[d]) /\ SpareInbox(pending[d])
  /\ SpareInbox(log)

LEMMA MadeKinds ==
  ASSUME NEW s, NEW op, MadeOf(op, s)
  PROVE  \/ op.kind \notin {"deleteProject", "moveToArchive", "restoreTask"}
         \/ op.kind = "deleteProject" /\ ByRemoveProject(op, s)
         \/ op.kind = "moveToArchive" /\ ByArchive(op, s)
         \/ op.kind = "restoreTask" /\ ByRestore(op, s)
<1>1. ByCreateTask(op, s) => op.kind = "addTask"
  BY DEF ByCreateTask
<1>2. ByCreateSubTask(op, s) => op.kind = "addSubTask"
  BY DEF ByCreateSubTask
<1>3. ByRemoveTask(op, s) => op.kind = "deleteTask"
  BY DEF ByRemoveTask
<1>4. ByConvertToMainTask(op, s) => op.kind = "convertToMain"
  BY DEF ByConvertToMainTask
<1>5. ByConvertToSubTask(op, s) => op.kind = "convertToSub"
  BY DEF ByConvertToSubTask
<1>6. ByDragSubTask(op, s) => op.kind = "moveSubTask"
  BY DEF ByDragSubTask
<1>7. ByToggleTags(op, s) => op.kind = "setTags"
  BY DEF ByToggleTags
<1>8. ByRemoveTag(op, s) => op.kind = "deleteTag"
  BY DEF ByRemoveTag
<1>9. ByMoveToOtherProject(op, s) => op.kind = "moveToProject"
  BY DEF ByMoveToOtherProject
<1>10. ByRemoveProject(op, s) => op.kind = "deleteProject"
  BY DEF ByRemoveProject
<1>11. ByArchive(op, s) => op.kind = "moveToArchive"
  BY DEF ByArchive
<1>12. ByRestore(op, s) => op.kind = "restoreTask"
  BY DEF ByRestore
<1> QED
  BY <1>1, <1>2, <1>3, <1>4, <1>5, <1>6, <1>7, <1>8, <1>9, <1>10, <1>11, <1>12 DEF MadeOf

LEMMA MadeSpares ==
  ASSUME NEW s, NEW op, MadeOf(op, s)
  PROVE  SparesInbox(op)
<1>1. ByRemoveProject(op, s) => op.project # INBOX
  BY DEF ByRemoveProject
<1> QED
  BY <1>1, MadeKinds DEF SparesInbox

LEMMA MadeBrings ==
  ASSUME NEW s \in Store, Fits(s), NEW op, MadeOf(op, s)
  PROVE  Brings(op) \subseteq Everywhere(s) \/ Brings(op) = Adds(op)
<1>1. CASE ByArchive(op, s)
  <2>1. PICK t \in MainsOf(s) :
          op = [kind |-> "moveToArchive", task |-> t, records |-> Restrict(s.tasks, {t} \union s.tasks[t].subs)]
    BY <1>1 DEF ByArchive
  <2>2. t \in DOMAIN s.tasks /\ s.tasks[t].subs \subseteq DOMAIN s.tasks
    BY DEF MainsOf, Fits
  <2>3. Brings(op) = {t} \union s.tasks[t].subs
    BY <2>1 DEF Brings, Restrict
  <2> QED
    BY <2>2, <2>3 DEF Everywhere
<1>2. CASE ByRestore(op, s)
  <2>1. PICK t \in DOMAIN s.archive :
          op = [kind |-> "restoreTask", task |-> t,
                records |-> Restrict(s.archive, ({t} \union s.archive[t].subs) \intersect DOMAIN s.archive)]
    BY <1>2 DEF ByRestore
  <2>2. Brings(op) = ({t} \union s.archive[t].subs) \intersect DOMAIN s.archive
    BY <2>1 DEF Brings, Restrict
  <2> QED
    BY <2>2 DEF Everywhere
<1>3. op.kind \notin {"moveToArchive", "restoreTask"} => Brings(op) = Adds(op)
  <2>1. CASE op.kind \in {"addTask", "addSubTask"}
    BY <2>1 DEF Brings, Adds
  <2>2. CASE op.kind \notin {"addTask", "addSubTask"}
    BY <2>2 DEF Brings, Adds
  <2> QED
    BY <2>1, <2>2
<1> QED
  BY <1>1, <1>2, <1>3, MadeKinds

LEMMA BornBrought ==
  ASSUME Born, NEW d \in Devices
  PROVE  Brought(log) \subseteq born /\ Brought(pending[d]) \subseteq born /\ Known(d) \subseteq born
BY DEF Born, BringsBorn, Brought, Known

LEMMA AddsBrings ==
  ASSUME NEW op
  PROVE  Adds(op) \subseteq Brings(op)
BY DEF Adds, Brings

LEMMA AddedBrought ==
  ASSUME NEW q
  PROVE  Added(q) \subseteq Brought(q)
BY AddsBrings DEF Added, Brought

LEMMA MakesFresh ==
  ASSUME Typed, Born, Fresh, AllTidy, NEW d \in Devices, Makes(d)
  PROVE  Fresh' /\ AllTidy'
<1>1. PICK op : Dispatch(d, op) /\ MadeOf(op, store[d]) /\ born' = born \union Brings(op) /\ Adds(op) \intersect born = {}
  BY DEF Makes
<1> DEFINE e == Made1(d, op)
           r == Reduced(op, store[d])
<1>2. /\ store[d] \in Store /\ Fits(store[d]) /\ Proper(op, store[d]) /\ e \in Entry
      /\ Everywhere(r) \subseteq Everywhere(store[d]) \union Brings(op)
      /\ store' = [store EXCEPT ![d] = r]
      /\ pending' = [pending EXCEPT ![d] = Append(pending[d], e)]
      /\ log' = log /\ seen' = seen
  BY <1>1, DispatchFacts DEF Stays
<1>3. e.op = op
  BY DEF Made1
<1>4. Tidy(r)
  <2>1. Adds(op) \intersect Everywhere(store[d]) = {}
    BY <1>1 DEF Born
  <2>2. IsOperation(op) /\ ~Throws(op, store[d])
    BY <1>2, OperationIsOperation DEF Proper
  <2>3. Tidy(store[d]) /\ SparesInbox(op)
    BY <1>1, MadeSpares DEF AllTidy
  <2> QED
    BY <2>1, <2>2, <2>3, ReducedTidy
<1> HIDE DEF e, r
<1> DEFINE q == pending[d]
<1>5. q \in Seq(Entry) /\ DOMAIN store = Devices /\ DOMAIN pending = Devices
  BY DEF Typed
<1>6. /\ store'[d] = r /\ pending'[d] = Append(q, e)
      /\ \A x \in Devices \ {d} : store'[x] = store[x] /\ pending'[x] = pending[x]
  BY <1>2, <1>5
<1> HIDE DEF q
<1>7. /\ Len(Append(q, e)) = Len(q) + 1 /\ Len(q) \in Nat
      /\ Append(q, e)[Len(q) + 1] = e
      /\ \A k \in 1..Len(q) : Append(q, e)[k] = q[k]
      /\ Brought(Append(q, e)) = Brought(q) \union Brings(op)
      /\ Added(Append(q, e)) = Added(q) \union Adds(op)
  BY <1>2, <1>3, <1>5, BroughtAppended
<1>8. Brings(op) \subseteq Known(d) \/ Brings(op) = Adds(op)
  BY <1>1, <1>2, MadeBrings DEF Known
<1>9. /\ Known(d)' \subseteq Known(d) \union Brings(op)
      /\ \A x \in Devices \ {d} : Known(x)' = Known(x)
  <2>1. Known(d) = Everywhere(store[d]) \union Brought(q)
    BY DEF Known, q
  <2>2. Known(d)' = Everywhere(r) \union (Brought(q) \union Brings(op))
    BY <1>6, <1>7 DEF Known
  <2> QED
    BY <1>2, <1>6, <2>1, <2>2 DEF Known
<1>10. \A x \in Devices : Brought(log) \subseteq born /\ Brought(pending[x]) \subseteq born /\ Known(x) \subseteq born
  BY BornBrought
<1>11. AllTidy'
  <2>1. SpareInbox(Append(q, e))
    <3>1. SpareInbox(q) /\ SparesInbox(op)
      BY <1>1, MadeSpares DEF AllTidy, q
    <3>2. ASSUME NEW k \in 1..Len(q) + 1
          PROVE  SparesInbox(Append(q, e)[k].op)
      <4>1. CASE k = Len(q) + 1
        BY <1>3, <1>7, <3>1, <4>1
      <4>2. CASE k # Len(q) + 1
        <5>1. k \in 1..Len(q)
          BY <1>7, <4>2
        <5> QED
          BY <1>7, <3>1, <5>1 DEF SpareInbox
      <4> QED
        BY <4>1, <4>2
    <3> QED
      BY <1>7, <3>2 DEF SpareInbox
  <2>2. SpareInbox(log)'
    BY <1>2 DEF AllTidy, SpareInbox
  <2>3. ASSUME NEW x \in Devices
        PROVE  Tidy(store'[x]) /\ SpareInbox(pending'[x])
    BY <1>4, <1>6, <2>1 DEF AllTidy
  <2> QED
    BY <2>2, <2>3 DEF AllTidy
<1>12. InTurn(Append(q, e))
  <2>1. InTurn(q) /\ Brought(q) \subseteq born
    BY <1>10 DEF Fresh, q
  <2>2. ASSUME NEW i \in 1..Len(q) + 1, NEW j \in 1..Len(q) + 1, i < j
        PROVE  Brings(Append(q, e)[i].op) \intersect Adds(Append(q, e)[j].op) = {}
    <3>1. i \in 1..Len(q) /\ Append(q, e)[i] = q[i]
      BY <1>7, <2>2
    <3>2. CASE j = Len(q) + 1
      <4>1. Brings(q[i].op) \subseteq born
        BY <2>1, <3>1 DEF Brought
      <4> QED
        BY <1>1, <1>3, <1>7, <3>1, <3>2, <4>1
    <3>3. CASE j # Len(q) + 1
      <4>1. j \in 1..Len(q) /\ Append(q, e)[j] = q[j]
        BY <1>7, <3>3
      <4> QED
        BY <2>1, <2>2, <3>1, <4>1 DEF InTurn
    <3> QED
      BY <3>2, <3>3
  <2> QED
    BY <1>7, <2>2 DEF InTurn
<1>13. ASSUME NEW x \in Devices
       PROVE  InTurn(pending'[x])
  BY <1>6, <1>12 DEF Fresh
<1>14. ASSUME NEW x \in Devices, NEW j \in 1..Len(log), seen[x] < j
       PROVE  Adds(log[j].op) \intersect Known(x)' = {}
  <2>1. Adds(log[j].op) \intersect Known(x) = {}
    BY <1>14 DEF Fresh
  <2>2. CASE x = d
    <3>1. Adds(log[j].op) \subseteq born
      <4>1. Brings(log[j].op) \subseteq born
        BY <1>10 DEF Brought
      <4> QED
        BY <4>1, AddsBrings
    <3> QED
      BY <1>1, <1>8, <1>9, <2>1, <2>2, <3>1
  <2> QED
    BY <1>9, <2>1, <2>2
<1>15. ASSUME NEW x \in Devices, NEW y \in Devices, x # y
       PROVE  Added(pending'[y]) \intersect Known(x)' = {}
  <2>1. Added(pending[y]) \intersect Known(x) = {}
    BY <1>15 DEF Fresh
  <2>2. Added(pending[y]) \subseteq born /\ Known(x) \subseteq born
    BY <1>10, AddedBrought
  <2>3. CASE y = d
    <3>1. Added(pending'[y]) = Added(pending[y]) \union Adds(op) /\ Known(x)' = Known(x)
      BY <1>6, <1>7, <1>9, <1>15, <2>3 DEF q
    <3> QED
      BY <1>1, <2>1, <2>2, <3>1
  <2>4. CASE y # d
    <3>1. pending'[y] = pending[y]
      BY <1>6, <2>4
    <3>2. CASE x = d
      BY <1>1, <1>8, <1>9, <2>1, <2>2, <3>1, <3>2
    <3>3. CASE x # d
      BY <1>9, <2>1, <3>1, <3>3
    <3> QED
      BY <3>2, <3>3
  <2> QED
    BY <2>3, <2>4
<1>16. ASSUME NEW y \in Devices
       PROVE  Added(pending'[y]) \intersect Brought(log) = {}
  <2>1. Added(pending[y]) \intersect Brought(log) = {}
    BY DEF Fresh
  <2>2. CASE y = d
    <3>1. Added(pending'[y]) = Added(pending[y]) \union Adds(op)
      BY <1>6, <1>7, <2>2 DEF q
    <3> QED
      BY <1>1, <1>10, <2>1, <3>1
  <2> QED
    BY <1>6, <2>1, <2>2
<1>17. Fresh'
  <2>1. InTurn(log)
    BY DEF Fresh
  <2> QED
    BY <1>2, <1>13, <1>14, <1>15, <1>16, <2>1 DEF Fresh
<1> QED
  BY <1>11, <1>17

LEMMA NewFresh ==
  ASSUME Typed, Fresh, AllTidy, NEW d \in Devices
  PROVE  /\ InTurn(New1(d)) /\ SpareInbox(New1(d))
         /\ Added(New1(d)) \intersect Known(d) = {}
         /\ Brought(New1(d)) \subseteq Brought(log)
<1> DEFINE q == New1(d)
           a == seen[d]
<1>1. /\ q \in Seq(Entry) /\ a \in Nat /\ Len(log) \in Nat
      /\ \A k \in 1..Len(q) : q[k] = log[a + k] /\ a + k \in 1..Len(log)
  BY NewFacts DEF Typed
<1>2. Len(q) \in Nat
  BY <1>1
<1>3. \A k \in 1..Len(q) : a < a + k
  BY <1>1, <1>2
<1>4. \A i, j \in 1..Len(q) : i < j => a + i < a + j
  BY <1>1, <1>2
<1> HIDE DEF q
<1>5. InTurn(q)
  <2>1. InTurn(log)
    BY DEF Fresh
  <2> HIDE DEF a
  <2>2. ASSUME NEW i \in 1..Len(q), NEW j \in 1..Len(q), i < j
        PROVE  Brings(q[i].op) \intersect Adds(q[j].op) = {}
    <3>1. a + i < a + j
      BY <1>4, <2>2
    <3>2. /\ q[i] = log[a + i] /\ a + i \in 1..Len(log)
          /\ q[j] = log[a + j] /\ a + j \in 1..Len(log)
      BY <1>1
    <3> QED
      BY <2>1, <3>1, <3>2 DEF InTurn
  <2> QED
    BY <2>2 DEF InTurn
<1>6. SpareInbox(q)
  BY <1>1 DEF SpareInbox, AllTidy
<1>7. ASSUME NEW k \in 1..Len(q)
      PROVE  Adds(q[k].op) \intersect Known(d) = {}
  BY <1>1, <1>3 DEF Fresh
<1>8. ASSUME NEW k \in 1..Len(q)
      PROVE  Brings(q[k].op) \subseteq Brought(log)
  BY <1>1 DEF Brought
<1> QED
  BY <1>5, <1>6, <1>7, <1>8 DEF Added, Brought, q

LEMMA SyncFresh ==
  ASSUME Typed, Born, Fresh, AllTidy, NEW d \in Devices, Sync(d)
  PROVE  Fresh' /\ AllTidy'
<1>1. Synced(d) \/ Threw(d)
  BY SyncFacts
<1>2. CASE Threw(d)
  <2>1. UNCHANGED <<store, log, pending, seen>>
    BY <1>2 DEF Threw
  <2>2. \A x \in Devices : Known(x)' = Known(x)
    BY <2>1 DEF Known
  <2>3. Fresh'
    BY <2>1, <2>2 DEF Fresh
  <2>4. AllTidy'
    BY <2>1 DEF AllTidy
  <2> QED
    BY <2>3, <2>4
<1>3. CASE Synced(d)
  <2> DEFINE r == Batch(New1(d), store[d])
             p == pending[d]
             s == r.store
  <2>1. /\ store' = [store EXCEPT ![d] = s]
        /\ log' = log \o p
        /\ pending' = [pending EXCEPT ![d] = <<>>]
        /\ seen' = [seen EXCEPT ![d] = Len(log')]
    BY <1>3 DEF Synced
  <2>2. Tidy(s) /\ Everywhere(s) \subseteq Everywhere(store[d]) \union Brought(log)
    <3>1. Tidy(store[d]) /\ New1(d) \in Seq(Entry)
      BY NewFacts DEF AllTidy
    <3>2. /\ InTurn(New1(d)) /\ SpareInbox(New1(d))
          /\ Added(New1(d)) \intersect Everywhere(store[d]) = {}
          /\ Brought(New1(d)) \subseteq Brought(log)
      BY NewFresh DEF Known
    <3> QED
      BY <3>1, <3>2, BatchTidy
  <2> HIDE DEF r, s
  <2>3. log \in Seq(Entry) /\ p \in Seq(Entry) /\ \A x \in Devices : seen[x] \in Nat
    BY DEF Typed
  <2>4. /\ store'[d] = s /\ pending'[d] = <<>> /\ seen'[d] = Len(log')
        /\ \A x \in Devices \ {d} : store'[x] = store[x] /\ pending'[x] = pending[x] /\ seen'[x] = seen[x]
    BY <2>1 DEF Typed
  <2> HIDE DEF p
  <2>5. /\ Len(log') = Len(log) + Len(p) /\ Len(log) \in Nat /\ Len(p) \in Nat
        /\ \A k \in 1..Len(log) : log'[k] = log[k]
        /\ \A k \in (Len(log) + 1)..(Len(log) + Len(p)) :
             k - Len(log) \in 1..Len(p) /\ log'[k] = p[k - Len(log)]
        /\ Brought(log') = Brought(log) \union Brought(p)
    BY <2>1, <2>3, BroughtJoined
  <2>6. \A k \in 1..Len(log') : k \in 1..Len(log) \/ k \in (Len(log) + 1)..(Len(log) + Len(p))
    BY <2>5
  <2>7. Brought(<<>>) = {} /\ Added(<<>>) = {} /\ InTurn(<<>>) /\ SpareInbox(<<>>)
    BY DEF Brought, Added, InTurn, SpareInbox
  <2>8. /\ Known(d)' \subseteq Known(d) \union Brought(log)
        /\ \A x \in Devices \ {d} : Known(x)' = Known(x)
    <3>1. Known(d)' = Everywhere(s) \union {}
      BY <2>4, <2>7 DEF Known
    <3> QED
      BY <2>2, <2>4, <3>1 DEF Known
  <2>9. AllTidy'
    <3>1. ASSUME NEW x \in Devices
          PROVE  Tidy(store'[x]) /\ SpareInbox(pending'[x])
      BY <2>2, <2>4, <2>7 DEF AllTidy
    <3>2. SpareInbox(p) /\ SpareInbox(log)
      BY DEF AllTidy, p
    <3>3. SpareInbox(log')
      BY <2>5, <2>6, <3>2 DEF SpareInbox
    <3> QED
      BY <3>1, <3>3 DEF AllTidy
  <2>10. InTurn(log')
    <3>1. InTurn(log) /\ InTurn(p) /\ Added(p) \intersect Brought(log) = {}
      BY DEF Fresh, p
    <3>2. ASSUME NEW i \in 1..Len(log'), NEW j \in 1..Len(log'), i < j
          PROVE  Brings(log'[i].op) \intersect Adds(log'[j].op) = {}
      <4>1. CASE j \in 1..Len(log)
        <5>1. i \in 1..Len(log)
          BY <2>5, <2>6, <3>2, <4>1
        <5> QED
          BY <2>5, <3>1, <3>2, <4>1, <5>1 DEF InTurn
      <4>2. CASE j \in (Len(log) + 1)..(Len(log) + Len(p))
        <5>1. j - Len(log) \in 1..Len(p) /\ log'[j] = p[j - Len(log)]
          BY <2>5, <4>2
        <5>2. CASE i \in 1..Len(log)
          <6>1. Brings(log'[i].op) \subseteq Brought(log)
            BY <2>5, <5>2 DEF Brought
          <6>2. Adds(log'[j].op) \subseteq Added(p)
            BY <5>1 DEF Added
          <6> QED
            BY <3>1, <6>1, <6>2
        <5>3. CASE i \in (Len(log) + 1)..(Len(log) + Len(p))
          <6>1. i - Len(log) \in 1..Len(p) /\ log'[i] = p[i - Len(log)]
            BY <2>5, <5>3
          <6>2. i - Len(log) < j - Len(log)
            BY <2>5, <3>2, <4>2, <5>3
          <6> QED
            BY <3>1, <5>1, <6>1, <6>2 DEF InTurn
        <5> QED
          BY <2>6, <5>2, <5>3
      <4> QED
        BY <2>6, <4>1, <4>2
    <3> QED
      BY <3>2 DEF InTurn
  <2>11. ASSUME NEW x \in Devices
         PROVE  InTurn(pending'[x])
    BY <2>4, <2>7 DEF Fresh
  <2>12. ASSUME NEW x \in Devices, NEW j \in 1..Len(log'), seen'[x] < j
         PROVE  Adds(log'[j].op) \intersect Known(x)' = {}
    <3>1. x # d
      BY <2>4, <2>5, <2>12
    <3>2. seen'[x] = seen[x] /\ Known(x)' = Known(x)
      BY <2>4, <2>8, <3>1
    <3>3. CASE j \in 1..Len(log)
      <4>1. log'[j] = log[j]
        BY <2>5, <3>3
      <4> QED
        BY <2>12, <3>2, <3>3, <4>1 DEF Fresh
    <3>4. CASE j \in (Len(log) + 1)..(Len(log) + Len(p))
      <4>1. Added(p) \intersect Known(x) = {}
        BY <3>1 DEF Fresh, p
      <4>2. j - Len(log) \in 1..Len(p) /\ log'[j] = p[j - Len(log)]
        BY <2>5, <3>4
      <4>3. Adds(log'[j].op) \subseteq Added(p)
        BY <4>2 DEF Added
      <4> QED
        BY <3>2, <4>1, <4>3
    <3> QED
      BY <2>6, <3>3, <3>4
  <2>13. ASSUME NEW x \in Devices, NEW y \in Devices, x # y
         PROVE  Added(pending'[y]) \intersect Known(x)' = {}
    <3>1. CASE y = d
      BY <2>4, <2>7, <3>1
    <3>2. CASE y # d
      <4>1. pending'[y] = pending[y] /\ Added(pending[y]) \intersect Known(x) = {}
            /\ Added(pending[y]) \intersect Brought(log) = {}
        BY <2>4, <2>13, <3>2 DEF Fresh
      <4> QED
        BY <2>8, <4>1
    <3> QED
      BY <3>1, <3>2
  <2>14. ASSUME NEW y \in Devices
         PROVE  Added(pending'[y]) \intersect Brought(log') = {}
    <3>1. CASE y = d
      BY <2>4, <2>7, <3>1
    <3>2. CASE y # d
      <4>1. pending'[y] = pending[y] /\ Added(pending[y]) \intersect Brought(log) = {}
        BY <2>4, <3>2 DEF Fresh
      <4>2. Added(pending[y]) \intersect Brought(p) = {}
        BY <3>2 DEF Fresh, Known, p
      <4> QED
        BY <2>5, <4>1, <4>2
    <3> QED
      BY <3>1, <3>2
  <2>15. Fresh'
    BY <2>10, <2>11, <2>12, <2>13, <2>14 DEF Fresh
  <2> QED
    BY <2>9, <2>15
<1> QED
  BY <1>1, <1>2, <1>3

LEMMA NextFresh ==
  ASSUME Typed, Born, Fresh, AllTidy, [Next]_vars
  PROVE  Fresh' /\ AllTidy'
<1>1. CASE Next
  BY <1>1, NextMakes, MakesFresh, SyncFresh
<1>2. CASE UNCHANGED vars
  <2>1. UNCHANGED <<store, log, pending, seen>>
    BY <1>2 DEF vars
  <2>2. \A x \in Devices : Known(x)' = Known(x)
    BY <2>1 DEF Known
  <2>3. Fresh'
    BY <2>1, <2>2 DEF Fresh
  <2>4. AllTidy'
    BY <2>1 DEF AllTidy
  <2> QED
    BY <2>3, <2>4
<1> QED
  BY <1>1, <1>2

LEMMA StartLists ==
  ASSUME NEW s \in StartStores
  PROVE  DOMAIN s.lists = Projects
<1>1. PICK ids \in SUBSET Tasks :
        \E parents \in {f \in [ids -> ids \union {None}] : \A t \in ids : f[t] # None => f[f[t]] = None} :
          s \in StoresOf(parents)
  BY DEF StartStores
<1>2. PICK parents \in {f \in [ids -> ids \union {None}] : \A t \in ids : f[t] # None => f[f[t]] = None} :
        s \in StoresOf(parents)
  BY <1>1
<1> DEFINE mains == {t \in DOMAIN parents : parents[t] = None}
<1>3. PICK archived \in SUBSET mains, projects \in [mains -> Projects], tags \in [DOMAIN parents -> SUBSET Tags] :
         s = StartOf(parents, archived, projects, tags)
  BY <1>2, StoresOfFamilies
<1> QED
  BY <1>3 DEF StartOf

LEMMA InitFresh ==
  ASSUME Init
  PROVE  Fresh /\ AllTidy
<1>1. PICK s \in StartStores : store = [d \in Devices |-> s]
  BY DEF Init
<1>2. log = <<>> /\ pending = [d \in Devices |-> <<>>] /\ seen = [d \in Devices |-> 0]
  BY DEF Init
<1>3. Brought(<<>>) = {} /\ Added(<<>>) = {} /\ InTurn(<<>>) /\ SpareInbox(<<>>) /\ 1..Len(<<>>) = {}
  BY DEF Brought, Added, InTurn, SpareInbox
<1>4. Tidy(s)
  <2>1. s \in Store /\ Apart(s)
    BY StartSound DEF Sound
  <2>2. DOMAIN s.lists = Projects
    BY StartLists
  <2> QED
    BY <2>1, <2>2, InboxAssumption DEF Tidy
<1>5. Fresh
  BY <1>2, <1>3 DEF Fresh
<1>6. AllTidy
  BY <1>1, <1>2, <1>3, <1>4 DEF AllTidy
<1> QED
  BY <1>5, <1>6

\* Whatever devices do at the same time, a task is in one place: archiving takes the
\* tasks it archives out of the store and restoring takes them out of the archive, on
\* every device, and a new task never takes the id of one that is about anywhere.
THEOREM TasksInOnePlace == Spec => []InOnePlace
<1>1. Init => Typed /\ Born /\ Fresh /\ AllTidy
  BY InitTyped, InitFresh
<1>2. Typed /\ Born /\ Fresh /\ AllTidy /\ [Next]_vars => (Typed /\ Born /\ Fresh /\ AllTidy)'
  BY NextTyped, NextFresh
<1>3. AllTidy => InOnePlace
  BY DEF AllTidy, Tidy, Apart, InOnePlace
<1> QED
  BY <1>1, <1>2, <1>3, PTL DEF Spec

-----------------------------------------------------------------------------
(* What a repair makes of a store *)

AllOf(s) == WithMany(s.tasks, s.archive)
ListedIn(s) == UNION {s.lists[p] : p \in DOMAIN s.lists}

\* The first two steps fill the lists: listed tasks are restored, main tasks are listed.
\* Nothing in a list of s is missing from w, and no task has changed.
Filled(s, w) ==
  /\ w \in Store /\ Apart(w)
  /\ DOMAIN w.lists = DOMAIN s.lists
  /\ DOMAIN s.tasks \subseteq DOMAIN w.tasks /\ DOMAIN w.tasks \subseteq DOMAIN s.tasks \union ListedIn(s)
  /\ Everywhere(w) = Everywhere(s)
  /\ \A t \in DOMAIN w.tasks : w.tasks[t] = AllOf(s)[t]
  /\ \A t \in DOMAIN w.archive : w.archive[t] = AllOf(s)[t]

\* The lists have tasks that were listed or are main tasks, and every main task of a
\* project that no other one lists.
ListsFilled(s, w) ==
  /\ \A p \in DOMAIN w.lists : \A t \in w.lists[p] :
       t \in DOMAIN w.tasks /\ (t \in ListedIn(s) \/ AllOf(s)[t].parent = None)
  /\ \A t \in DOMAIN w.tasks :
       LET r == AllOf(s)[t]
       IN  /\ r.parent = None /\ r.project \in DOMAIN s.lists
           /\ \A p \in DOMAIN s.lists \ {r.project} : t \notin s.lists[p]
           => t \in w.lists[r.project]

Merges(f, g, h) ==
  /\ h \in ById(Tasks, Task) /\ DOMAIN h = DOMAIN f \union DOMAIN g
  /\ \A x \in DOMAIN f \union DOMAIN g : h[x] = IF x \in DOMAIN f THEN f[x] ELSE g[x]

KeepsBut(f, keys, h) ==
  /\ h \in ById(Tasks, Task) /\ DOMAIN h = DOMAIN f \ keys
  /\ \A x \in DOMAIN f \ keys : h[x] = f[x]

LEMMA TasksMerged ==
  ASSUME NEW f \in ById(Tasks, Task), NEW g \in ById(Tasks, Task)
  PROVE  Merges(f, g, WithMany(f, g))
<1>1. WithMany(f, g) \in ById(Tasks, Task)
  BY WithManyFacts
<1> QED
  BY <1>1 DEF Merges, WithMany

LEMMA TasksKept ==
  ASSUME NEW f \in ById(Tasks, Task), NEW keys
  PROVE  KeepsBut(f, keys, Without(f, keys))
<1>1. Without(f, keys) \in ById(Tasks, Task)
  BY WithoutFacts
<1> QED
  BY <1>1 DEF KeepsBut, Without, Restrict

LEMMA AllOfFacts ==
  ASSUME NEW s \in Store
  PROVE  /\ AllOf(s) \in ById(Tasks, Task) /\ DOMAIN AllOf(s) = Everywhere(s)
         /\ \A t \in DOMAIN s.tasks : AllOf(s)[t] = s.tasks[t]
         /\ Apart(s) => \A t \in DOMAIN s.archive : AllOf(s)[t] = s.archive[t]
<1> DEFINE f == s.tasks
           g == s.archive
<1>1. f \in ById(Tasks, Task) /\ g \in ById(Tasks, Task)
  BY StoreParts
<1> HIDE DEF f, g
<1>2. /\ WithMany(f, g) \in ById(Tasks, Task) /\ DOMAIN WithMany(f, g) = DOMAIN f \union DOMAIN g
      /\ \A x \in DOMAIN f \union DOMAIN g : WithMany(f, g)[x] = IF x \in DOMAIN f THEN f[x] ELSE g[x]
  BY <1>1, TasksMerged DEF Merges
<1>3. AllOf(s) = WithMany(f, g) /\ Everywhere(s) = DOMAIN f \union DOMAIN g
  BY DEF AllOf, Everywhere, f, g
<1>4. Apart(s) => DOMAIN f \intersect DOMAIN g = {}
  BY DEF Apart, f, g
<1>5. /\ \A t \in DOMAIN f : AllOf(s)[t] = f[t]
      /\ Apart(s) => \A t \in DOMAIN g : AllOf(s)[t] = g[t]
  BY <1>2, <1>3, <1>4
<1> QED
  BY <1>2, <1>3, <1>5 DEF f, g

LEMMA RestoreListedShape ==
  ASSUME NEW s \in Store, Apart(s)
  PROVE  LET w == RestoreListed(s)
         IN  /\ Filled(s, w)
             /\ \A p \in DOMAIN s.lists : w.lists[p] = s.lists[p] \intersect Everywhere(s)
             /\ DOMAIN s.archive \intersect ListedIn(s) \subseteq DOMAIN w.tasks
<1> DEFINE w == RestoreListed(s)
           back == ListedIn(s) \intersect DOMAIN s.archive
           B == Restrict(s.archive, back)
           X == WithMany(B, s.tasks)
           A == Without(s.archive, back)
           L == [p \in DOMAIN s.lists |-> s.lists[p] \intersect (DOMAIN s.tasks \union DOMAIN s.archive)]
           G == [g \in DOMAIN s.tagged |-> s.tagged[g] \intersect DOMAIN s.tasks]
<1>1. w = [s EXCEPT !.tasks = X, !.lists = L, !.tagged = G, !.archive = A]
  BY DEF RestoreListed, ListedIn
<1>2. /\ s.tasks \in ById(Tasks, Task) /\ s.archive \in ById(Tasks, Task)
      /\ s.lists \in ById(Projects, SUBSET Tasks) /\ s.tagged \in ById(Tags, SUBSET Tasks)
  BY StoreParts
<1>3. back \in SUBSET DOMAIN s.archive
  OBVIOUS
<1> HIDE DEF back
<1>4. B \in ById(Tasks, Task) /\ DOMAIN B = back /\ \A x \in back : B[x] = s.archive[x]
  BY <1>2, <1>3, RestrictFacts
<1> HIDE DEF B
<1>5. /\ X \in ById(Tasks, Task) /\ DOMAIN X = back \union DOMAIN s.tasks
      /\ \A x \in back \union DOMAIN s.tasks : X[x] = IF x \in back THEN s.archive[x] ELSE s.tasks[x]
  <2> DEFINE f == s.tasks
  <2>1. f \in ById(Tasks, Task)
    BY <1>2
  <2> HIDE DEF f
  <2>2. /\ WithMany(B, f) \in ById(Tasks, Task) /\ DOMAIN WithMany(B, f) = DOMAIN B \union DOMAIN f
        /\ \A x \in DOMAIN B \union DOMAIN f : WithMany(B, f)[x] = IF x \in DOMAIN B THEN B[x] ELSE f[x]
    BY <1>4, <2>1, TasksMerged DEF Merges
  <2> QED
    BY <1>4, <2>2 DEF f
<1>6. /\ A \in ById(Tasks, Task) /\ DOMAIN A = DOMAIN s.archive \ back
      /\ \A x \in DOMAIN s.archive \ back : A[x] = s.archive[x]
  <2> DEFINE f == s.archive
  <2>1. f \in ById(Tasks, Task)
    BY <1>2
  <2> HIDE DEF f
  <2>2. /\ Without(f, back) \in ById(Tasks, Task) /\ DOMAIN Without(f, back) = DOMAIN f \ back
        /\ \A x \in DOMAIN f \ back : Without(f, back)[x] = f[x]
    BY <2>1, TasksKept DEF KeepsBut
  <2> QED
    BY <2>2 DEF f
<1>7. /\ L \in ById(Projects, SUBSET Tasks) /\ DOMAIN L = DOMAIN s.lists
      /\ \A p \in DOMAIN s.lists : L[p] = s.lists[p] \intersect Everywhere(s)
  BY <1>2, ByIdIsById DEF IsById, Everywhere
<1>8. G \in ById(Tags, SUBSET Tasks)
  BY <1>2, ByIdIsById DEF IsById
<1> HIDE DEF X, A, L, G, w
<1>9. w \in Store /\ w.tasks = X /\ w.archive = A /\ w.lists = L /\ w.tagged = G
  BY <1>1, <1>5, <1>6, <1>7, <1>8 DEF Store
<1>10. \A t \in DOMAIN s.tasks : AllOf(s)[t] = s.tasks[t]
  BY AllOfFacts
<1>11. \A t \in DOMAIN s.archive : AllOf(s)[t] = s.archive[t]
  BY AllOfFacts
<1>12. Filled(s, w)
  <2>1. Apart(w) /\ Everywhere(w) = Everywhere(s)
    BY <1>3, <1>5, <1>6, <1>9 DEF Apart, Everywhere
  <2>2. DOMAIN w.tasks \subseteq DOMAIN s.tasks \union ListedIn(s)
    BY <1>5, <1>9 DEF back
  <2>3. \A t \in DOMAIN w.tasks : w.tasks[t] = AllOf(s)[t]
    BY <1>3, <1>5, <1>9, <1>10, <1>11
  <2>4. \A t \in DOMAIN w.archive : w.archive[t] = AllOf(s)[t]
    BY <1>6, <1>9, <1>11
  <2> QED
    BY <1>5, <1>7, <1>9, <2>1, <2>2, <2>3, <2>4 DEF Filled
<1>13. DOMAIN s.archive \intersect ListedIn(s) \subseteq DOMAIN w.tasks
  BY <1>5, <1>9 DEF back
<1> QED
  BY <1>7, <1>9, <1>12, <1>13 DEF w

LEMMA FilledLists ==
  ASSUME NEW s \in Store, Apart(s)
  PROVE  LET w == AddOrphanedToLists(RestoreListed(s))
         IN  Filled(s, w) /\ ListsFilled(s, w)
<1> DEFINE u == RestoreListed(s)
           w == AddOrphanedToLists(u)
           orphans == {t \in DOMAIN u.tasks \ ListedIn(u) : u.tasks[t].parent = None}
           L == [p \in DOMAIN u.lists |-> u.lists[p] \union {t \in orphans : u.tasks[t].project = p}]
<1>1. /\ Filled(s, u)
      /\ \A p \in DOMAIN s.lists : u.lists[p] = s.lists[p] \intersect Everywhere(s)
      /\ DOMAIN s.archive \intersect ListedIn(s) \subseteq DOMAIN u.tasks
  BY RestoreListedShape
<1>2. w = [u EXCEPT !.lists = L]
  BY DEF AddOrphanedToLists, ListedIn
<1> HIDE DEF u
<1>3. u \in Store /\ DOMAIN u.lists = DOMAIN s.lists /\ \A t \in DOMAIN u.tasks : u.tasks[t] = AllOf(s)[t]
  BY <1>1 DEF Filled
<1>4. /\ u.lists \in ById(Projects, SUBSET Tasks) /\ u.tasks \in ById(Tasks, Task)
  BY <1>3, StoreParts
<1>5. orphans \in SUBSET Tasks
  BY <1>4, MapFacts
<1>6. /\ L \in ById(Projects, SUBSET Tasks) /\ DOMAIN L = DOMAIN s.lists
      /\ \A p \in DOMAIN s.lists : L[p] = u.lists[p] \union {t \in orphans : u.tasks[t].project = p}
  <2> HIDE DEF orphans
  <2> QED
    BY <1>3, <1>4, <1>5, ByIdIsById DEF IsById
<1> HIDE DEF L, w
<1>7. w \in Store /\ w.tasks = u.tasks /\ w.archive = u.archive /\ w.lists = L /\ w.tagged = u.tagged
  BY <1>2, <1>3, <1>6 DEF Store
<1>8. Filled(s, w)
  BY <1>1, <1>6, <1>7 DEF Filled, Apart, Everywhere
<1>9. ASSUME NEW p \in DOMAIN w.lists, NEW t \in w.lists[p]
      PROVE  t \in DOMAIN w.tasks /\ (t \in ListedIn(s) \/ AllOf(s)[t].parent = None)
  <2>1. p \in DOMAIN s.lists /\ w.lists[p] = u.lists[p] \union {x \in orphans : u.tasks[x].project = p}
    BY <1>6, <1>7
  <2>2. CASE t \in u.lists[p]
    <3>1. t \in s.lists[p] /\ t \in Everywhere(s)
      BY <1>1, <2>1, <2>2
    <3>2. t \in ListedIn(s)
      BY <2>1, <3>1 DEF ListedIn
    <3>3. t \in DOMAIN u.tasks
      BY <1>1, <3>1, <3>2 DEF Filled, Everywhere
    <3> QED
      BY <1>7, <3>2, <3>3
  <2>3. CASE t \in orphans
    BY <1>3, <1>7, <2>3
  <2> QED
    BY <2>1, <2>2, <2>3
<1>10. ASSUME NEW t \in DOMAIN w.tasks, AllOf(s)[t].parent = None, AllOf(s)[t].project \in DOMAIN s.lists,
              \A p \in DOMAIN s.lists \ {AllOf(s)[t].project} : t \notin s.lists[p]
       PROVE  t \in w.lists[AllOf(s)[t].project]
  <2> DEFINE q == AllOf(s)[t].project
  <2>1. t \in DOMAIN u.tasks /\ u.tasks[t] = AllOf(s)[t] /\ q \in DOMAIN s.lists
    BY <1>3, <1>7, <1>10
  <2>2. w.lists[q] = u.lists[q] \union {x \in orphans : u.tasks[x].project = q}
    BY <1>6, <1>7, <2>1
  <2>3. CASE t \in ListedIn(u)
    <3>1. PICK p \in DOMAIN u.lists : t \in u.lists[p]
      BY <2>3 DEF ListedIn
    <3>2. t \in s.lists[p] /\ p \in DOMAIN s.lists
      BY <1>1, <1>3, <3>1
    <3>3. p = q
      BY <1>10, <3>2
    <3> QED
      BY <2>2, <3>1, <3>3
  <2>4. CASE t \notin ListedIn(u)
    <3>1. t \in orphans
      BY <1>10, <2>1, <2>4
    <3> QED
      BY <2>1, <2>2, <3>1
  <2> QED
    BY <2>3, <2>4
<1>11. ListsFilled(s, w)
  BY <1>9, <1>10 DEF ListsFilled
<1> QED
  BY <1>8, <1>11 DEF w, u

\* Tasks whose parent is on the other side go there, where the parent lists them; tasks
\* whose parent is gone become main tasks.
Reunites(from, to, f, g) ==
  /\ f \in ById(Tasks, Task) /\ g \in ById(Tasks, Task)
  /\ DOMAIN f \intersect DOMAIN g = {} /\ DOMAIN f \union DOMAIN g = DOMAIN from \union DOMAIN to
  /\ DOMAIN to \subseteq DOMAIN g
  /\ \A t \in DOMAIN from : t \in DOMAIN g <=> from[t].parent \in DOMAIN to
  /\ \A t \in DOMAIN f :
       /\ t \in DOMAIN from
       /\ f[t].project = from[t].project /\ f[t].subs = from[t].subs
       /\ f[t].parent = from[t].parent \/ (f[t].parent = None /\ from[t].parent \notin DOMAIN from)
       /\ f[t].parent \in DOMAIN from \union {None}
  /\ \A t \in DOMAIN to :
       /\ g[t].parent = to[t].parent /\ g[t].project = to[t].project
       /\ \A x \in g[t].subs : x \in to[t].subs \/ (x \in DOMAIN from /\ from[x].parent = t)
  /\ \A t \in DOMAIN from \intersect DOMAIN g : g[t] = from[t]

LEMMA TasksReunited ==
  ASSUME NEW from \in ById(Tasks, Task), NEW to \in ById(Tasks, Task), DOMAIN from \intersect DOMAIN to = {}
  PROVE  LET lost == Orphans(from, DOMAIN from)
         IN  Reunites(from, to, Released(from, to, lost), Adopted(from, to, lost))
<1> DEFINE lost == Orphans(from, DOMAIN from)
           moved == {t \in lost \ DOMAIN to : from[t].parent \in DOMAIN to}
           kept == (DOMAIN from \ lost) \union {t \in lost \ DOMAIN to : from[t].parent \notin DOMAIN to}
           f == Released(from, to, lost)
           sub(x) == {t \in moved : from[t].parent = x}
           wide == [x \in DOMAIN to |-> [to[x] EXCEPT !.subs = to[x].subs \union sub(x)]]
           here == Restrict(from, moved)
           g == Adopted(from, to, lost)
<1>0. /\ DOMAIN from \in SUBSET Tasks /\ DOMAIN to \in SUBSET Tasks /\ None \notin Tasks
      /\ \A t \in DOMAIN from : from[t] \in Task
      /\ \A t \in DOMAIN to : to[t] \in Task
  BY MapFacts, NoneAssumption
<1>1. /\ f = [x \in kept |-> IF x \in lost THEN [from[x] EXCEPT !.parent = None] ELSE from[x]]
      /\ g = WithMany(wide, here)
  BY DEF Released, Adopted
<1>2. \A t \in DOMAIN from : t \in lost <=> from[t].parent \notin DOMAIN from \union {None}
  BY DEF Orphans
<1>3. lost \subseteq DOMAIN from
  BY DEF Orphans
<1> HIDE DEF lost
<1>4. \A t \in DOMAIN from : t \in moved <=> from[t].parent \in DOMAIN to
  BY <1>0, <1>2, <1>3
<1>5. \A t \in DOMAIN from : t \in kept <=> t \notin moved
  BY <1>0, <1>2, <1>3
<1>6. moved \in SUBSET DOMAIN from /\ kept \in SUBSET DOMAIN from /\ moved \in SUBSET Tasks
  BY <1>0, <1>3
<1>7. \A x \in DOMAIN to : sub(x) \in SUBSET Tasks /\ \A t \in sub(x) : t \in DOMAIN from /\ from[t].parent = x
  BY <1>6
<1> HIDE DEF moved, kept
<1>8. \A t \in DOMAIN from : [from[t] EXCEPT !.parent = None] \in Task
  BY <1>0 DEF Task
<1>9. /\ f \in ById(Tasks, Task) /\ DOMAIN f = kept
      /\ \A t \in kept : f[t] = IF t \in lost THEN [from[t] EXCEPT !.parent = None] ELSE from[t]
  <2> HIDE DEF f
  <2>1. f \in [kept -> Task]
    BY <1>0, <1>1, <1>6, <1>8
  <2>2. kept \in SUBSET Tasks
    BY <1>0, <1>6
  <2> QED
    BY <1>1, <2>1, <2>2, NewMap
<1>10. \A x \in DOMAIN to : /\ wide[x] \in Task /\ wide[x].parent = to[x].parent /\ wide[x].project = to[x].project
                            /\ wide[x].subs = to[x].subs \union sub(x)
  <2> HIDE DEF sub
  <2> QED
    BY <1>0, <1>7 DEF Task
<1>11. wide \in ById(Tasks, Task) /\ DOMAIN wide = DOMAIN to
  <2>1. wide \in [DOMAIN to -> Task]
    BY <1>10
  <2> HIDE DEF wide
  <2> QED
    BY <1>0, <2>1, NewMap
<1>12. here \in ById(Tasks, Task) /\ DOMAIN here = moved /\ \A x \in moved : here[x] = from[x]
  BY <1>6, RestrictFacts
<1> HIDE DEF wide, here, f, g, sub
<1>13. Merges(wide, here, g)
  BY <1>1, <1>11, <1>12, TasksMerged
<1>14. /\ g \in ById(Tasks, Task) /\ DOMAIN g = DOMAIN to \union moved
       /\ \A x \in DOMAIN to : g[x] = wide[x]
       /\ \A x \in moved \ DOMAIN to : g[x] = from[x]
  BY <1>11, <1>12, <1>13 DEF Merges
<1>15. moved \intersect DOMAIN to = {}
  BY <1>6
<1>16. \A t \in DOMAIN f :
         /\ t \in DOMAIN from
         /\ f[t].project = from[t].project /\ f[t].subs = from[t].subs
         /\ f[t].parent = from[t].parent \/ (f[t].parent = None /\ from[t].parent \notin DOMAIN from)
         /\ f[t].parent \in DOMAIN from \union {None}
  <2> SUFFICES ASSUME NEW t \in kept
               PROVE  /\ t \in DOMAIN from
                      /\ f[t].project = from[t].project /\ f[t].subs = from[t].subs
                      /\ f[t].parent = from[t].parent \/ (f[t].parent = None /\ from[t].parent \notin DOMAIN from)
                      /\ f[t].parent \in DOMAIN from \union {None}
    BY <1>9
  <2>1. t \in DOMAIN from /\ from[t] \in Task
    BY <1>0, <1>6
  <2>2. CASE t \in lost
    <3>1. f[t] = [from[t] EXCEPT !.parent = None]
      BY <1>9, <2>2
    <3>2. f[t].parent = None /\ f[t].project = from[t].project /\ f[t].subs = from[t].subs
      BY <2>1, <3>1 DEF Task
    <3> QED
      BY <1>2, <2>1, <2>2, <3>2
  <2>3. CASE t \notin lost
    BY <1>2, <1>9, <2>1, <2>3
  <2> QED
    BY <2>2, <2>3
<1>17. \A t \in DOMAIN to :
         /\ g[t].parent = to[t].parent /\ g[t].project = to[t].project
         /\ \A x \in g[t].subs : x \in to[t].subs \/ (x \in DOMAIN from /\ from[x].parent = t)
  BY <1>7, <1>10, <1>14
<1>18. Reunites(from, to, f, g)
  <2>1. DOMAIN f \intersect DOMAIN g = {} /\ DOMAIN f \union DOMAIN g = DOMAIN from \union DOMAIN to
    BY <1>5, <1>6, <1>9, <1>14
  <2>2. \A t \in DOMAIN from : t \in DOMAIN g <=> from[t].parent \in DOMAIN to
    BY <1>4, <1>14
  <2>3. \A t \in DOMAIN from \intersect DOMAIN g : g[t] = from[t]
    BY <1>14, <1>15
  <2> QED
    BY <1>9, <1>14, <1>16, <1>17, <2>1, <2>2, <2>3 DEF Reunites
<1> QED
  BY <1>18 DEF f, g, lost

LEMMA ReuniteArchivedShape ==
  ASSUME NEW s \in Store, Apart(s)
  PROVE  LET r == ReuniteArchived(s)
         IN  /\ r \in Store /\ r.lists = s.lists /\ r.tagged = s.tagged
             /\ Reunites(s.archive, s.tasks, r.archive, r.tasks)
<1> DEFINE lost == Orphans(s.archive, DOMAIN s.archive)
           A == Released(s.archive, s.tasks, lost)
           X == Adopted(s.archive, s.tasks, lost)
           r == ReuniteArchived(s)
<1>1. r = [s EXCEPT !.archive = A, !.tasks = X]
  BY DEF ReuniteArchived
<1>2. Reunites(s.archive, s.tasks, A, X)
  BY StoreParts, TasksReunited DEF Apart
<1> HIDE DEF A, X, r
<1>3. A \in ById(Tasks, Task) /\ X \in ById(Tasks, Task)
  BY <1>2 DEF Reunites
<1>4. r \in Store /\ r.tasks = X /\ r.archive = A /\ r.lists = s.lists /\ r.tagged = s.tagged
  BY <1>1, <1>3 DEF Store
<1> QED
  BY <1>2, <1>4 DEF r

LEMMA ReuniteUnarchivedShape ==
  ASSUME NEW s \in Store, Apart(s)
  PROVE  LET r == ReuniteUnarchived(s)
         IN  /\ r \in Store /\ r.lists = s.lists /\ r.tagged = s.tagged
             /\ Reunites(s.tasks, s.archive, r.tasks, r.archive)
<1> DEFINE lost == Orphans(s.tasks, DOMAIN s.tasks)
           X == Released(s.tasks, s.archive, lost)
           A == Adopted(s.tasks, s.archive, lost)
           r == ReuniteUnarchived(s)
<1>1. r = [s EXCEPT !.tasks = X, !.archive = A]
  BY DEF ReuniteUnarchived
<1>2. Reunites(s.tasks, s.archive, X, A)
  BY StoreParts, TasksReunited DEF Apart
<1> HIDE DEF A, X, r
<1>3. A \in ById(Tasks, Task) /\ X \in ById(Tasks, Task)
  BY <1>2 DEF Reunites
<1>4. r \in Store /\ r.tasks = X /\ r.archive = A /\ r.lists = s.lists /\ r.tagged = s.tagged
  BY <1>1, <1>3 DEF Store
<1> QED
  BY <1>2, <1>4 DEF r

\* No subtask has a subtask.
Flat(a) == \A t \in DOMAIN a : a[t].parent \in DOMAIN a => a[a[t].parent].parent = None

HasAll(w, a) ==
  /\ w \in Store /\ Apart(w) /\ DOMAIN a = Everywhere(w)
  /\ \A t \in DOMAIN w.tasks : w.tasks[t] = a[t]
  /\ \A t \in DOMAIN w.archive : w.archive[t] = a[t]

\* The parents and subtasks that tasks have once they are reunited: their own, or, where the
\* parent is not in the store of w, none; subtasks are where their parents are.
Settled(w, a, z) ==
  /\ z \in Store /\ Apart(z) /\ z.lists = w.lists /\ z.tagged = w.tagged
  /\ \A t \in DOMAIN z.tasks :
       /\ t \in DOMAIN a /\ z.tasks[t].project = a[t].project
       /\ z.tasks[t].parent = a[t].parent \/ (z.tasks[t].parent = None /\ a[t].parent \notin DOMAIN w.tasks)
       /\ a[t].parent = None => t \in DOMAIN w.tasks
       /\ z.tasks[t].subs \subseteq DOMAIN z.tasks
       /\ \A x \in z.tasks[t].subs : x \in a[t].subs \/ (x \in DOMAIN a /\ a[x].parent = t)
  /\ \A t \in DOMAIN z.archive : z.archive[t].subs \subseteq DOMAIN z.archive
  /\ Flat(a) =>
       /\ \A t \in DOMAIN z.tasks : z.tasks[t].parent \in DOMAIN z.tasks \union {None}
       /\ \A t \in DOMAIN z.archive : z.archive[t].parent \in DOMAIN z.archive \union {None}

LEMMA SubsKept ==
  ASSUME NEW f \in ById(Tasks, Task)
  PROVE  LET g == WithoutMissingSubs(f)
         IN  /\ g \in ById(Tasks, Task) /\ DOMAIN g = DOMAIN f
             /\ \A t \in DOMAIN f :
                  /\ g[t].parent = f[t].parent /\ g[t].project = f[t].project
                  /\ g[t].subs = f[t].subs \intersect DOMAIN f
<1>0. DOMAIN f \in SUBSET Tasks /\ \A t \in DOMAIN f : f[t] \in Task
  BY MapFacts
<1>1. \A t \in DOMAIN f : /\ [f[t] EXCEPT !.subs = f[t].subs \intersect DOMAIN f] \in Task
                          /\ [f[t] EXCEPT !.subs = f[t].subs \intersect DOMAIN f].parent = f[t].parent
                          /\ [f[t] EXCEPT !.subs = f[t].subs \intersect DOMAIN f].project = f[t].project
                          /\ [f[t] EXCEPT !.subs = f[t].subs \intersect DOMAIN f].subs = f[t].subs \intersect DOMAIN f
  BY <1>0 DEF Task
<1>2. WithoutMissingSubs(f) = [t \in DOMAIN f |-> [f[t] EXCEPT !.subs = f[t].subs \intersect DOMAIN f]]
  BY DEF WithoutMissingSubs
<1>3. WithoutMissingSubs(f) \in [DOMAIN f -> Task]
  BY <1>1, <1>2
<1>4. WithoutMissingSubs(f) \in ById(Tasks, Task)
  BY <1>0, <1>3, NewMap
<1> QED
  BY <1>1, <1>2, <1>4

LEMMA ReunitedParents ==
  ASSUME NEW w, NEW a, HasAll(w, a), NEW u \in Store, NEW v \in Store,
         Reunites(w.archive, w.tasks, u.archive, u.tasks), Reunites(u.tasks, u.archive, v.tasks, v.archive)
  PROVE  /\ \A t \in DOMAIN v.tasks :
              /\ t \in DOMAIN u.tasks /\ t \in DOMAIN a /\ v.tasks[t].project = a[t].project
              /\ v.tasks[t].parent = a[t].parent \/ (v.tasks[t].parent = None /\ a[t].parent \notin DOMAIN w.tasks)
              /\ a[t].parent = None => t \in DOMAIN w.tasks
              /\ \A x \in v.tasks[t].subs : x \in a[t].subs \/ (x \in DOMAIN a /\ a[x].parent = t)
         /\ Flat(a) =>
              /\ \A t \in DOMAIN v.tasks : v.tasks[t].parent \in DOMAIN v.tasks \union {None}
              /\ \A t \in DOMAIN v.archive : v.archive[t].parent \in DOMAIN v.archive \union {None}
<1>0. None \notin DOMAIN w.tasks /\ None \notin DOMAIN w.archive /\ None \notin DOMAIN u.archive /\ None \notin DOMAIN u.tasks
  <2>1. w \in Store
    BY DEF HasAll
  <2> QED
    BY <2>1, StoreParts, MapFacts, NoneAssumption
<1>1. /\ \A t \in DOMAIN w.tasks : t \in DOMAIN a /\ w.tasks[t] = a[t]
      /\ \A t \in DOMAIN w.archive : t \in DOMAIN a /\ w.archive[t] = a[t]
      /\ DOMAIN w.archive \intersect DOMAIN w.tasks = {}
      /\ DOMAIN a = DOMAIN w.tasks \union DOMAIN w.archive
  BY DEF HasAll, Everywhere, Apart
<1>2. /\ DOMAIN u.tasks \union DOMAIN u.archive = DOMAIN a
      /\ DOMAIN u.tasks \intersect DOMAIN u.archive = {}
      /\ DOMAIN w.tasks \subseteq DOMAIN u.tasks
      /\ \A t \in DOMAIN w.archive : t \in DOMAIN u.tasks <=> a[t].parent \in DOMAIN w.tasks
  BY <1>1 DEF Reunites
<1>3. \A t \in DOMAIN u.archive : /\ t \in DOMAIN w.archive
                                  /\ u.archive[t].parent \in DOMAIN w.archive \union {None}
                                  /\ u.archive[t].parent = a[t].parent \/ u.archive[t].parent = None
  BY <1>1 DEF Reunites
<1>4. \A t \in DOMAIN u.tasks :
        /\ t \in DOMAIN a /\ u.tasks[t].parent = a[t].parent /\ u.tasks[t].project = a[t].project
        /\ \A x \in u.tasks[t].subs : x \in a[t].subs \/ (x \in DOMAIN a /\ a[x].parent = t)
        /\ t \notin DOMAIN w.tasks => a[t].parent \in DOMAIN w.tasks
  <2> SUFFICES ASSUME NEW t \in DOMAIN u.tasks
               PROVE  /\ t \in DOMAIN a /\ u.tasks[t].parent = a[t].parent /\ u.tasks[t].project = a[t].project
                      /\ \A x \in u.tasks[t].subs : x \in a[t].subs \/ (x \in DOMAIN a /\ a[x].parent = t)
                      /\ t \notin DOMAIN w.tasks => a[t].parent \in DOMAIN w.tasks
    OBVIOUS
  <2>1. CASE t \in DOMAIN w.tasks
    BY <1>1, <2>1 DEF Reunites
  <2>2. CASE t \notin DOMAIN w.tasks
    <3>1. t \in DOMAIN w.archive /\ u.tasks[t] = w.archive[t]
      BY <1>1, <1>2, <2>2 DEF Reunites
    <3> QED
      BY <1>1, <1>2, <3>1
  <2> QED
    BY <2>1, <2>2
<1>5. \A t \in DOMAIN v.tasks :
        /\ t \in DOMAIN u.tasks
        /\ v.tasks[t].project = u.tasks[t].project /\ v.tasks[t].subs = u.tasks[t].subs
        /\ v.tasks[t].parent = u.tasks[t].parent \/ (v.tasks[t].parent = None /\ u.tasks[t].parent \notin DOMAIN u.tasks)
        /\ v.tasks[t].parent \in DOMAIN u.tasks \union {None}
  BY DEF Reunites
<1>6. ASSUME NEW t \in DOMAIN v.tasks
      PROVE  /\ t \in DOMAIN u.tasks /\ t \in DOMAIN a /\ v.tasks[t].project = a[t].project
             /\ v.tasks[t].parent = a[t].parent \/ (v.tasks[t].parent = None /\ a[t].parent \notin DOMAIN w.tasks)
             /\ a[t].parent = None => t \in DOMAIN w.tasks
             /\ \A x \in v.tasks[t].subs : x \in a[t].subs \/ (x \in DOMAIN a /\ a[x].parent = t)
  BY <1>0, <1>2, <1>4, <1>5
<1>7. /\ DOMAIN v.tasks \intersect DOMAIN v.archive = {}
      /\ DOMAIN v.tasks \union DOMAIN v.archive = DOMAIN u.tasks \union DOMAIN u.archive
      /\ DOMAIN u.archive \subseteq DOMAIN v.archive
      /\ \A t \in DOMAIN u.tasks : t \in DOMAIN v.archive <=> u.tasks[t].parent \in DOMAIN u.archive
  BY DEF Reunites
<1>8. ASSUME Flat(a), NEW t \in DOMAIN v.tasks
      PROVE  v.tasks[t].parent \in DOMAIN v.tasks \union {None}
  <2> SUFFICES ASSUME v.tasks[t].parent # None
               PROVE  v.tasks[t].parent \in DOMAIN v.tasks
    OBVIOUS
  <2> DEFINE q == a[t].parent
  <2>1. v.tasks[t].parent = q /\ q \in DOMAIN u.tasks /\ t \in DOMAIN a
    BY <1>5, <1>6
  <2>2. q \in DOMAIN a /\ a[q].parent = None
    BY <1>4, <1>8, <2>1 DEF Flat
  <2>3. u.tasks[q].parent = None
    BY <1>4, <2>1, <2>2
  <2>4. q \notin DOMAIN v.archive
    BY <1>0, <1>7, <2>1, <2>3
  <2> QED
    BY <1>7, <2>1, <2>4
<1>9. ASSUME Flat(a), NEW t \in DOMAIN v.archive
      PROVE  v.archive[t].parent \in DOMAIN v.archive \union {None}
  <2>1. CASE t \in DOMAIN u.archive
    <3>1. v.archive[t].parent = u.archive[t].parent
      BY <2>1 DEF Reunites
    <3> SUFFICES ASSUME u.archive[t].parent # None
                 PROVE  u.archive[t].parent \in DOMAIN v.archive
      BY <3>1
    <3> DEFINE q == a[t].parent
    <3>2. u.archive[t].parent = q /\ q \in DOMAIN w.archive /\ t \in DOMAIN a
      BY <1>2, <1>3, <2>1
    <3>3. q \in DOMAIN a /\ a[q].parent = None
      BY <1>1, <1>9, <3>2 DEF Flat
    <3>4. q \notin DOMAIN u.tasks
      BY <1>0, <1>2, <3>2, <3>3
    <3> QED
      BY <1>2, <1>7, <3>2, <3>3, <3>4
  <2>2. CASE t \notin DOMAIN u.archive
    <3>1. t \in DOMAIN u.tasks
      BY <1>7, <2>2
    <3>2. v.archive[t] = u.tasks[t]
      BY <3>1 DEF Reunites
    <3> QED
      BY <1>7, <3>1, <3>2
  <2> QED
    BY <2>1, <2>2
<1> QED
  BY <1>6, <1>8, <1>9

LEMMA SettledTasks ==
  ASSUME NEW w, NEW a, HasAll(w, a)
  PROVE  LET v == ReuniteUnarchived(ReuniteArchived(w))
         IN  Settled(w, a, [v EXCEPT !.tasks = WithoutMissingSubs(v.tasks), !.archive = WithoutMissingSubs(v.archive)])
<1> DEFINE u == ReuniteArchived(w)
           v == ReuniteUnarchived(u)
           X == WithoutMissingSubs(v.tasks)
           A == WithoutMissingSubs(v.archive)
           z == [v EXCEPT !.tasks = X, !.archive = A]
<1>1. u \in Store /\ u.lists = w.lists /\ u.tagged = w.tagged /\ Reunites(w.archive, w.tasks, u.archive, u.tasks)
  BY ReuniteArchivedShape DEF HasAll
<1> HIDE DEF u
<1>2. Apart(u)
  BY <1>1 DEF Reunites, Apart
<1>3. v \in Store /\ v.lists = u.lists /\ v.tagged = u.tagged /\ Reunites(u.tasks, u.archive, v.tasks, v.archive)
  BY <1>1, <1>2, ReuniteUnarchivedShape
<1> HIDE DEF v
<1>4. /\ \A t \in DOMAIN v.tasks :
           /\ t \in DOMAIN u.tasks /\ t \in DOMAIN a /\ v.tasks[t].project = a[t].project
           /\ v.tasks[t].parent = a[t].parent \/ (v.tasks[t].parent = None /\ a[t].parent \notin DOMAIN w.tasks)
           /\ a[t].parent = None => t \in DOMAIN w.tasks
           /\ \A x \in v.tasks[t].subs : x \in a[t].subs \/ (x \in DOMAIN a /\ a[x].parent = t)
      /\ Flat(a) =>
           /\ \A t \in DOMAIN v.tasks : v.tasks[t].parent \in DOMAIN v.tasks \union {None}
           /\ \A t \in DOMAIN v.archive : v.archive[t].parent \in DOMAIN v.archive \union {None}
  BY <1>1, <1>3, ReunitedParents
<1>5. /\ X \in ById(Tasks, Task) /\ DOMAIN X = DOMAIN v.tasks
      /\ \A t \in DOMAIN v.tasks : /\ X[t].parent = v.tasks[t].parent /\ X[t].project = v.tasks[t].project
                                   /\ X[t].subs = v.tasks[t].subs \intersect DOMAIN v.tasks
  BY <1>3, StoreParts, SubsKept
<1>6. /\ A \in ById(Tasks, Task) /\ DOMAIN A = DOMAIN v.archive
      /\ \A t \in DOMAIN v.archive : /\ A[t].parent = v.archive[t].parent /\ A[t].project = v.archive[t].project
                                     /\ A[t].subs = v.archive[t].subs \intersect DOMAIN v.archive
  BY <1>3, StoreParts, SubsKept
<1>7. z \in Store /\ z.tasks = X /\ z.archive = A /\ z.lists = w.lists /\ z.tagged = w.tagged
  <2> HIDE DEF X, A
  <2> QED
    BY <1>1, <1>3, <1>5, <1>6 DEF Store
<1>8. Apart(z)
  BY <1>3, <1>5, <1>6, <1>7 DEF Apart, Reunites
<1> HIDE DEF X, A, z
<1>9. \A t \in DOMAIN z.tasks :
        /\ t \in DOMAIN a /\ z.tasks[t].project = a[t].project
        /\ z.tasks[t].parent = a[t].parent \/ (z.tasks[t].parent = None /\ a[t].parent \notin DOMAIN w.tasks)
        /\ a[t].parent = None => t \in DOMAIN w.tasks
        /\ z.tasks[t].subs \subseteq DOMAIN z.tasks
        /\ \A x \in z.tasks[t].subs : x \in a[t].subs \/ (x \in DOMAIN a /\ a[x].parent = t)
  BY <1>4, <1>5, <1>7
<1>10. \A t \in DOMAIN z.archive : z.archive[t].subs \subseteq DOMAIN z.archive
  BY <1>6, <1>7
<1>11. Flat(a) =>
         /\ \A t \in DOMAIN z.tasks : z.tasks[t].parent \in DOMAIN z.tasks \union {None}
         /\ \A t \in DOMAIN z.archive : z.archive[t].parent \in DOMAIN z.archive \union {None}
  BY <1>4, <1>5, <1>6, <1>7
<1>12. Settled(w, a, z)
  BY <1>7, <1>8, <1>9, <1>10, <1>11 DEF Settled
<1> QED
  BY <1>12 DEF z, X, A, v, u

\* The steps from the clean-up of the lists on: they take out of lists and tags what does
\* not belong there, and give subtasks the project of a task that lists them.
Cleaned(z, r) ==
  /\ r \in Store
  /\ DOMAIN r.tasks = DOMAIN z.tasks /\ DOMAIN r.archive = DOMAIN z.archive
  /\ DOMAIN r.lists = DOMAIN z.lists /\ DOMAIN r.tagged = DOMAIN z.tagged
  /\ \A t \in DOMAIN z.tasks : r.tasks[t].parent = z.tasks[t].parent /\ r.tasks[t].subs = z.tasks[t].subs
  /\ \A t \in DOMAIN z.archive : r.archive[t].parent = z.archive[t].parent /\ r.archive[t].subs = z.archive[t].subs
  /\ \A p \in DOMAIN z.lists :
       r.lists[p] = {t \in z.lists[p] \intersect DOMAIN z.tasks : z.tasks[t].project = p}
  /\ \A g \in DOMAIN z.tagged : r.tagged[g] \subseteq DOMAIN z.tasks
  /\ \A t \in DOMAIN z.tasks :
       /\ r.tasks[t].tags \subseteq DOMAIN z.tagged
       /\ r.tasks[t].project \in DOMAIN z.lists \union {INBOX}
       /\ (\A x \in DOMAIN z.tasks : t \notin z.tasks[x].subs) /\ z.tasks[t].project \in DOMAIN z.lists
          => r.tasks[t].project = z.tasks[t].project

LEMMA CleanListsShape ==
  ASSUME NEW z \in Store
  PROVE  LET r == CleanLists(z)
         IN  /\ r \in Store /\ r.tasks = z.tasks /\ r.archive = z.archive
             /\ DOMAIN r.lists = DOMAIN z.lists /\ DOMAIN r.tagged = DOMAIN z.tagged
             /\ \A p \in DOMAIN z.lists :
                  r.lists[p] = {t \in z.lists[p] \intersect DOMAIN z.tasks : z.tasks[t].project = p}
             /\ \A g \in DOMAIN z.tagged : r.tagged[g] \subseteq DOMAIN z.tasks
<1> DEFINE L == [p \in DOMAIN z.lists |-> {t \in z.lists[p] \intersect DOMAIN z.tasks : z.tasks[t].project = p}]
           G == [g \in DOMAIN z.tagged |-> z.tagged[g] \intersect DOMAIN z.tasks]
           r == CleanLists(z)
<1>1. r = [z EXCEPT !.lists = L, !.tagged = G]
  BY DEF CleanLists
<1>2. L \in ById(Projects, SUBSET Tasks)
  BY StoreParts, ByIdIsById DEF IsById
<1>3. G \in ById(Tags, SUBSET Tasks)
  BY StoreParts, ByIdIsById DEF IsById
<1> HIDE DEF r
<1>4. r \in Store /\ r.tasks = z.tasks /\ r.archive = z.archive /\ r.lists = L /\ r.tagged = G
  <2> HIDE DEF L, G
  <2> QED
    BY <1>1, <1>2, <1>3 DEF Store
<1> QED
  BY <1>4 DEF r

LEMMA TagAsListedShape ==
  ASSUME NEW z \in Store
  PROVE  LET r == TagAsListed(z)
         IN  /\ r \in Store /\ r.archive = z.archive /\ r.lists = z.lists /\ r.tagged = z.tagged
             /\ DOMAIN r.tasks = DOMAIN z.tasks
             /\ \A t \in DOMAIN z.tasks : /\ r.tasks[t].parent = z.tasks[t].parent /\ r.tasks[t].subs = z.tasks[t].subs
                                          /\ r.tasks[t].project = z.tasks[t].project
<1> DEFINE listing(t) == {g \in DOMAIN z.tagged : t \in z.tagged[g]}
           X == [t \in DOMAIN z.tasks |-> [z.tasks[t] EXCEPT !.tags = z.tasks[t].tags \union listing(t)]]
           r == TagAsListed(z)
<1>1. r = [z EXCEPT !.tasks = X]
  BY DEF TagAsListed
<1>2. /\ DOMAIN z.tasks \in SUBSET Tasks /\ DOMAIN z.tagged \in SUBSET Tags
      /\ \A t \in DOMAIN z.tasks : z.tasks[t] \in Task
  BY StoreParts, MapFacts
<1>3. \A t : listing(t) \in SUBSET Tags
  BY <1>2
<1>4. \A t \in DOMAIN z.tasks : LET y == [z.tasks[t] EXCEPT !.tags = z.tasks[t].tags \union listing(t)]
                                IN  /\ y \in Task /\ y.parent = z.tasks[t].parent /\ y.subs = z.tasks[t].subs
                                    /\ y.project = z.tasks[t].project
  <2> HIDE DEF listing
  <2> QED
    BY <1>2, <1>3 DEF Task
<1>5. X \in [DOMAIN z.tasks -> Task]
  BY <1>4
<1>6. X \in ById(Tasks, Task)
  BY <1>2, <1>5, NewMap
<1> HIDE DEF r
<1>7. r \in Store /\ r.tasks = X /\ r.archive = z.archive /\ r.lists = z.lists /\ r.tagged = z.tagged
  <2> HIDE DEF X
  <2> QED
    BY <1>1, <1>6 DEF Store
<1> QED
  BY <1>4, <1>7 DEF r

LEMMA InParentsProjectShape ==
  ASSUME NEW f \in ById(Tasks, Task)
  PROVE  LET g == InParentsProject(f)
         IN  /\ g \in ById(Tasks, Task) /\ DOMAIN g = DOMAIN f
             /\ \A t \in DOMAIN f :
                  /\ g[t].parent = f[t].parent /\ g[t].subs = f[t].subs
                  /\ (\A x \in DOMAIN f : t \notin f[x].subs) => g[t].project = f[t].project
<1> DEFINE above(t) == {f[p].project : p \in {x \in DOMAIN f : t \in f[x].subs}}
           new(t) == IF above(t) = {} THEN f[t] ELSE [f[t] EXCEPT !.project = CHOOSE p \in above(t) : TRUE]
           g == InParentsProject(f)
<1>0. DOMAIN f \in SUBSET Tasks /\ \A t \in DOMAIN f : f[t] \in Task
  BY MapFacts
<1>1. g = [t \in DOMAIN f |-> new(t)]
  BY DEF InParentsProject
<1>2. ASSUME NEW t \in DOMAIN f
      PROVE  /\ new(t) \in Task /\ new(t).parent = f[t].parent /\ new(t).subs = f[t].subs
             /\ (\A x \in DOMAIN f : t \notin f[x].subs) => new(t).project = f[t].project
  <2>1. CASE above(t) = {}
    BY <1>0, <2>1
  <2>2. CASE above(t) # {}
    <3> DEFINE q == CHOOSE p \in above(t) : TRUE
    <3>1. q \in above(t)
      BY <2>2
    <3>2. q \in Projects
      BY <1>0, <3>1 DEF Task
    <3>3. \E x \in DOMAIN f : t \in f[x].subs
      BY <2>2
    <3>4. new(t) = [f[t] EXCEPT !.project = q]
      BY <2>2
    <3> HIDE DEF q, new
    <3>5. [f[t] EXCEPT !.project = q] \in Task /\ new(t).parent = f[t].parent /\ new(t).subs = f[t].subs
      BY <1>0, <3>2, <3>4 DEF Task
    <3> QED
      BY <3>3, <3>4, <3>5
  <2> QED
    BY <2>1, <2>2
<1> HIDE DEF new, g
<1>3. g \in [DOMAIN f -> Task] /\ DOMAIN g = DOMAIN f /\ \A t \in DOMAIN f : g[t] = new(t)
  BY <1>1, <1>2
<1>4. g \in ById(Tasks, Task)
  BY <1>0, <1>3, NewMap
<1> QED
  BY <1>2, <1>3, <1>4 DEF g

LEMMA WithoutMissingRefsShape ==
  ASSUME NEW z \in Store
  PROVE  LET r == WithoutMissingRefs(z)
         IN  /\ r \in Store /\ r.archive = z.archive /\ r.lists = z.lists /\ r.tagged = z.tagged
             /\ DOMAIN r.tasks = DOMAIN z.tasks
             /\ \A t \in DOMAIN z.tasks :
                  /\ r.tasks[t].parent = z.tasks[t].parent /\ r.tasks[t].subs = z.tasks[t].subs
                  /\ r.tasks[t].tags \subseteq DOMAIN z.tagged
                  /\ r.tasks[t].project = (IF z.tasks[t].project \in DOMAIN z.lists THEN z.tasks[t].project ELSE INBOX)
<1> DEFINE X == [t \in DOMAIN z.tasks |-> Normalized(z.tasks[t], z)]
           r == WithoutMissingRefs(z)
<1>1. r = [z EXCEPT !.tasks = X]
  BY DEF WithoutMissingRefs
<1>2. DOMAIN z.tasks \in SUBSET Tasks /\ \A t \in DOMAIN z.tasks : z.tasks[t] \in Task
  BY StoreParts, MapFacts
<1>3. ASSUME NEW t \in DOMAIN z.tasks
      PROVE  LET y == Normalized(z.tasks[t], z)
             IN  /\ y \in Task /\ y.parent = z.tasks[t].parent /\ y.subs = z.tasks[t].subs
                 /\ y.tags \subseteq DOMAIN z.tagged
                 /\ y.project = (IF z.tasks[t].project \in DOMAIN z.lists THEN z.tasks[t].project ELSE INBOX)
  BY <1>2, NormalizedFacts
<1>4. X \in [DOMAIN z.tasks -> Task] /\ \A t \in DOMAIN z.tasks : X[t] = Normalized(z.tasks[t], z)
  BY <1>3
<1>5. X \in ById(Tasks, Task)
  BY <1>2, <1>4, NewMap
<1> HIDE DEF r, X
<1>6. r \in Store /\ r.tasks = X /\ r.archive = z.archive /\ r.lists = z.lists /\ r.tagged = z.tagged
  BY <1>1, <1>5 DEF Store
<1> QED
  BY <1>3, <1>4, <1>6 DEF r

Cleaning(z) ==
  LET tagged == TagAsListed(CleanLists(z))
      placed == [tagged EXCEPT !.tasks = InParentsProject(tagged.tasks), !.archive = InParentsProject(tagged.archive)]
  IN  WithoutMissingRefs([placed EXCEPT !.archive = Without(placed.archive, DOMAIN placed.tasks)])

LEMMA CleaningCleans ==
  ASSUME NEW z \in Store, Apart(z)
  PROVE  Cleaned(z, Cleaning(z))
<1> DEFINE s6 == CleanLists(z)
           s7 == TagAsListed(s6)
           X == InParentsProject(s7.tasks)
           A == InParentsProject(s7.archive)
           s8 == [s7 EXCEPT !.tasks = X, !.archive = A]
           B == Without(s8.archive, DOMAIN s8.tasks)
           s9 == [s8 EXCEPT !.archive = B]
           r == WithoutMissingRefs(s9)
<1>1. Cleaning(z) = r
  BY DEF Cleaning
<1>2. /\ s6 \in Store /\ s6.tasks = z.tasks /\ s6.archive = z.archive
      /\ DOMAIN s6.lists = DOMAIN z.lists /\ DOMAIN s6.tagged = DOMAIN z.tagged
      /\ \A p \in DOMAIN z.lists :
           s6.lists[p] = {t \in z.lists[p] \intersect DOMAIN z.tasks : z.tasks[t].project = p}
      /\ \A g \in DOMAIN z.tagged : s6.tagged[g] \subseteq DOMAIN z.tasks
  BY CleanListsShape
<1> HIDE DEF s6
<1>3. /\ s7 \in Store /\ s7.archive = s6.archive /\ s7.lists = s6.lists /\ s7.tagged = s6.tagged
      /\ DOMAIN s7.tasks = DOMAIN s6.tasks
      /\ \A t \in DOMAIN s6.tasks : /\ s7.tasks[t].parent = s6.tasks[t].parent /\ s7.tasks[t].subs = s6.tasks[t].subs
                                    /\ s7.tasks[t].project = s6.tasks[t].project
  BY <1>2, TagAsListedShape
<1> HIDE DEF s7
<1>4. /\ X \in ById(Tasks, Task) /\ DOMAIN X = DOMAIN s7.tasks
      /\ \A t \in DOMAIN s7.tasks :
           /\ X[t].parent = s7.tasks[t].parent /\ X[t].subs = s7.tasks[t].subs
           /\ (\A x \in DOMAIN s7.tasks : t \notin s7.tasks[x].subs) => X[t].project = s7.tasks[t].project
  BY <1>3, StoreParts, InParentsProjectShape
<1>5. /\ A \in ById(Tasks, Task) /\ DOMAIN A = DOMAIN s7.archive
      /\ \A t \in DOMAIN s7.archive : A[t].parent = s7.archive[t].parent /\ A[t].subs = s7.archive[t].subs
  BY <1>3, StoreParts, InParentsProjectShape
<1> HIDE DEF X, A
<1>6. s8 \in Store /\ s8.tasks = X /\ s8.archive = A /\ s8.lists = s7.lists /\ s8.tagged = s7.tagged
  BY <1>3, <1>4, <1>5 DEF Store
<1> HIDE DEF s8
<1>7. DOMAIN A \intersect DOMAIN X = {}
  BY <1>2, <1>3, <1>4, <1>5 DEF Apart
<1>8. B \in ById(Tasks, Task) /\ DOMAIN B = DOMAIN A /\ \A t \in DOMAIN A : B[t] = A[t]
  <2>1. KeepsBut(A, DOMAIN X, Without(A, DOMAIN X))
    BY <1>5, TasksKept
  <2>2. B = Without(A, DOMAIN X)
    BY <1>6
  <2> QED
    BY <1>7, <2>1, <2>2 DEF KeepsBut
<1> HIDE DEF B
<1>9. s9 \in Store /\ s9.tasks = X /\ s9.archive = B /\ s9.lists = s7.lists /\ s9.tagged = s7.tagged
  BY <1>6, <1>8 DEF Store
<1> HIDE DEF s9
<1>10. /\ r \in Store /\ r.archive = B /\ r.lists = s7.lists /\ r.tagged = s7.tagged
       /\ DOMAIN r.tasks = DOMAIN X
       /\ \A t \in DOMAIN X :
            /\ r.tasks[t].parent = X[t].parent /\ r.tasks[t].subs = X[t].subs
            /\ r.tasks[t].tags \subseteq DOMAIN s7.tagged
            /\ r.tasks[t].project = (IF X[t].project \in DOMAIN s7.lists THEN X[t].project ELSE INBOX)
  BY <1>9, WithoutMissingRefsShape
<1> HIDE DEF r
<1>11. DOMAIN X = DOMAIN z.tasks
  BY <1>2, <1>3, <1>4
<1>12. \A t \in DOMAIN z.tasks : /\ X[t].parent = z.tasks[t].parent /\ X[t].subs = z.tasks[t].subs
                                 /\ (\A x \in DOMAIN z.tasks : t \notin z.tasks[x].subs) => X[t].project = z.tasks[t].project
  BY <1>2, <1>3, <1>4
<1>13. DOMAIN B = DOMAIN z.archive
       /\ \A t \in DOMAIN z.archive : B[t].parent = z.archive[t].parent /\ B[t].subs = z.archive[t].subs
  BY <1>2, <1>3, <1>5, <1>8
<1>14. \A t \in DOMAIN z.tasks :
         /\ r.tasks[t].tags \subseteq DOMAIN z.tagged
         /\ r.tasks[t].project \in DOMAIN z.lists \union {INBOX}
         /\ (\A x \in DOMAIN z.tasks : t \notin z.tasks[x].subs) /\ z.tasks[t].project \in DOMAIN z.lists
            => r.tasks[t].project = z.tasks[t].project
  BY <1>2, <1>3, <1>10, <1>11, <1>12
<1>15. Cleaned(z, r)
  BY <1>2, <1>3, <1>10, <1>11, <1>12, <1>13, <1>14 DEF Cleaned
<1> QED
  BY <1>1, <1>15

LEMMA RepairedIsCleaned ==
  ASSUME NEW s \in Store, Apart(s)
  PROVE  \E w, z : Filled(s, w) /\ ListsFilled(s, w) /\ Settled(w, AllOf(s), z) /\ Cleaned(z, Repaired(s))
<1> DEFINE w == AddOrphanedToLists(RestoreListed(s))
           v == ReuniteUnarchived(ReuniteArchived(w))
           z == [v EXCEPT !.tasks = WithoutMissingSubs(v.tasks), !.archive = WithoutMissingSubs(v.archive)]
<1>1. Filled(s, w) /\ ListsFilled(s, w)
  BY FilledLists
<1>2. Repaired(s) = Cleaning(z)
  BY DEF Repaired, Cleaning
<1> HIDE DEF w
<1>3. HasAll(w, AllOf(s))
  BY <1>1, AllOfFacts DEF HasAll, Filled
<1>4. Settled(w, AllOf(s), z)
  BY <1>3, SettledTasks
<1> HIDE DEF z
<1>5. Cleaned(z, Cleaning(z))
  BY <1>4, CleaningCleans DEF Settled
<1> QED
  BY <1>1, <1>2, <1>4, <1>5

\* A main task that no other task lists keeps its project, in the list it is in.
LEMMA KeepsProject ==
  ASSUME NEW s, Tidy(s), NEW w, NEW z, NEW r,
         Filled(s, w), Settled(w, AllOf(s), z), Cleaned(z, r),
         NEW t \in DOMAIN z.tasks, AllOf(s)[t].parent = None, t \notin Disputed(s),
         AllOf(s)[t].project \in DOMAIN s.lists
  PROVE  r.tasks[t].project = AllOf(s)[t].project /\ z.tasks[t].project = AllOf(s)[t].project
<1> DEFINE a == AllOf(s)
<1>1. Disputed(s) = {x \in DOMAIN a : a[x].parent = None /\ \E y \in DOMAIN a : x \in a[y].subs}
  BY DEF Disputed, AllOf
<1>2. None \notin DOMAIN a
  <2>1. a \in ById(Tasks, Task)
    BY AllOfFacts DEF Tidy
  <2> HIDE DEF a
  <2> QED
    BY <2>1, MapFacts, NoneAssumption
<1> HIDE DEF a
<1>3. a = AllOf(s)
  BY DEF a
<1>4. /\ \A x \in DOMAIN z.tasks :
           /\ x \in DOMAIN a /\ z.tasks[x].project = a[x].project
           /\ \A y \in z.tasks[x].subs : y \in a[x].subs \/ (y \in DOMAIN a /\ a[y].parent = x)
      /\ z.lists = w.lists /\ DOMAIN w.lists = DOMAIN s.lists
  BY <1>3 DEF Settled, Filled
<1>5. ASSUME NEW x \in DOMAIN z.tasks, t \in z.tasks[x].subs
      PROVE  FALSE
  <2>1. x \in DOMAIN a /\ t \in DOMAIN a
    BY <1>4
  <2>2. CASE t \in a[x].subs
    BY <1>1, <1>3, <2>1, <2>2
  <2>3. CASE a[t].parent = x
    BY <1>2, <1>3, <2>1, <2>3
  <2> QED
    BY <1>4, <1>5, <2>2, <2>3
<1>6. z.tasks[t].project = a[t].project /\ z.tasks[t].project \in DOMAIN z.lists
  BY <1>3, <1>4
<1>7. r.tasks[t].project = z.tasks[t].project
  BY <1>5, <1>6 DEF Cleaned
<1> QED
  BY <1>3, <1>6, <1>7

LEMMA UntangledBecomesValid ==
  ASSUME NEW s, Tidy(s), ~Tangled(s)
  PROVE  Valid(Repaired(s))
<1> DEFINE a == AllOf(s)
           r == Repaired(s)
<1>1. s \in Store /\ Apart(s) /\ INBOX \in DOMAIN s.lists
  BY DEF Tidy
<1>2. PICK w, z : Filled(s, w) /\ ListsFilled(s, w) /\ Settled(w, a, z) /\ Cleaned(z, r)
  BY <1>1, RepairedIsCleaned
<1>3. a \in ById(Tasks, Task) /\ DOMAIN a = Everywhere(s)
  BY <1>1, AllOfFacts
<1>4. /\ \A t \in DOMAIN a : a[t].parent # None => ~(a[t].parent \in DOMAIN a /\ a[a[t].parent].parent # None)
      /\ \A t \in ListedIn(s) : t \in DOMAIN a => a[t].parent = None
      /\ \A t \in DOMAIN s.tasks \union ListedIn(s) : t \notin Disputed(s)
  BY DEF Tangled, AllOf, ListedIn
<1> HIDE DEF r, a
<1>5. a = AllOf(s)
  BY DEF a
<1>6. None \notin DOMAIN a
  BY <1>3, MapFacts, NoneAssumption
<1>7. Flat(a)
  BY <1>4, <1>6 DEF Flat
<1>8. \A t \in DOMAIN r.tasks :
        /\ r.tasks[t].parent \in DOMAIN r.tasks \union {None}
        /\ r.tasks[t].subs \subseteq DOMAIN r.tasks
  BY <1>2, <1>7 DEF Settled, Cleaned
<1>9. \A t \in DOMAIN r.archive :
        /\ r.archive[t].parent \in DOMAIN r.archive \union {None}
        /\ r.archive[t].subs \subseteq DOMAIN r.archive
  BY <1>2, <1>7 DEF Settled, Cleaned
<1>10. DOMAIN r.lists = DOMAIN s.lists /\ DOMAIN z.lists = DOMAIN s.lists /\ z.lists = w.lists
  BY <1>2 DEF Filled, Settled, Cleaned
<1>11. \A t \in DOMAIN r.tasks : r.tasks[t].project \in DOMAIN r.lists /\ r.tasks[t].tags \subseteq DOMAIN r.tagged
  BY <1>1, <1>2, <1>10 DEF Cleaned
<1>12. \A g \in DOMAIN r.tagged : r.tagged[g] \subseteq DOMAIN r.tasks
  BY <1>2 DEF Cleaned
<1>13. ASSUME NEW p \in DOMAIN r.lists, NEW t \in r.lists[p]
       PROVE  t \in DOMAIN r.tasks /\ r.tasks[t].project = p
  <2>1. t \in w.lists[p] /\ t \in DOMAIN z.tasks /\ z.tasks[t].project = p /\ p \in DOMAIN s.lists
    BY <1>2, <1>10 DEF Cleaned
  <2>2. t \in DOMAIN w.tasks /\ (t \in ListedIn(s) \/ a[t].parent = None)
    BY <1>2, <1>5, <1>10, <2>1 DEF ListsFilled
  <2>3. t \in DOMAIN a /\ z.tasks[t].project = a[t].project
    BY <1>2, <2>1 DEF Settled
  <2>4. a[t].parent = None
    BY <1>4, <2>2, <2>3
  <2>5. t \notin Disputed(s)
    BY <1>2, <1>4, <2>2 DEF Filled
  <2>6. r.tasks[t].project = a[t].project
    BY <1>2, <1>5, <2>1, <2>3, <2>4, <2>5, KeepsProject
  <2> QED
    BY <1>2, <2>1, <2>3, <2>6 DEF Cleaned
<1>14. Valid(r)
  BY <1>8, <1>9, <1>11, <1>12, <1>13 DEF Valid
<1> QED
  BY <1>14 DEF r

LEMMA RootedIsShown ==
  ASSUME NEW s, Tidy(s), NEW t \in DOMAIN Repaired(s).tasks
  PROVE  Shown(Repaired(s), t) \/ Misplaced(s, t)
<1> DEFINE a == AllOf(s)
           r == Repaired(s)
<1>1. s \in Store /\ Apart(s)
  BY DEF Tidy
<1>2. PICK w, z : Filled(s, w) /\ ListsFilled(s, w) /\ Settled(w, a, z) /\ Cleaned(z, r)
  BY <1>1, RepairedIsCleaned
<1>3. a \in ById(Tasks, Task) /\ DOMAIN a = Everywhere(s)
  BY <1>1, AllOfFacts
<1>4. t \in DOMAIN a => WithMany(s.archive, s.tasks)[t] = a[t]
  <2>1. s.tasks \in ById(Tasks, Task) /\ s.archive \in ById(Tasks, Task)
    BY <1>1, StoreParts
  <2> DEFINE f == s.tasks
             g == s.archive
  <2>2. DOMAIN f \intersect DOMAIN g = {}
    BY <1>1 DEF Apart
  <2>3. a = WithMany(f, g)
    BY DEF AllOf
  <2> HIDE DEF f, g
  <2>4. \A x \in DOMAIN f \union DOMAIN g : WithMany(g, f)[x] = WithMany(f, g)[x]
    BY <2>2 DEF WithMany
  <2>5. DOMAIN a = DOMAIN f \union DOMAIN g
    BY <2>3 DEF WithMany
  <2> HIDE DEF a
  <2> QED
    BY <2>3, <2>4, <2>5 DEF f, g
<1> SUFFICES ASSUME r.tasks[t].parent = None, ~Misplaced(s, t)
             PROVE  t \in r.lists[r.tasks[t].project]
  BY DEF Shown
<1> HIDE DEF r, a
<1>5. a = AllOf(s)
  BY DEF a
<1>6. t \in DOMAIN z.tasks /\ z.tasks[t].parent = None
  BY <1>2 DEF Cleaned, r
<1>7. /\ t \in DOMAIN a
      /\ z.tasks[t].parent = a[t].parent \/ a[t].parent \notin DOMAIN w.tasks
      /\ a[t].parent = None => t \in DOMAIN w.tasks
      /\ z.lists = w.lists
  BY <1>2, <1>6 DEF Settled
<1>8. /\ a[t].project \in DOMAIN s.lists
      /\ a[t].parent \in DOMAIN s.tasks \union {None}
      /\ \A p \in DOMAIN s.lists \ {a[t].project} : t \notin s.lists[p]
      /\ t \notin Disputed(s)
  BY <1>4, <1>7 DEF Misplaced
<1>9. DOMAIN s.tasks \subseteq DOMAIN w.tasks /\ DOMAIN w.lists = DOMAIN s.lists
  BY <1>2 DEF Filled
<1>10. a[t].parent = None
  BY <1>6, <1>7, <1>8, <1>9
<1>11. t \in w.lists[a[t].project]
  BY <1>2, <1>5, <1>7, <1>8, <1>10 DEF ListsFilled
<1>12. r.tasks[t].project = a[t].project /\ z.tasks[t].project = a[t].project
  BY <1>2, <1>5, <1>6, <1>8, <1>10, KeepsProject
<1>13. t \in r.lists[a[t].project]
  BY <1>2, <1>6, <1>7, <1>8, <1>9, <1>11, <1>12 DEF Cleaned
<1> QED
  BY <1>12, <1>13

\* Whatever concurrent operations made of a store, one repair makes it valid, unless its
\* tasks are tangled.
THEOREM RepairsMakeValid == Spec => []RepairedIsValid
<1>1. Init => Typed /\ Born /\ Fresh /\ AllTidy
  BY InitTyped, InitFresh
<1>2. Typed /\ Born /\ Fresh /\ AllTidy /\ [Next]_vars => (Typed /\ Born /\ Fresh /\ AllTidy)'
  BY NextTyped, NextFresh
<1>3. AllTidy => RepairedIsValid
  BY UntangledBecomesValid DEF AllTidy, RepairedIsValid
<1> QED
  BY <1>1, <1>2, <1>3, PTL DEF Spec

\* After a repair every main task is in the list of its project, unless the store had it
\* in a place that a later step of the repair changes.
THEOREM RepairsShowRooted == Spec => []RepairShowsRooted
<1>1. Init => Typed /\ Born /\ Fresh /\ AllTidy
  BY InitTyped, InitFresh
<1>2. Typed /\ Born /\ Fresh /\ AllTidy /\ [Next]_vars => (Typed /\ Born /\ Fresh /\ AllTidy)'
  BY NextTyped, NextFresh
<1>3. AllTidy => RepairShowsRooted
  BY RootedIsShown DEF AllTidy, RepairShowsRooted
<1> QED
  BY <1>1, <1>2, <1>3, PTL DEF Spec

-----------------------------------------------------------------------------
(* Families, whatever is concurrent *)

\* One more generation of ancestors.
WithParents(f, S) == S \union {f[x].parent : x \in S \intersect DOMAIN f}

ClosedUp(f, S) == \A x \in S \intersect DOMAIN f : f[x].parent \in S

GoesUp(up, f, t) ==
  /\ up[0] = {t}
  /\ \A k \in 1..Cardinality(DOMAIN f) : up[k] = WithParents(f, up[k - 1])

LEMMA FewTasks ==
  ASSUME NEW f \in ById(Tasks, Task)
  PROVE  IsFiniteSet(DOMAIN f) /\ Cardinality(DOMAIN f) \in Nat
<1>1. DOMAIN f \in SUBSET Tasks
  BY MapFacts
<1>2. IsFiniteSet(DOMAIN f)
  BY <1>1, TasksAssumption, FS_Subset
<1> QED
  BY <1>2, FS_CardinalityType

LEMMA AboveSteps ==
  ASSUME NEW f \in ById(Tasks, Task), NEW t \in Tasks \union {None}
  PROVE  \E up : GoesUp(up, f, t) /\ Above(t, f) = up[Cardinality(DOMAIN f)]
<1> DEFINE n == Cardinality(DOMAIN f)
           T == SUBSET (Tasks \union {None})
           Eq(g) == g = [k \in 0..n |-> IF k = 0 THEN {t} ELSE WithParents(f, g[k - 1])]
           up == CHOOSE g : Eq(g)
<1>1. n \in Nat
  BY FewTasks
<1>2. \A x \in DOMAIN f : f[x].parent \in Tasks \union {None}
  BY MapFacts, TaskFields
<1>3. \E g : Eq(g)
  <2> DEFINE step == [k \in 1..n |-> [S \in T |-> WithParents(f, S)]]
             start == {t}
  <2>1. \A S \in T : WithParents(f, S) \in T
    BY <1>2 DEF WithParents
  <2>2. Keeps(step, n, T)
    BY <2>1 DEF Keeps
  <2>3. start \in T
    OBVIOUS
  <2>4. PICK g \in [0..n -> T] : GoesBy(g, n, start, step)
    <3> HIDE DEF step, n, start, T
    <3> QED
      BY <1>1, <2>2, <2>3, SegmentRecursion
  <2>5. ASSUME NEW k \in 1..n
        PROVE  g[k] = WithParents(f, g[k - 1])
    <3>1. g[k - 1] \in T
      <4> HIDE DEF T, n
      <4> QED
        BY <1>1
    <3>2. g[k] = step[k][g[k - 1]]
      BY <2>4 DEF GoesBy
    <3> HIDE DEF T
    <3> QED
      BY <3>1, <3>2
  <2>6. Eq(g)
    <3> DEFINE h == [k \in 0..n |-> IF k = 0 THEN {t} ELSE WithParents(f, g[k - 1])]
    <3> HIDE DEF T, n, step
    <3>1. DOMAIN h = 0..n /\ DOMAIN g = 0..n
      OBVIOUS
    <3>2. ASSUME NEW k \in 0..n
          PROVE  g[k] = h[k]
      <4>1. CASE k = 0
        BY <4>1, <2>4 DEF GoesBy
      <4>2. CASE k # 0
        <5>1. k \in 1..n
          BY <1>1, <4>2
        <5>2. h[k] = WithParents(f, g[k - 1])
          BY <4>2
        <5> QED
          BY <5>1, <5>2, <2>5
      <4> QED
        BY <4>1, <4>2
    <3>3. g = [k \in 0..n |-> g[k]] /\ h = [k \in 0..n |-> h[k]]
      OBVIOUS
    <3>4. g = h
      <4> HIDE DEF h
      <4> QED
        BY <3>2, <3>3
    <3> QED
      BY <3>4
  <2> QED
    BY <2>6
<1>4. Eq(up)
  <2> HIDE DEF Eq
  <2> QED
    BY <1>3
<1>5. Above(t, f) = up[n]
  BY DEF Above, WithParents
<1> HIDE DEF up
<1>6. up[0] = {t}
  BY <1>1, <1>4
<1>7. ASSUME NEW k \in 1..n
      PROVE  up[k] = WithParents(f, up[k - 1])
  <2>1. k \in 0..n /\ k # 0
    BY <1>1
  <2> HIDE DEF n
  <2> QED
    BY <1>4, <2>1
<1> HIDE DEF Eq
<1>8. GoesUp(up, f, t)
  BY <1>6, <1>7 DEF GoesUp
<1> QED
  BY <1>5, <1>8

\* As many generations as there are tasks are all there are: as long as there is one more,
\* each generation has brought a task of its own.
LEMMA AboveIsClosed ==
  ASSUME NEW f \in ById(Tasks, Task), NEW t \in Tasks \union {None}
  PROVE  t \in Above(t, f) /\ ClosedUp(f, Above(t, f))
<1> DEFINE D == DOMAIN f
           n == Cardinality(D)
<1>1. PICK up : GoesUp(up, f, t) /\ Above(t, f) = up[n]
  BY AboveSteps
<1>2. IsFiniteSet(D) /\ n \in Nat
  BY FewTasks
<1> DEFINE Grows(k) == /\ up[k] \subseteq D /\ Cardinality(up[k]) >= k + 1
                       /\ \E u \in up[k] : \A x \in up[k] \ {u} : f[x].parent \in up[k]
           S == {k \in 0..n : t \in up[k] /\ (ClosedUp(f, up[k]) \/ Grows(k))}
<1>3. \A k \in 1..n : up[k] = WithParents(f, up[k - 1])
  BY <1>1 DEF GoesUp
<1>4. up[0] = {t}
  BY <1>1 DEF GoesUp
<1> HIDE DEF n
<1>5. 0 \in S
  <2>1. CASE t \in D
    <3>1. Cardinality(up[0]) = 1
      BY <1>4, FS_Singleton
    <3>2. Grows(0)
      BY <1>4, <2>1, <3>1
    <3> QED
      BY <1>2, <1>4, <3>2
  <2>2. CASE t \notin D
    <3>1. ClosedUp(f, up[0])
      BY <1>4, <2>2 DEF ClosedUp
    <3> QED
      BY <1>2, <1>4, <3>1
  <2> QED
    BY <2>1, <2>2
<1>6. ASSUME NEW k \in 0..n - 1, k \in S
      PROVE  k + 1 \in S
  <2>1. k + 1 \in 0..n /\ k + 1 \in 1..n /\ (k + 1) - 1 = k
    BY <1>2
  <2>2. up[k + 1] = up[k] \union {f[x].parent : x \in up[k] \intersect D}
    BY <1>3, <2>1 DEF WithParents
  <2>3. t \in up[k + 1]
    BY <1>6, <2>2
  <2>4. CASE ClosedUp(f, up[k])
    <3>1. up[k + 1] = up[k]
      BY <2>2, <2>4 DEF ClosedUp
    <3> QED
      BY <2>1, <2>3, <2>4, <3>1
  <2>5. CASE Grows(k) /\ ~ClosedUp(f, up[k])
    <3>1. PICK u \in up[k] : \A x \in up[k] \ {u} : f[x].parent \in up[k]
      BY <2>5
    <3> DEFINE v == f[u].parent
    <3>2. up[k] \subseteq D /\ Cardinality(up[k]) >= k + 1
      BY <2>5
    <3>3. v \notin up[k]
      BY <2>5, <3>1 DEF ClosedUp
    <3>4. up[k + 1] = up[k] \union {v}
      BY <2>2, <3>1, <3>2
    <3>5. CASE v \notin D
      <4>1. ClosedUp(f, up[k + 1])
        BY <3>1, <3>4, <3>5 DEF ClosedUp
      <4> QED
        BY <2>1, <2>3, <4>1
    <3>6. CASE v \in D
      <4> HIDE DEF v
      <4>1. IsFiniteSet(up[k])
        <5>1. up[k] \in SUBSET D
          BY <3>2
        <5> HIDE DEF D
        <5> QED
          BY <1>2, <5>1, FS_Subset
      <4>2. Cardinality(up[k + 1]) = Cardinality(up[k]) + 1
        <5> DEFINE U == up[k]
        <5>1. IsFiniteSet(U) /\ v \notin U
          BY <3>3, <4>1 DEF v
        <5>2. up[k + 1] = U \union {v}
          BY <3>4 DEF v
        <5> HIDE DEF U
        <5>3. Cardinality(U \union {v}) = Cardinality(U) + 1
          BY <5>1, FS_AddElement
        <5> QED
          BY <5>2, <5>3 DEF U
      <4>3. Cardinality(up[k]) \in Nat
        BY <4>1, FS_CardinalityType
      <4>4. Cardinality(up[k + 1]) >= (k + 1) + 1
        BY <3>2, <4>2, <4>3
      <4>5. \A x \in up[k + 1] \ {v} : f[x].parent \in up[k + 1]
        BY <3>1, <3>4 DEF v
      <4>6. Grows(k + 1)
        BY <3>2, <3>4, <3>6, <4>4, <4>5
      <4> QED
        BY <2>1, <2>3, <4>6
    <3> QED
      BY <3>5, <3>6
  <2> QED
    BY <1>6, <2>4, <2>5
<1>7. n \in S
  <2> HIDE DEF S
  <2>1. \A k \in 0..n : k \in S
    BY <1>2, <1>5, <1>6, SegmentInduction
  <2> QED
    BY <1>2, <2>1
<1>8. ~Grows(n)
  <2> SUFFICES ASSUME up[n] \subseteq D, Cardinality(up[n]) >= n + 1
               PROVE  FALSE
    OBVIOUS
  <2>1. Cardinality(up[n]) <= n
    BY <1>2, FS_Subset DEF n
  <2>2. Cardinality(up[n]) \in Nat
    BY <1>2, FS_Subset, FS_CardinalityType
  <2> QED
    BY <1>2, <2>1, <2>2
<1> QED
  BY <1>1, <1>7, <1>8

\* No tasks are each other's ancestors: in every set of tasks one has its parent outside.
NoLoop(f) == \A S \in SUBSET DOMAIN f : S # {} => \E x \in S : f[x].parent \notin S

ListsAll(f) == \A x \in DOMAIN f : f[x].parent \in DOMAIN f => x \in f[f[x].parent].subs

Lineal(f) == NoLoop(f) /\ ListsAll(f)

Parents(f) == {f[x].parent : x \in DOMAIN f}

\* A task that is its own ancestor has ancestors that form a loop.
LEMMA NotAboveItself ==
  ASSUME NEW f \in ById(Tasks, Task), NoLoop(f), NEW t \in DOMAIN f
  PROVE  t \notin Above(f[t].parent, f)
<1> DEFINE D == DOMAIN f
           n == Cardinality(D)
           p == f[t].parent
<1>1. p \in Tasks \union {None}
  BY MapFacts, TaskFields
<1>2. PICK up : GoesUp(up, f, p) /\ Above(p, f) = up[n]
  BY <1>1, AboveSteps
<1>3. n \in Nat
  BY FewTasks
<1>4. \A k \in 1..n : up[k] = WithParents(f, up[k - 1])
  BY <1>2 DEF GoesUp
<1>5. up[0] = {p}
  BY <1>2 DEF GoesUp
<1> DEFINE Looped(k) == t \in up[k] /\ up[k] \subseteq D /\ ClosedUp(f, up[k])
           Chain(k) == \E u \in up[k] : \A x \in up[k] \ {u} : x \in D /\ f[x].parent \in up[k]
           S == {k \in 0..n : Looped(k) \/ (t \notin up[k] /\ Chain(k))}
<1> HIDE DEF n
<1>6. 0 \in S
  <2>1. CASE p = t
    <3>1. Looped(0)
      BY <1>5, <2>1 DEF ClosedUp
    <3> QED
      BY <1>3, <3>1
  <2>2. CASE p # t
    <3>1. t \notin up[0] /\ Chain(0)
      BY <1>5, <2>2
    <3> QED
      BY <1>3, <3>1
  <2> QED
    BY <2>1, <2>2
<1>7. ASSUME NEW k \in 0..n - 1, k \in S
      PROVE  k + 1 \in S
  <2>1. k + 1 \in 0..n /\ k + 1 \in 1..n /\ (k + 1) - 1 = k
    BY <1>3
  <2>2. up[k + 1] = up[k] \union {f[x].parent : x \in up[k] \intersect D}
    BY <1>4, <2>1 DEF WithParents
  <2>3. CASE Looped(k)
    <3>1. up[k + 1] = up[k]
      BY <2>2, <2>3 DEF ClosedUp
    <3> QED
      BY <2>1, <2>3, <3>1
  <2>4. CASE t \notin up[k] /\ Chain(k)
    <3>1. PICK u \in up[k] : \A x \in up[k] \ {u} : x \in D /\ f[x].parent \in up[k]
      BY <2>4
    <3>2. CASE u \notin D
      <4>1. up[k + 1] = up[k]
        BY <2>2, <3>1, <3>2
      <4> QED
        BY <2>1, <2>4, <4>1
    <3>3. CASE u \in D
      <4> DEFINE v == f[u].parent
      <4>1. up[k + 1] = up[k] \union {v}
        BY <2>2, <3>1, <3>3
      <4>2. \A x \in up[k] : x \in D /\ f[x].parent \in up[k + 1]
        BY <3>1, <3>3, <4>1
      <4>3. CASE v = t
        <5>1. p \in up[k + 1]
          <6>1. \A i \in 0..n : p \in up[i]
            <7> DEFINE I == {i \in 0..n : p \in up[i]}
            <7>1. 0 \in I
              BY <1>3, <1>5
            <7>2. ASSUME NEW i \in 0..n - 1, i \in I
                  PROVE  i + 1 \in I
              <8>1. i + 1 \in 0..n /\ i + 1 \in 1..n /\ (i + 1) - 1 = i
                BY <1>3
              <8> QED
                BY <1>4, <7>2, <8>1 DEF WithParents
            <7> HIDE DEF I
            <7>3. \A i \in 0..n : i \in I
              BY <1>3, <7>1, <7>2, SegmentInduction
            <7> QED
              BY <7>3 DEF I
          <6> QED
            BY <2>1, <6>1
        <5>2. Looped(k + 1)
          BY <4>1, <4>2, <4>3, <5>1 DEF ClosedUp
        <5> QED
          BY <2>1, <5>2
      <4>4. CASE v # t
        <5>1. t \notin up[k + 1]
          BY <2>4, <4>1, <4>4
        <5>2. Chain(k + 1)
          BY <4>1, <4>2
        <5> QED
          BY <2>1, <5>1, <5>2
      <4> QED
        BY <4>3, <4>4
    <3> QED
      BY <3>2, <3>3
  <2> QED
    BY <1>7, <2>3, <2>4
<1>8. n \in S
  <2> HIDE DEF S
  <2>1. \A k \in 0..n : k \in S
    BY <1>3, <1>6, <1>7, SegmentInduction
  <2> QED
    BY <1>3, <2>1
<1>9. ~Looped(n)
  <2> SUFFICES ASSUME t \in up[n], up[n] \subseteq D, \A x \in up[n] \intersect D : f[x].parent \in up[n]
               PROVE  FALSE
    BY DEF ClosedUp
  <2>1. up[n] \in SUBSET DOMAIN f /\ up[n] # {}
    OBVIOUS
  <2> QED
    BY <2>1 DEF NoLoop
<1> QED
  BY <1>2, <1>8, <1>9

\* A task may get a parent that it is not an ancestor of.
LEMMA StillNoLoop ==
  ASSUME NEW f \in ById(Tasks, Task), NoLoop(f), NEW g, DOMAIN g = DOMAIN f,
         NEW t, NEW p \in Tasks \union {None}, t \notin Above(p, f),
         \A x \in DOMAIN f : g[x].parent = IF x = t THEN p ELSE f[x].parent
  PROVE  NoLoop(g)
<1> SUFFICES ASSUME NEW S \in SUBSET DOMAIN f, S # {}, \A x \in S : g[x].parent \in S
             PROVE  FALSE
  BY DEF NoLoop
<1>1. CASE t \notin S
  <2>1. \A x \in S : f[x].parent \in S
    BY <1>1
  <2> QED
    BY <2>1 DEF NoLoop
<1>2. CASE t \in S
  <2> DEFINE T == S \intersect Above(p, f)
  <2>1. p \in Above(p, f) /\ ClosedUp(f, Above(p, f))
    BY AboveIsClosed
  <2>2. p \in T
    BY <1>2, <2>1
  <2>3. ASSUME NEW x \in T
        PROVE  f[x].parent \in T
    <3>1. x # t /\ x \in S /\ x \in DOMAIN f
      OBVIOUS
    <3>2. f[x].parent \in S
      BY <3>1
    <3>3. f[x].parent \in Above(p, f)
      BY <2>1, <3>1 DEF ClosedUp
    <3> QED
      BY <3>2, <3>3
  <2>4. T \in SUBSET DOMAIN f /\ T # {}
    BY <2>2
  <2> HIDE DEF T
  <2> QED
    BY <2>3, <2>4 DEF NoLoop
<1> QED
  BY <1>1, <1>2

\* Tasks that go, or become main tasks, leave families in order.
LEMMA FewerAreLineal ==
  ASSUME NEW f \in ById(Tasks, Task), Lineal(f), NEW g \in ById(Tasks, Task), DOMAIN g \subseteq DOMAIN f,
         \A x \in DOMAIN g : g[x].parent = f[x].parent \/ g[x].parent = None,
         \A x, y \in DOMAIN g : y \in f[x].subs /\ g[y].parent = x => y \in g[x].subs
  PROVE  Lineal(g) /\ Parents(g) \subseteq Parents(f) \union {None}
<1>1. None \notin DOMAIN g
  BY MapFacts, NoneAssumption
<1>2. NoLoop(g)
  <2> SUFFICES ASSUME NEW S \in SUBSET DOMAIN g, S # {}, \A x \in S : g[x].parent \in S
               PROVE  FALSE
    BY DEF NoLoop
  <2>1. \A x \in S : f[x].parent \in S
    BY <1>1
  <2> QED
    BY <2>1 DEF NoLoop, Lineal
<1>3. ListsAll(g)
  <2> SUFFICES ASSUME NEW x \in DOMAIN g, g[x].parent \in DOMAIN g
               PROVE  x \in g[g[x].parent].subs
    BY DEF ListsAll
  <2>1. g[x].parent = f[x].parent
    BY <1>1
  <2>2. x \in f[f[x].parent].subs
    BY <2>1 DEF Lineal, ListsAll
  <2> QED
    BY <2>1, <2>2
<1>4. Parents(g) \subseteq Parents(f) \union {None}
  BY DEF Parents
<1> QED
  BY <1>2, <1>3, <1>4 DEF Lineal

\* What an operation may make of the families of a store.
Continues(f, g) == Lineal(g) /\ Parents(g) \subseteq Parents(f) \union DOMAIN f \union {None}

LEMMA FewerContinue ==
  ASSUME NEW f \in ById(Tasks, Task), Lineal(f), NEW g \in ById(Tasks, Task), DOMAIN g \subseteq DOMAIN f,
         \A x \in DOMAIN g : g[x].parent = f[x].parent \/ g[x].parent = None,
         \A x, y \in DOMAIN g : y \in f[x].subs /\ g[y].parent = x => y \in g[x].subs
  PROVE  Continues(f, g)
<1>1. Lineal(g) /\ Parents(g) \subseteq Parents(f) \union {None}
  BY FewerAreLineal
<1> QED
  BY <1>1 DEF Continues

LEMMA FreedContinue ==
  ASSUME NEW f \in ById(Tasks, Task), Lineal(f), NEW g, NEW t, NEW p \in DOMAIN f, Frees(f, g, t, p)
  PROVE  Continues(f, g)
<1>1. /\ g \in ById(Tasks, Task) /\ DOMAIN g = DOMAIN f
      /\ \A x \in DOMAIN g : /\ g[x].parent = IF x = t THEN None ELSE f[x].parent
                             /\ g[x].subs = IF x = p THEN f[x].subs \ {t} ELSE f[x].subs
  BY DEF Frees
<1>2. None \notin DOMAIN g
  BY <1>1, MapFacts, NoneAssumption
<1>3. \A x \in DOMAIN g : g[x].parent = f[x].parent \/ g[x].parent = None
  BY <1>1
<1>4. ASSUME NEW x \in DOMAIN g, NEW y \in DOMAIN g, y \in f[x].subs, g[y].parent = x
      PROVE  y \in g[x].subs
  <2>1. y # t
    BY <1>1, <1>2, <1>4
  <2> QED
    BY <1>1, <1>4, <2>1
<1> QED
  BY <1>1, <1>3, <1>4, FewerContinue

LEMMA BoundContinue ==
  ASSUME NEW f \in ById(Tasks, Task), Lineal(f), NEW g, NEW t, NEW p,
         Binds(f, g, t, p), CanApplyConvertToSubTask(t, p, f)
  PROVE  Continues(f, g)
<1>1. /\ DOMAIN g = DOMAIN f
      /\ \A x \in DOMAIN f : /\ g[x].parent = IF x = t THEN p ELSE f[x].parent
                             /\ g[x].subs = IF x = p THEN f[x].subs \union {t} ELSE f[x].subs
  BY DEF Binds
<1>2. t \in DOMAIN f /\ p \in DOMAIN f /\ t # p /\ f[p].parent = None
  BY DEF CanApplyConvertToSubTask
<1>3. None \notin DOMAIN f
  BY MapFacts, NoneAssumption
<1>4. NoLoop(g)
  <2> SUFFICES ASSUME NEW S \in SUBSET DOMAIN f, S # {}, \A x \in S : g[x].parent \in S
               PROVE  FALSE
    BY <1>1 DEF NoLoop
  <2>1. CASE t \in S
    <3>1. p \in S
      BY <1>1, <1>2, <2>1
    <3>2. None \in S
      BY <1>1, <1>2, <3>1
    <3> QED
      BY <1>3, <3>2
  <2>2. CASE t \notin S
    <3>1. \A x \in S : f[x].parent \in S
      BY <1>1, <2>2
    <3> QED
      BY <3>1 DEF Lineal, NoLoop
  <2> QED
    BY <2>1, <2>2
<1>5. ListsAll(g)
  <2> SUFFICES ASSUME NEW x \in DOMAIN f, g[x].parent \in DOMAIN f
               PROVE  x \in g[g[x].parent].subs
    BY <1>1 DEF ListsAll
  <2>1. CASE x = t
    BY <1>1, <1>2, <2>1
  <2>2. CASE x # t
    <3>1. g[x].parent = f[x].parent
      BY <1>1, <2>2
    <3>2. x \in f[f[x].parent].subs
      BY <3>1 DEF Lineal, ListsAll
    <3> QED
      BY <1>1, <3>1, <3>2
  <2> QED
    BY <2>1, <2>2
<1>6. Parents(g) \subseteq Parents(f) \union DOMAIN f \union {None}
  <2>1. \A x \in DOMAIN f : g[x].parent = p \/ g[x].parent = f[x].parent
    BY <1>1
  <2> QED
    BY <1>1, <1>2, <2>1 DEF Parents
<1> QED
  BY <1>4, <1>5, <1>6 DEF Continues, Lineal

LEMMA MovedContinue ==
  ASSUME NEW f \in ById(Tasks, Task), Lineal(f), NEW g, NEW t \in Tasks, NEW source, NEW target \in DOMAIN f,
         Moves(f, g, t, source, target), t \notin Above(target, f) \union {source}
  PROVE  Continues(f, g)
<1>1. /\ DOMAIN g = DOMAIN f
      /\ \A x \in DOMAIN f : /\ g[x].parent = IF x = t THEN target ELSE f[x].parent
                             /\ x = target => g[x].subs = f[x].subs \union {t}
                             /\ x # target => g[x].subs = IF x = source THEN f[x].subs \ {t} ELSE f[x].subs
  BY DEF Moves
<1>2. target \in Tasks \union {None}
  BY MapFacts
<1>3. NoLoop(g)
  <2>1. NoLoop(f) /\ t \notin Above(target, f)
    BY DEF Lineal
  <2>2. \A x \in DOMAIN f : g[x].parent = IF x = t THEN target ELSE f[x].parent
    BY <1>1
  <2> QED
    BY <1>1, <1>2, <2>1, <2>2, StillNoLoop
<1>4. ListsAll(g)
  <2> SUFFICES ASSUME NEW x \in DOMAIN f, g[x].parent \in DOMAIN f
               PROVE  x \in g[g[x].parent].subs
    BY <1>1 DEF ListsAll
  <2>1. CASE x = t
    BY <1>1, <2>1
  <2>2. CASE x # t
    <3> DEFINE y == f[x].parent
    <3>1. g[x].parent = y
      BY <1>1, <2>2
    <3>2. y \in DOMAIN f /\ x \in f[y].subs
      BY <3>1 DEF Lineal, ListsAll
    <3> HIDE DEF y
    <3>3. x \in g[y].subs
      BY <1>1, <2>2, <3>2
    <3> QED
      BY <3>1, <3>3
  <2> QED
    BY <2>1, <2>2
<1>5. Parents(g) \subseteq Parents(f) \union DOMAIN f \union {None}
  <2>1. \A x \in DOMAIN f : g[x].parent = target \/ g[x].parent = f[x].parent
    BY <1>1
  <2> QED
    BY <1>1, <2>1 DEF Parents
<1> QED
  BY <1>3, <1>4, <1>5 DEF Continues, Lineal

\* A new task has no children, under whatever name others knew their parents.
LEMMA NewContinues ==
  ASSUME NEW f \in ById(Tasks, Task), Lineal(f), NEW g, NEW t, t \notin DOMAIN f \union Parents(f),
         NEW p \in DOMAIN f \union {None}, DOMAIN g = DOMAIN f \union {t}, g[t].parent = p,
         \A x \in DOMAIN f : g[x].parent = f[x].parent /\ f[x].subs \subseteq g[x].subs,
         p \in DOMAIN f => t \in g[p].subs, t # None
  PROVE  Continues(f, g)
<1>1. \A x \in DOMAIN f : g[x].parent # t /\ g[x].parent = f[x].parent /\ x # t
  BY DEF Parents
<1>2. p # t /\ g[t].parent = p
  OBVIOUS
<1>3. NoLoop(g)
  <2> SUFFICES ASSUME NEW S \in SUBSET DOMAIN g, S # {}, \A x \in S : g[x].parent \in S
               PROVE  FALSE
    BY DEF NoLoop
  <2> DEFINE T == S \ {t}
  <2>1. T # {}
    BY <1>2
  <2>2. T \in SUBSET DOMAIN f
    OBVIOUS
  <2>3. \A x \in T : f[x].parent \in T
    BY <1>1
  <2> HIDE DEF T
  <2> QED
    BY <2>1, <2>2, <2>3 DEF Lineal, NoLoop
<1>4. ListsAll(g)
  <2> SUFFICES ASSUME NEW x \in DOMAIN g, g[x].parent \in DOMAIN g
               PROVE  x \in g[g[x].parent].subs
    BY DEF ListsAll
  <2>1. CASE x = t
    BY <1>2, <2>1
  <2>2. CASE x # t
    <3> DEFINE y == f[x].parent
    <3>1. x \in DOMAIN f /\ g[x].parent = y /\ y # t
      BY <1>1, <2>2
    <3>2. y \in DOMAIN f /\ x \in f[y].subs
      BY <3>1 DEF Lineal, ListsAll
    <3> QED
      BY <3>1, <3>2
  <2> QED
    BY <2>1, <2>2
<1>5. Parents(g) \subseteq Parents(f) \union DOMAIN f \union {None}
  BY <1>1, <1>2 DEF Parents
<1> QED
  BY <1>3, <1>4, <1>5 DEF Continues, Lineal

LEMMA SameContinues ==
  ASSUME NEW f, Lineal(f)
  PROVE  Continues(f, f)
BY DEF Continues

LEMMA TaskAdded ==
  ASSUME NEW f \in ById(Tasks, Task), NEW t \in Tasks, NEW new \in Task, NEW g, g = WithOne(f, t, new)
  PROVE  /\ DOMAIN g = DOMAIN f \union {t}
         /\ \A x \in DOMAIN f \union {t} : g[x] = IF x \in DOMAIN f THEN f[x] ELSE new
BY DEF WithOne

LEMMA AddingContinues ==
  ASSUME NEW s \in Store, Lineal(s.tasks), NEW op, IsOperation(op), ~Throws(op, s),
         op.kind \in {"addTask", "addSubTask"}, op.task \notin DOMAIN s.tasks \union Parents(s.tasks)
  PROVE  Continues(s.tasks, Reduced(op, s).tasks)
<1> DEFINE f == s.tasks
           t == op.task
<1>1. f \in ById(Tasks, Task) /\ t \in Tasks /\ t # None
  BY StoreParts, OperationFields, NoneAssumption
<1>2. CASE op.kind = "addTask"
  <2> DEFINE new == [parent |-> None, project |-> op.project, tags |-> op.tags, subs |-> {}]
             g == Reduced(op, s).tasks
  <2>1. op.project \in Projects /\ op.tags \in SUBSET Tags
    BY <1>2, OperationFields
  <2>2. g = WithOne(f, t, new)
    <3>1. Reduced(op, s) = AddTask(op, s)
      BY <1>2, ReducedByKind
    <3>2. AddTask(op, s).tasks = WithOne(f, t, new)
      BY <1>1, <2>1, AddTaskShape
    <3> QED
      BY <3>1, <3>2
  <2>3. new \in Task /\ new.parent = None
    BY <2>1 DEF Task
  <2> HIDE DEF new, f, t, g
  <2>4. /\ DOMAIN g = DOMAIN f \union {t}
        /\ \A x \in DOMAIN f \union {t} : g[x] = IF x \in DOMAIN f THEN f[x] ELSE new
    BY <1>1, <2>2, <2>3, TaskAdded
  <2>5. t \notin DOMAIN f \union Parents(f) /\ Lineal(f)
    BY DEF f, t
  <2>6. None \notin DOMAIN f
    BY <1>1, MapFacts, NoneAssumption
  <2>7. g[t].parent = None /\ \A x \in DOMAIN f : g[x].parent = f[x].parent /\ f[x].subs \subseteq g[x].subs
    BY <2>3, <2>4, <2>5
  <2>8. Continues(f, g)
    BY <1>1, <2>4, <2>5, <2>6, <2>7, NewContinues
  <2> QED
    BY <2>8 DEF f, g
<1>3. CASE op.kind = "addSubTask" /\ op.parent \in DOMAIN f
  <2> DEFINE p == op.parent
             new == [parent |-> p, project |-> s.tasks[p].project, tags |-> {}, subs |-> {}]
             w == WithSub(f, p, t)
             g == Reduced(op, s).tasks
  <2>1. g = WithOne(w, t, new)
    BY <1>1, <1>3, ReducedByKind, AddSubTaskShape
  <2>2. p \in Tasks /\ f[p] \in Task
    BY <1>1, <1>3, MapFacts
  <2>3. new \in Task /\ new.parent = p
    BY <2>2 DEF Task
  <2>4. t \notin DOMAIN f \union Parents(f) /\ Lineal(f) /\ p \in DOMAIN f
    BY <1>3
  <2> HIDE DEF new, f, t, p, g
  <2>5. /\ w \in ById(Tasks, Task) /\ DOMAIN w = DOMAIN f
        /\ \A x \in DOMAIN f : /\ w[x].parent = f[x].parent
                               /\ w[x].subs = IF x = p THEN f[x].subs \union {t} ELSE f[x].subs
    BY <1>1, WithSubFacts
  <2> HIDE DEF w
  <2>6. /\ DOMAIN g = DOMAIN f \union {t}
        /\ \A x \in DOMAIN f \union {t} : g[x] = IF x \in DOMAIN f THEN w[x] ELSE new
    BY <1>1, <2>1, <2>3, <2>5, WithOneFacts
  <2>7. g[t].parent = p /\ \A x \in DOMAIN f : g[x].parent = f[x].parent /\ f[x].subs \subseteq g[x].subs
    BY <2>3, <2>4, <2>5, <2>6
  <2>8. t \in g[p].subs
    BY <2>4, <2>5, <2>6
  <2>9. Continues(f, g)
    BY <1>1, <2>4, <2>6, <2>7, <2>8, NewContinues
  <2> QED
    BY <2>9 DEF f, g
<1>4. CASE op.kind = "addSubTask" /\ op.parent \notin DOMAIN f
  <2>1. Reduced(op, s) = s
    BY <1>4, ReducedByKind DEF AddSubTask
  <2> QED
    BY <2>1, SameContinues
<1> QED
  BY <1>2, <1>3, <1>4

LEMMA ConvertingContinues ==
  ASSUME NEW s \in Store, Lineal(s.tasks), NEW op, IsOperation(op), ~Throws(op, s),
         op.kind \in {"convertToMain", "convertToSub", "moveSubTask"}
  PROVE  Continues(s.tasks, Reduced(op, s).tasks)
<1> DEFINE f == s.tasks
           t == op.task
<1>1. f \in ById(Tasks, Task) /\ t \in Tasks
  BY StoreParts, OperationFields
<1>2. CASE op.kind = "convertToMain"
  <2>1. op.parent \in DOMAIN f
    BY <1>2 DEF Throws
  <2>2. Reduced(op, s).tasks = MadeMain(f, t, op.parent)
    <3>1. Reduced(op, s) = ConvertToMain(op, s)
      BY <1>2, ReducedByKind
    <3> QED
      BY <1>1, <2>1, <3>1, ConvertToMainShape
  <2> HIDE DEF f, t
  <2>3. Frees(f, MadeMain(f, t, op.parent), t, op.parent)
    BY <1>1, <2>1, MadeMainFacts
  <2>4. Lineal(f)
    BY DEF f
  <2>5. Continues(f, MadeMain(f, t, op.parent))
    BY <1>1, <2>1, <2>3, <2>4, FreedContinue
  <2> QED
    BY <2>2, <2>5 DEF f
<1>3. CASE op.kind = "convertToSub" /\ CanApplyConvertToSubTask(t, op.parent, f)
  <2>1. Reduced(op, s).tasks = MadeSub(f, t, op.parent)
    <3>1. Reduced(op, s) = ConvertToSub(op, s)
      BY <1>3, ReducedByKind
    <3> QED
      BY <1>1, <1>3, <3>1, ConvertToSubShape
  <2>2. op.parent \in DOMAIN f
    BY <1>3 DEF CanApplyConvertToSubTask
  <2> HIDE DEF f, t
  <2>3. Binds(f, MadeSub(f, t, op.parent), t, op.parent)
    BY <1>1, <2>2, MadeSubFacts
  <2>4. Lineal(f)
    BY DEF f
  <2>5. Continues(f, MadeSub(f, t, op.parent))
    BY <1>1, <1>3, <2>3, <2>4, BoundContinue
  <2> QED
    BY <2>1, <2>5 DEF f
<1>4. CASE op.kind = "convertToSub" /\ ~CanApplyConvertToSubTask(t, op.parent, f)
  <2>1. Reduced(op, s) = s
    BY <1>4, ReducedByKind DEF ConvertToSub
  <2> QED
    BY <2>1, SameContinues
<1> DEFINE moves == /\ {op.source, op.target} \subseteq DOMAIN f
                    /\ t \notin Above(op.target, f) \union {op.source}
<1>5. CASE op.kind = "moveSubTask" /\ moves
  <2>1. Reduced(op, s).tasks = MovedUnder(f, t, op.source, op.target)
    BY <1>1, <1>5, ReducedByKind, MoveSubTaskShape
  <2>2. op.target \in DOMAIN f /\ t \notin Above(op.target, f) \union {op.source}
    BY <1>5
  <2> HIDE DEF f, t, moves
  <2>3. Moves(f, MovedUnder(f, t, op.source, op.target), t, op.source, op.target)
    BY <1>1, <2>2, MovedUnderFacts
  <2>4. Lineal(f)
    BY DEF f
  <2>5. Continues(f, MovedUnder(f, t, op.source, op.target))
    BY <1>1, <2>2, <2>3, <2>4, MovedContinue
  <2> QED
    BY <2>1, <2>5 DEF f
<1>6. CASE op.kind = "moveSubTask" /\ ~moves
  <2>1. Reduced(op, s) = MoveSubTask(op, s)
    BY <1>6, ReducedByKind
  <2>2. MoveSubTask(op, s) = s
    BY <1>6 DEF MoveSubTask
  <2> QED
    BY <2>1, <2>2, SameContinues
<1> QED
  BY <1>2, <1>3, <1>4, <1>5, <1>6

LEMMA AlikeContinue ==
  ASSUME NEW f \in ById(Tasks, Task), Lineal(f), NEW g \in ById(Tasks, Task), DOMAIN g = DOMAIN f,
         \A x \in DOMAIN f : g[x].parent = f[x].parent /\ g[x].subs = f[x].subs
  PROVE  Continues(f, g)
BY FewerContinue

LEMMA ChangingContinues ==
  ASSUME NEW s \in Store, Lineal(s.tasks), NEW op, IsOperation(op),
         op.kind \in {"setTags", "moveToProject", "deleteTag"}
  PROVE  Continues(s.tasks, Reduced(op, s).tasks)
<1> DEFINE f == s.tasks
           g == Reduced(op, s).tasks
<1>1. f \in ById(Tasks, Task) /\ Lineal(f)
  BY StoreParts
<1>2. CASE op.kind = "setTags" /\ op.task \notin DOMAIN f
  <2>1. Reduced(op, s) = SetTags(op, s)
    BY <1>2, ReducedByKind
  <2>2. SetTags(op, s) = s
    BY <1>2 DEF SetTags
  <2> QED
    BY <2>1, <2>2, SameContinues
<1>3. CASE op.kind = "setTags" /\ op.task \in DOMAIN f
  <2>1. Reduced(op, s) = SetTags(op, s)
    BY <1>3, ReducedByKind
  <2>2. op.tags \in SUBSET Tags
    BY <1>3, OperationFields
  <2>3. g = Retagged(f, op.task, op.tags)
    BY <1>3, <2>1, <2>2, SetTagsShape
  <2> HIDE DEF f, g
  <2>4. Retags(f, g, op.task, op.tags)
    BY <1>1, <2>2, <2>3, RetaggedFacts
  <2>5. Continues(f, g)
    BY <1>1, <2>4, AlikeContinue DEF Retags
  <2> QED
    BY <2>5 DEF f, g
<1>4. CASE op.kind = "moveToProject"
  <2>1. Reduced(op, s) = MoveToProject(op, s)
    BY <1>4, ReducedByKind
  <2>2. op.task \in Tasks /\ op.target \in Projects
    BY <1>4, OperationFields
  <2>3. g = InProject(f, Along(op, s), op.target)
    BY <2>1, <2>2, MoveToProjectShape
  <2> HIDE DEF f, g
  <2>4. Places(f, g, Along(op, s), op.target)
    BY <1>1, <2>2, <2>3, InProjectFacts
  <2>5. Continues(f, g)
    BY <1>1, <2>4, AlikeContinue DEF Places
  <2> QED
    BY <2>5 DEF f, g
<1>5. CASE op.kind = "deleteTag"
  <2>1. Reduced(op, s) = DeleteTag(op, s)
    BY <1>5, ReducedByKind
  <2>2. op.tag \in Tags
    BY <1>5, OperationFields
  <2>3. g = Untagged(f, op.tag)
    BY <2>1, <2>2, DeleteTagShape
  <2> HIDE DEF f, g
  <2>4. Untags(f, g, op.tag)
    BY <1>1, <2>3, UntaggedFacts
  <2>5. Continues(f, g)
    BY <1>1, <2>4, AlikeContinue DEF Untags
  <2> QED
    BY <2>5 DEF f, g
<1> QED
  BY <1>2, <1>3, <1>4, <1>5

LEMMA DroppedContinue ==
  ASSUME NEW f \in ById(Tasks, Task), Lineal(f), NEW g, NEW t, NEW p, NEW gone, t \in gone, Drops(f, g, t, p, gone)
  PROVE  Continues(f, g)
<1>1. /\ g \in ById(Tasks, Task)
      /\ DOMAIN g = DOMAIN f \ gone
      /\ \A x \in DOMAIN g : /\ g[x].parent = f[x].parent
                             /\ g[x].subs = IF x = p THEN f[x].subs \ {t} ELSE f[x].subs
  BY DEF Drops
<1>2. DOMAIN g \subseteq DOMAIN f /\ t \notin DOMAIN g
  BY <1>1
<1>3. \A x, y \in DOMAIN g : y \in f[x].subs => y \in g[x].subs
  BY <1>1, <1>2
<1> QED
  BY <1>1, <1>2, <1>3, FewerContinue

LEMMA RemovingContinues ==
  ASSUME NEW s \in Store, Lineal(s.tasks), NEW op, IsOperation(op),
         op.kind \in {"deleteTask", "deleteProject", "moveToArchive"}
  PROVE  Continues(s.tasks, Reduced(op, s).tasks)
<1> DEFINE f == s.tasks
           g == Reduced(op, s).tasks
<1>1. f \in ById(Tasks, Task) /\ Lineal(f)
  BY StoreParts
<1>2. CASE op.kind = "deleteTask"
  <2>1. Reduced(op, s) = DeleteTask(op, s)
    BY <1>2, ReducedByKind
  <2>2. op.task \in Tasks
    BY <1>2, OperationFields
  <2>3. g = Removed(f, op.task, op.parent, op.subs)
    BY <2>1, <2>2, DeleteTaskShape
  <2> HIDE DEF f, g
  <2> DEFINE gone == {op.task} \union op.subs \union SubsOf(f, op.task)
  <2>4. Drops(f, g, op.task, op.parent, gone)
    BY <1>1, <2>3, RemovedFacts
  <2>5. op.task \in gone
    OBVIOUS
  <2> HIDE DEF gone
  <2>6. Continues(f, g)
    BY <1>1, <2>4, <2>5, DroppedContinue
  <2> QED
    BY <2>6 DEF f, g
<1>3. CASE op.kind = "moveToArchive"
  <2>1. Reduced(op, s) = MoveToArchive(op, s)
    BY <1>3, ReducedByKind
  <2>2. op.records \in ById(Tasks, Task)
    BY <1>3, OperationFields
  <2>3. g = Removed(f, op.task, None, DOMAIN op.records)
    BY <2>1, <2>2, MoveToArchiveShape
  <2> HIDE DEF f, g
  <2> DEFINE gone == {op.task} \union DOMAIN op.records \union SubsOf(f, op.task)
  <2>4. Drops(f, g, op.task, None, gone)
    BY <1>1, <2>3, RemovedFacts
  <2>5. op.task \in gone
    OBVIOUS
  <2> HIDE DEF gone
  <2>6. Continues(f, g)
    BY <1>1, <2>4, <2>5, DroppedContinue
  <2> QED
    BY <2>6 DEF f, g
<1>4. CASE op.kind = "deleteProject"
  <2>1. Reduced(op, s) = DeleteProject(op, s)
    BY <1>4, ReducedByKind
  <2>2. op.project \in Projects
    BY <1>4, OperationFields
  <2>3. g = Without(f, op.tasks)
    BY <2>1, <2>2, DeleteProjectShape
  <2> HIDE DEF f, g
  <2> DEFINE keys == op.tasks
             w == Without(f, keys)
  <2> HIDE DEF keys
  <2>4. /\ w \in ById(Tasks, Task)
        /\ DOMAIN w = DOMAIN f \ keys
        /\ \A x \in DOMAIN f \ keys : w[x] = f[x]
    BY <1>1, ByIdIsById DEF IsById, Without, Restrict
  <2>5. w = g
    BY <2>3 DEF keys
  <2>6. g \in ById(Tasks, Task) /\ DOMAIN g \subseteq DOMAIN f /\ \A x \in DOMAIN g : g[x] = f[x]
    BY <2>4, <2>5
  <2>7. Continues(f, g)
    BY <1>1, <2>6, FewerContinue
  <2> QED
    BY <2>7 DEF f, g
<1> QED
  BY <1>2, <1>3, <1>4

\* An operation that is not a restoration leaves tasks in families without loops, in
\* which every parent lists its children, whatever they were like otherwise.
LEMMA ReducedContinues ==
  ASSUME NEW s \in Store, Lineal(s.tasks), NEW op, IsOperation(op), ~Throws(op, s), op.kind # "restoreTask",
         Adds(op) \intersect (DOMAIN s.tasks \union Parents(s.tasks)) = {}
  PROVE  Continues(s.tasks, Reduced(op, s).tasks)
<1>1. CASE op.kind \in {"addTask", "addSubTask"}
  <2>1. op.task \notin DOMAIN s.tasks \union Parents(s.tasks)
    BY <1>1 DEF Adds
  <2> QED
    BY <1>1, <2>1, AddingContinues
<1>2. CASE op.kind \in {"convertToMain", "convertToSub", "moveSubTask"}
  BY <1>2, ConvertingContinues
<1>3. CASE op.kind \in {"setTags", "moveToProject", "deleteTag"}
  BY <1>3, ChangingContinues
<1>4. CASE op.kind \in {"deleteTask", "deleteProject", "moveToArchive"}
  BY <1>4, RemovingContinues
<1> QED
  BY <1>1, <1>2, <1>3, <1>4, OperationFields

LEMMA AfterContinues ==
  ASSUME NEW r \in Outcome, Lineal(r.store.tasks), NEW op \in Operation, op.kind # "restoreTask",
         Adds(op) \intersect (DOMAIN r.store.tasks \union Parents(r.store.tasks)) = {}
  PROVE  Continues(r.store.tasks, After(op, r).store.tasks)
<1>1. r.store \in Store /\ r.threw \in BOOLEAN /\ r = [store |-> r.store, threw |-> r.threw]
  BY DEF Outcome
<1>2. CASE r.threw \/ Throws(op, r.store)
  <2>1. After(op, r) = [store |-> r.store, threw |-> TRUE]
    BY <1>1, <1>2 DEF After
  <2> QED
    BY <2>1, SameContinues
<1>3. CASE ~(r.threw \/ Throws(op, r.store))
  <2>1. After(op, r) = [store |-> Reduced(op, r.store), threw |-> FALSE]
    BY <1>1, <1>3 DEF After
  <2>2. IsOperation(op)
    BY OperationIsOperation
  <2> DEFINE s == r.store
  <2>3. s \in Store /\ Lineal(s.tasks) /\ ~Throws(op, s) /\ Adds(op) \intersect (DOMAIN s.tasks \union Parents(s.tasks)) = {}
    BY <1>1, <1>3
  <2> HIDE DEF s
  <2>4. Continues(s.tasks, Reduced(op, s).tasks)
    BY <2>2, <2>3, ReducedContinues
  <2> QED
    BY <2>1, <2>4 DEF s
<1> QED
  BY <1>2, <1>3

LEMMA AddedTasks ==
  ASSUME NEW op \in Operation
  PROVE  None \notin Adds(op)
BY BringsTasks, AddsBrings, NoneAssumption

Unrestored(entries, n) == \A k \in 1..n : entries[k].op.kind # "restoreTask"

LEMMA BatchContinues ==
  ASSUME NEW s \in Store, Lineal(s.tasks), NEW entries \in Seq(Entry), InTurn(entries), Unrestored(entries, Len(entries)),
         Added(entries) \intersect (Everywhere(s) \union Parents(s.tasks)) = {}
  PROVE  /\ Lineal(Batch(entries, s).store.tasks)
         /\ Parents(Batch(entries, s).store.tasks) \subseteq Parents(s.tasks) \union Everywhere(s) \union Brought(entries) \union {None}
<1>1. PICK upto : Reduces(upto, entries, s) /\ Batch(entries, s) = upto[Len(entries)]
  BY BatchSteps
<1> DEFINE n == Len(entries)
           upTo(k) == UNION {Brings(entries[i].op) : i \in 1..k}
           met(k) == Parents(s.tasks) \union Everywhere(s) \union upTo(k) \union {None}
           S == {k \in 0..n : /\ upto[k] \in Outcome /\ Lineal(upto[k].store.tasks)
                              /\ Everywhere(upto[k].store) \subseteq met(k)
                              /\ Parents(upto[k].store.tasks) \subseteq met(k)}
<1>2. n \in Nat
  OBVIOUS
<1>3. 0 \in S
  <2>1. upto[0] = [store |-> s, threw |-> FALSE]
    BY <1>1 DEF Reduces
  <2>2. upto[0] \in Outcome /\ upto[0].store = s
    BY <2>1, StartOutcome
  <2>3. 0 \in 0..n
    BY <1>2
  <2> QED
    BY <2>2, <2>3
<1>4. ASSUME NEW k \in 0..n - 1, k \in S
      PROVE  k + 1 \in S
  <2>1. k + 1 \in 1..n /\ (k + 1) - 1 = k
    BY <1>2
  <2> DEFINE op == entries[k + 1].op
             r == upto[k]
  <2>2. upto[k + 1] = After(op, r)
    BY <1>1, <2>1 DEF Reduces
  <2>3. /\ r \in Outcome /\ Lineal(r.store.tasks)
        /\ Everywhere(r.store) \subseteq met(k) /\ Parents(r.store.tasks) \subseteq met(k)
    BY <1>4
  <2>4. op \in Operation /\ op.kind # "restoreTask"
    BY <2>1, EntryAt DEF Unrestored
  <2>5. Adds(op) \intersect (Everywhere(s) \union Parents(s.tasks)) = {}
    BY <2>1 DEF Added
  <2>6. Adds(op) \intersect upTo(k) = {}
    <3>1. \A i \in 1..k : i \in 1..n /\ i < k + 1
      BY <1>2, <2>1
    <3>2. \A i \in 1..k : Brings(entries[i].op) \intersect Adds(op) = {}
      BY <2>1, <3>1 DEF InTurn
    <3> QED
      BY <3>2
  <2>7. Adds(op) \intersect met(k) = {}
    BY <2>4, <2>5, <2>6, AddedTasks
  <2>8. met(k + 1) = met(k) \union Brings(op)
    <3>1. 1..(k + 1) = (1..k) \union {k + 1}
      BY <1>2, <2>1
    <3>2. upTo(k + 1) = upTo(k) \union Brings(op)
      BY <3>1
    <3> HIDE DEF upTo
    <3> QED
      BY <3>2
  <2>9. None \in met(k)
    OBVIOUS
  <2> HIDE DEF op, r, upTo, met
  <2>10. After(op, r) \in Outcome /\ Everywhere(After(op, r).store) \subseteq Everywhere(r.store) \union Brings(op)
    BY <2>3, <2>4, AfterFacts
  <2>11. DOMAIN r.store.tasks \subseteq met(k)
    BY <2>3 DEF Everywhere
  <2>12. Adds(op) \intersect (DOMAIN r.store.tasks \union Parents(r.store.tasks)) = {}
    BY <2>3, <2>7, <2>11
  <2>13. Continues(r.store.tasks, After(op, r).store.tasks)
    BY <2>3, <2>4, <2>12, AfterContinues
  <2>14. Lineal(After(op, r).store.tasks) /\ Parents(After(op, r).store.tasks) \subseteq met(k)
    BY <2>3, <2>9, <2>11, <2>13 DEF Continues
  <2>15. k + 1 \in 0..n
    BY <1>2, <2>1
  <2> QED
    BY <2>2, <2>3, <2>8, <2>10, <2>14, <2>15
<1>5. n \in S
  <2> HIDE DEF S, n
  <2>1. \A k \in 0..n : k \in S
    BY <1>2, <1>3, <1>4, SegmentInduction
  <2> QED
    BY <1>2, <2>1
<1> QED
  BY <1>1, <1>5 DEF Brought

\* Neither what d has applied of the log nor what it has yet to upload restores a task.
Unrestoring(d) == Unrestored(log, seen[d]) /\ Unrestored(pending[d], Len(pending[d]))

\* On a device that has restored no task, the families have no loops and every parent
\* lists its children; and no operation that is still to come makes a task that one of
\* the tasks there names as its parent, so that none gets children it does not list.
Orderly ==
  \A d \in Devices : Unrestoring(d) =>
    /\ Lineal(store[d].tasks)
    /\ Parents(store[d].tasks) \subseteq born \union {None}
    /\ \A j \in 1..Len(log) : seen[d] < j => Adds(log[j].op) \intersect Parents(store[d].tasks) = {}
    /\ \A e \in Devices : d # e => Added(pending[e]) \intersect Parents(store[d].tasks) = {}

LEMMA SameOrderly ==
  ASSUME Orderly, UNCHANGED <<store, log, pending, seen, born>>
  PROVE  Orderly'
<1>1. \A d \in Devices : Unrestoring(d)' <=> Unrestoring(d)
  BY DEF Unrestoring
<1> QED
  BY <1>1 DEF Orderly

LEMMA AddedProper ==
  ASSUME Typed, NEW d \in Devices
  PROVE  None \notin Added(pending[d])
<1>1. pending[d] \in Seq(Entry)
  BY DEF Typed
<1>2. \A k \in 1..Len(pending[d]) : None \notin Adds(pending[d][k].op)
  BY <1>1, EntryAt, AddedTasks
<1> QED
  BY <1>2 DEF Added

LEMMA MakesOrderly ==
  ASSUME Typed, Born, Fresh, Orderly, NEW d \in Devices, Makes(d)
  PROVE  Orderly'
<1>1. PICK op : Dispatch(d, op) /\ MadeOf(op, store[d]) /\ born' = born \union Brings(op) /\ Adds(op) \intersect born = {}
  BY DEF Makes
<1> DEFINE e == Made1(d, op)
           s == store[d]
           r == Reduced(op, s)
           q == pending[d]
<1>2. /\ s \in Store /\ Proper(op, s) /\ e \in Entry
      /\ store' = [store EXCEPT ![d] = r]
      /\ pending' = [pending EXCEPT ![d] = Append(q, e)]
      /\ log' = log /\ seen' = seen
  BY <1>1, DispatchFacts
<1>3. e.op = op
  BY DEF Made1
<1>4. op \in Operation /\ IsOperation(op) /\ ~Throws(op, s) /\ None \notin Adds(op)
  BY <1>2, OperationIsOperation, AddedTasks DEF Proper
<1>5. q \in Seq(Entry) /\ DOMAIN store = Devices /\ DOMAIN pending = Devices
  BY DEF Typed
<1>6. DOMAIN s.tasks \subseteq born /\ DOMAIN s.tasks \subseteq Known(d)
  BY DEF Born, Everywhere, Known
<1>7. Orderly
  OBVIOUS
<1> HIDE DEF e, r
<1>8. /\ store'[d] = r /\ pending'[d] = Append(q, e)
      /\ \A x \in Devices \ {d} : store'[x] = store[x] /\ pending'[x] = pending[x]
  BY <1>2, <1>5
<1>9. \A x \in Devices : Brought(log) \subseteq born /\ Added(pending[x]) \subseteq born
  BY BornBrought, AddedBrought
<1> HIDE DEF q, s
<1>10. /\ Len(Append(q, e)) = Len(q) + 1 /\ Len(q) \in Nat
       /\ Append(q, e)[Len(q) + 1] = e
       /\ \A k \in 1..Len(q) : Append(q, e)[k] = q[k]
       /\ Added(Append(q, e)) = Added(q) \union Adds(op)
  BY <1>2, <1>3, <1>5, BroughtAppended
<1>11. ASSUME Unrestoring(d)'
       PROVE  Unrestoring(d) /\ op.kind # "restoreTask"
  <2>1. Unrestored(log, seen[d]) /\ Unrestored(Append(q, e), Len(q) + 1)
    BY <1>2, <1>8, <1>10, <1>11 DEF Unrestoring
  <2>2. Unrestored(q, Len(q))
    BY <1>10, <2>1 DEF Unrestored
  <2>3. op.kind # "restoreTask"
    BY <1>3, <1>10, <2>1 DEF Unrestored
  <2> QED
    BY <2>1, <2>2, <2>3 DEF Unrestoring, q
<1>12. ASSUME NEW x \in Devices, Unrestoring(x)'
       PROVE  Unrestoring(x)
  <2>1. CASE x = d
    BY <1>11, <1>12, <2>1
  <2>2. CASE x # d
    BY <1>2, <1>8, <1>12, <2>2 DEF Unrestoring
  <2> QED
    BY <2>1, <2>2
<1>13. ASSUME Unrestoring(d)'
       PROVE  Continues(s.tasks, r.tasks)
  <2>1. Unrestoring(d) /\ op.kind # "restoreTask"
    BY <1>11, <1>13
  <2>2. Lineal(s.tasks) /\ Parents(s.tasks) \subseteq born \union {None}
    BY <1>7, <2>1 DEF Orderly, s
  <2>3. Adds(op) \intersect (DOMAIN s.tasks \union Parents(s.tasks)) = {}
    BY <1>1, <1>4, <1>6, <2>2
  <2> QED
    BY <1>2, <1>4, <2>1, <2>2, <2>3, ReducedContinues DEF r
<1>14. ASSUME NEW x \in Devices, Unrestoring(x)'
       PROVE  /\ Lineal(store'[x].tasks)
              /\ Parents(store'[x].tasks) \subseteq Parents(store[x].tasks) \union (Known(x) \intersect born) \union {None}
  <2>1. CASE x = d
    BY <1>6, <1>8, <1>13, <1>14, <2>1 DEF Continues, s
  <2>2. CASE x # d
    BY <1>7, <1>8, <1>12, <1>14, <2>2 DEF Orderly
  <2> QED
    BY <2>1, <2>2
<1>15. ASSUME NEW x \in Devices, Unrestoring(x)'
       PROVE  Parents(store'[x].tasks) \subseteq born \union {None}
  BY <1>7, <1>12, <1>14, <1>15 DEF Orderly
<1>16. ASSUME NEW x \in Devices, Unrestoring(x)', NEW j \in 1..Len(log), seen[x] < j
       PROVE  Adds(log[j].op) \intersect Parents(store'[x].tasks) = {}
  <2>1. Adds(log[j].op) \intersect Parents(store[x].tasks) = {}
    BY <1>7, <1>12, <1>16 DEF Orderly
  <2>2. Adds(log[j].op) \intersect Known(x) = {}
    BY <1>16 DEF Fresh
  <2>3. log[j].op \in Operation
    BY EntryAt DEF Typed
  <2>4. None \notin Adds(log[j].op)
    BY <2>3, AddedTasks
  <2> QED
    BY <1>14, <1>16, <2>1, <2>2, <2>4
<1>17. ASSUME NEW x \in Devices, NEW y \in Devices, x # y, Unrestoring(x)'
       PROVE  Added(pending'[y]) \intersect Parents(store'[x].tasks) = {}
  <2>1. Added(pending[y]) \intersect Parents(store[x].tasks) = {}
    BY <1>7, <1>12, <1>17 DEF Orderly
  <2>2. Added(pending[y]) \intersect Known(x) = {}
    BY <1>17 DEF Fresh
  <2>3. None \notin Added(pending[y])
    BY AddedProper
  <2>4. Added(pending[y]) \intersect Parents(store'[x].tasks) = {}
    BY <1>14, <1>17, <2>1, <2>2, <2>3
  <2>5. CASE y = d
    <3>1. Added(pending'[y]) = Added(pending[y]) \union Adds(op)
      BY <1>8, <1>10, <2>5 DEF q
    <3>2. Adds(op) \intersect Parents(store'[x].tasks) = {}
      BY <1>1, <1>4, <1>15, <1>17
    <3> QED
      BY <2>4, <3>1, <3>2
  <2>6. CASE y # d
    BY <1>8, <2>4, <2>6
  <2> QED
    BY <2>5, <2>6
<1> QED
  BY <1>1, <1>2, <1>14, <1>15, <1>16, <1>17 DEF Orderly

LEMMA SyncOrderly ==
  ASSUME Typed, Born, Fresh, AllTidy, Orderly, NEW d \in Devices, Sync(d)
  PROVE  Orderly'
<1>1. Synced(d) \/ Threw(d)
  BY SyncFacts
<1>2. CASE Threw(d)
  <2>1. UNCHANGED <<store, log, pending, seen, born>>
    BY <1>2 DEF Threw
  <2> QED
    BY <2>1, SameOrderly
<1>3. CASE Synced(d)
  <2> DEFINE p == pending[d]
             s == store[d]
             new == New1(d)
             r == Batch(new, s).store
             n == Len(log)
             a == seen[d]
  <2>1. /\ store' = [store EXCEPT ![d] = r]
        /\ log' = log \o p
        /\ pending' = [pending EXCEPT ![d] = <<>>]
        /\ seen' = [seen EXCEPT ![d] = Len(log')]
        /\ born' = born
    BY <1>3 DEF Synced
  <2>2. /\ new \in Seq(Entry) /\ Len(new) = n - a
        /\ \A k \in 1..Len(new) : new[k] = log[a + k] /\ a + k \in 1..n
        /\ InTurn(new) /\ Added(new) \intersect Known(d) = {} /\ Brought(new) \subseteq Brought(log)
    BY NewFacts, NewFresh
  <2>3. /\ log \in Seq(Entry) /\ p \in Seq(Entry) /\ s \in Store /\ n \in Nat
        /\ a \in Nat /\ a <= n /\ \A x \in Devices : seen[x] \in Nat /\ seen[x] <= n
    BY DEF Typed
  <2>4. /\ store'[d] = r /\ pending'[d] = <<>> /\ seen'[d] = Len(log')
        /\ \A x \in Devices \ {d} : store'[x] = store[x] /\ pending'[x] = pending[x] /\ seen'[x] = seen[x]
    BY <2>1 DEF Typed
  <2>5. Everywhere(s) \subseteq Known(d) /\ Everywhere(s) \subseteq born
    BY DEF Known, Born
  <2> HIDE DEF p, new, r, n, a
  <2>6. /\ Len(log') = n + Len(p) /\ Len(p) \in Nat
        /\ \A k \in 1..n : log'[k] = log[k]
        /\ \A k \in (n + 1)..(n + Len(p)) : k - n \in 1..Len(p) /\ log'[k] = p[k - n]
    BY <2>1, <2>3, BroughtJoined DEF n
  <2>7. \A k \in 1..Len(log') : k \in 1..n \/ k \in (n + 1)..(n + Len(p))
    BY <2>3, <2>6
  <2>8. ASSUME Unrestoring(d)'
        PROVE  Unrestoring(d) /\ Unrestored(new, Len(new))
    <3>1. \A k \in 1..n + Len(p) : log'[k].op.kind # "restoreTask"
      BY <2>4, <2>6, <2>8 DEF Unrestoring, Unrestored
    <3>2. \A k \in 1..n : log[k].op.kind # "restoreTask"
      BY <2>3, <2>6, <3>1
    <3>3. Unrestored(new, Len(new))
      BY <2>2, <3>2 DEF Unrestored
    <3>4. \A k \in 1..Len(p) : n + k \in (n + 1)..(n + Len(p)) /\ n + k \in 1..(n + Len(p)) /\ (n + k) - n = k
      BY <2>3, <2>6
    <3>5. \A k \in 1..Len(p) : p[k].op.kind # "restoreTask"
      BY <2>6, <3>1, <3>4
    <3>6. \A k \in 1..a : k \in 1..n
      BY <2>3
    <3>7. Unrestored(log, a) /\ Unrestored(p, Len(p))
      BY <3>2, <3>5, <3>6 DEF Unrestored
    <3> QED
      BY <3>3, <3>7 DEF Unrestoring, a, p
  <2>9. ASSUME NEW x \in Devices \ {d}, Unrestoring(x)'
        PROVE  Unrestoring(x)
    <3>1. \A k \in 1..seen[x] : k \in 1..n
      BY <2>3
    <3> QED
      BY <2>4, <2>6, <2>9, <3>1 DEF Unrestoring, Unrestored
  <2>10. ASSUME Unrestoring(d)'
         PROVE  /\ Lineal(r.tasks)
                /\ Parents(r.tasks) \subseteq Parents(s.tasks) \union Everywhere(s) \union Brought(log) \union {None}
    <3>1. Unrestoring(d) /\ Unrestored(new, Len(new))
      BY <2>8, <2>10
    <3>2. Lineal(s.tasks)
      BY <3>1 DEF Orderly
    <3>3. Added(new) \intersect Parents(s.tasks) = {}
      <4>1. ASSUME NEW k \in 1..Len(new)
            PROVE  Adds(new[k].op) \intersect Parents(s.tasks) = {}
        <5>1. new[k] = log[a + k] /\ a + k \in 1..Len(log) /\ seen[d] < a + k
          BY <2>2, <2>3 DEF a, n
        <5> QED
          BY <3>1, <5>1 DEF Orderly
      <4> QED
        BY <4>1 DEF Added
    <3>4. Added(new) \intersect (Everywhere(s) \union Parents(s.tasks)) = {}
      BY <2>2, <2>5, <3>3
    <3> HIDE DEF s
    <3> QED
      BY <2>2, <2>3, <3>1, <3>2, <3>4, BatchContinues DEF r
  <2>11. ASSUME NEW x \in Devices
         PROVE  Brought(log) \subseteq born /\ Added(pending[x]) \intersect Brought(log) = {}
    BY BornBrought DEF Fresh
  <2> HIDE DEF s
  <2>12. ASSUME NEW x \in Devices, Unrestoring(x)'
         PROVE  /\ Lineal(store'[x].tasks)
                /\ Parents(store'[x].tasks) \subseteq born \union {None}
    <3>1. CASE x = d
      <4>1. Parents(s.tasks) \subseteq born \union {None}
        BY <2>8, <2>12, <3>1 DEF Orderly, s
      <4> QED
        BY <2>4, <2>5, <2>10, <2>11, <2>12, <3>1, <4>1
    <3>2. CASE x # d
      BY <2>1, <2>4, <2>9, <2>12, <3>2 DEF Orderly
    <3> QED
      BY <3>1, <3>2
  <2>13. ASSUME NEW x \in Devices, Unrestoring(x)', NEW j \in 1..Len(log'), seen'[x] < j
         PROVE  Adds(log'[j].op) \intersect Parents(store'[x].tasks) = {}
    <3>1. x # d
      BY <2>3, <2>4, <2>6, <2>13
    <3>2. seen'[x] = seen[x] /\ store'[x] = store[x] /\ Unrestoring(x)
      BY <2>4, <2>9, <2>13, <3>1
    <3>3. CASE j \in 1..n
      <4>1. log'[j] = log[j]
        BY <2>6, <3>3
      <4> QED
        BY <2>13, <3>2, <3>3, <4>1 DEF Orderly, n
    <3>4. CASE j \in (n + 1)..(n + Len(p))
      <4>1. Added(p) \intersect Parents(store[x].tasks) = {}
        BY <3>1, <3>2 DEF Orderly, p
      <4>2. j - n \in 1..Len(p) /\ log'[j] = p[j - n]
        BY <2>6, <3>4
      <4>3. Adds(log'[j].op) \subseteq Added(p)
        BY <4>2 DEF Added
      <4> QED
        BY <3>2, <4>1, <4>3
    <3> QED
      BY <2>7, <3>3, <3>4
  <2>14. ASSUME NEW x \in Devices, NEW y \in Devices, x # y, Unrestoring(x)'
         PROVE  Added(pending'[y]) \intersect Parents(store'[x].tasks) = {}
    <3>1. CASE y = d
      <4>1. Added(<<>>) = {}
        BY DEF Added
      <4> QED
        BY <2>4, <3>1, <4>1
    <3>2. CASE y # d /\ x = d
      <4>1. pending'[y] = pending[y] /\ Added(pending[y]) \intersect Known(d) = {}
        BY <2>4, <3>2 DEF Fresh
      <4>2. Added(pending[y]) \intersect Parents(s.tasks) = {}
        BY <2>8, <2>14, <3>2 DEF Orderly, s
      <4>3. None \notin Added(pending[y])
        BY AddedProper
      <4> QED
        BY <2>4, <2>5, <2>10, <2>11, <2>14, <3>2, <4>1, <4>2, <4>3
    <3>3. CASE y # d /\ x # d
      <4>1. pending'[y] = pending[y] /\ store'[x] = store[x] /\ Unrestoring(x)
        BY <2>4, <2>9, <2>14, <3>3
      <4> QED
        BY <2>14, <4>1 DEF Orderly
    <3> QED
      BY <3>1, <3>2, <3>3
  <2>15. ASSUME NEW x \in Devices, Unrestoring(x)'
         PROVE  /\ \A j \in 1..Len(log') : seen'[x] < j => Adds(log'[j].op) \intersect Parents(store'[x].tasks) = {}
                /\ \A e \in Devices : x # e => Added(pending'[e]) \intersect Parents(store'[x].tasks) = {}
    BY <2>13, <2>14, <2>15
  <2>16. born' = born
    BY <2>1
  <2> QED
    BY <2>12, <2>15, <2>16 DEF Orderly
<1> QED
  BY <1>1, <1>2, <1>3

LEMMA NextOrderly ==
  ASSUME Typed, Born, Fresh, AllTidy, Orderly, [Next]_vars
  PROVE  Orderly'
<1>1. CASE Next
  BY <1>1, NextMakes, MakesOrderly, SyncOrderly
<1>2. CASE UNCHANGED vars
  BY <1>2, SameOrderly DEF vars
<1> QED
  BY <1>1, <1>2

LEMMA FamiliesLineal ==
  ASSUME NEW f \in ById(Tasks, Task), Families(f)
  PROVE  Lineal(f)
<1>1. \A x \in DOMAIN f : /\ f[x].parent \in DOMAIN f \union {None}
                          /\ \A y \in DOMAIN f : y \in f[x].subs <=> f[y].parent = x
                          /\ f[x].parent # None => f[f[x].parent].parent = None
  <2> SUFFICES ASSUME NEW x \in DOMAIN f
               PROVE  /\ f[x].parent \in DOMAIN f \union {None}
                      /\ \A y \in DOMAIN f : y \in f[x].subs <=> f[y].parent = x
                      /\ f[x].parent # None => f[f[x].parent].parent = None
    OBVIOUS
  <2>1. Kin(f, x)
    BY DEF Families
  <2> QED
    BY <2>1 DEF Kin
<1>2. None \notin DOMAIN f
  BY MapFacts, NoneAssumption
<1>3. NoLoop(f)
  <2> SUFFICES ASSUME NEW S \in SUBSET DOMAIN f, S # {}, \A x \in S : f[x].parent \in S
               PROVE  FALSE
    BY DEF NoLoop
  <2>1. PICK x \in S : TRUE
    OBVIOUS
  <2>2. f[x].parent \in S /\ f[f[x].parent].parent \in S
    OBVIOUS
  <2> QED
    BY <1>1, <1>2, <2>2
<1>4. ListsAll(f)
  BY <1>1 DEF ListsAll
<1> QED
  BY <1>3, <1>4 DEF Lineal

LEMMA InitOrderly ==
  ASSUME Init
  PROVE  Orderly
<1>1. PICK s \in StartStores : store = [d \in Devices |-> s] /\ born = DOMAIN s.tasks \union DOMAIN s.archive
  BY DEF Init
<1>2. log = <<>> /\ pending = [d \in Devices |-> <<>>] /\ seen = [d \in Devices |-> 0]
  BY DEF Init
<1>3. Added(<<>>) = {} /\ 1..Len(<<>>) = {}
  BY DEF Added
<1>4. s \in Store /\ Families(s.tasks)
  BY StartSound DEF Sound
<1>5. Lineal(s.tasks)
  BY <1>4, StoreParts, FamiliesLineal
<1>6. Parents(s.tasks) \subseteq born \union {None}
  BY <1>1, <1>4 DEF Parents, Families, Kin
<1> QED
  BY <1>1, <1>2, <1>3, <1>5, <1>6 DEF Orderly

LEMMA UnrestoringUnlessRestored ==
  ASSUME Typed, NEW d \in Devices, ~Restored(d)
  PROVE  Unrestoring(d)
<1> DEFINE p == pending[d]
           a == seen[d]
           q == SubSeq(log, 1, a)
           h == q \o p
<1>1. log \in Seq(Entry) /\ p \in Seq(Entry) /\ a \in Nat /\ a <= Len(log)
  BY DEF Typed
<1>2. \A k \in DOMAIN h : h[k].op.kind # "restoreTask"
  BY DEF Restored, History
<1> HIDE DEF p, a
<1>3. q \in Seq(Entry) /\ Len(q) = a /\ \A k \in 1..a : q[k] = log[k]
  BY <1>1
<1> HIDE DEF q
<1>4. /\ h \in Seq(Entry) /\ Len(h) = a + Len(p) /\ Len(p) \in Nat
      /\ \A k \in 1..a : h[k] = q[k]
      /\ \A k \in 1..Len(p) : h[a + k] = p[k]
  BY <1>1, <1>3
<1>5. DOMAIN h = 1..(a + Len(p))
  BY <1>4
<1> HIDE DEF h
<1>6. \A k \in 1..a : k \in DOMAIN h
  BY <1>1, <1>4, <1>5
<1>7. \A k \in 1..Len(p) : a + k \in DOMAIN h
  BY <1>1, <1>4, <1>5
<1>8. Unrestored(log, a)
  BY <1>2, <1>3, <1>4, <1>6 DEF Unrestored
<1>9. Unrestored(p, Len(p))
  BY <1>2, <1>4, <1>7 DEF Unrestored
<1> QED
  BY <1>8, <1>9 DEF Unrestoring, p, a

LEMMA OrderlyAgree ==
  ASSUME Typed, Orderly
  PROVE  FamiliesAgree
<1> SUFFICES ASSUME NEW d \in Devices, ~Restored(d), NEW t \in DOMAIN store[d].tasks
             PROVE  /\ t \notin Above(store[d].tasks[t].parent, store[d].tasks)
                    /\ SubsOf(store[d].tasks, t) \subseteq store[d].tasks[t].subs
  BY DEF FamiliesAgree, Here, The
<1> DEFINE f == store[d].tasks
<1>1. Lineal(f)
  BY UnrestoringUnlessRestored DEF Orderly
<1>2. f \in ById(Tasks, Task)
  BY StoreParts DEF Typed
<1> HIDE DEF f
<1>3. t \in DOMAIN f
  BY DEF f
<1>4. t \notin Above(f[t].parent, f)
  BY <1>1, <1>2, <1>3, NotAboveItself DEF Lineal
<1>5. SubsOf(f, t) \subseteq f[t].subs
  BY <1>1, <1>3 DEF Lineal, ListsAll, SubsOf
<1> QED
  BY <1>4, <1>5 DEF f

\* On a device that has restored no task, whatever conversions, moves, deletions and
\* archivings other devices made at the same time, no task is its own ancestor and a
\* parent lists every task that names it: two devices that make each other's tasks
\* subtasks cannot tie a loop, since every device refuses one of the two, and no task
\* names as its parent one that is yet to be made.
THEOREM FamiliesStayInOrder == Spec => []FamiliesAgree
<1>1. Init => Typed /\ Born /\ Fresh /\ AllTidy /\ Orderly
  BY InitTyped, InitFresh, InitOrderly
<1>2. Typed /\ Born /\ Fresh /\ AllTidy /\ Orderly /\ [Next]_vars => (Typed /\ Born /\ Fresh /\ AllTidy /\ Orderly)'
  BY NextTyped, NextFresh, NextOrderly
<1>3. Typed /\ Orderly => FamiliesAgree
  BY OrderlyAgree
<1> QED
  BY <1>1, <1>2, <1>3, PTL DEF Spec
=============================================================================
