---------------------------- MODULE MCTaskRelations ----------------------------
(* Small instances of TaskRelations. *)
EXTENDS TaskRelations

CONSTANTS d1, d2, a, b, c

TwoDevices  == {d1, d2}
ThreeTasks  == {a, b, c}

\* Devices and tasks are interchangeable.
Symmetric == Permutations(Devices) \union Permutations(Tasks)

TwoProjects == {"inbox", "p"}
OneTag      == {"g"}

\* Three operations are too many from every start store: here they start from
\* three tasks without tags in the inbox, in families of any shape, or from a
\* task with a subtask in another project, either archived or tagged.
NoTags(tasks) == \A t \in DOMAIN tasks : tasks[t].tags = {}
AllTagged(tasks) == \A t \in DOMAIN tasks : tasks[t].tags # {}

Inbox(s) ==
  /\ s.archive = <<>>
  /\ DOMAIN s.tasks = Tasks /\ NoTags(s.tasks)
  /\ \A t \in Tasks : s.tasks[t].project = INBOX

IsPair(tasks) ==
  /\ Cardinality(DOMAIN tasks) = 2
  /\ \E t \in DOMAIN tasks : tasks[t].parent # None
  /\ \A t \in DOMAIN tasks : tasks[t].project # INBOX

ArchivedPair(s) == s.tasks = <<>> /\ IsPair(s.archive) /\ NoTags(s.archive)
TaggedPair(s) == s.archive = <<>> /\ IsPair(s.tasks) /\ AllTagged(s.tasks)

MCInit == Init /\ \A d \in Devices : Inbox(store[d]) \/ ArchivedPair(store[d]) \/ TaggedPair(store[d])
MCSpec == MCInit /\ [][Next]_vars
=============================================================================
