---------------------------- MODULE MCTaskArchive ----------------------------
(* A small instance of TaskArchive. *)
EXTENDS TaskArchive, TLC

CONSTANTS d1, d2, a, b

TwoDevices == {d1, d2}
TwoTasks   == {a, b}
OneOld     == {a}

\* Devices are interchangeable; of the tasks one is old.
Symmetric == Permutations(Devices)

\* The old task has been made and both devices know it: a state that Create, WriteRow,
\* Download and StartSideEffect lead to, so that three more operations are of interest.
MCInit ==
  /\ ops = <<[kind |-> "create", tasks |-> {a}]>>
  /\ waiting = [d \in Devices |-> <<>>]
  /\ log = [d \in Devices |-> <<1>>]
  /\ failed = [d \in Devices |-> {}]
  /\ live = [d \in Devices |-> {a}]
  /\ young = [d \in Devices |-> {}]
  /\ old = [d \in Devices |-> {}]
  /\ job = [d \in Devices |-> [actor \in Jobs |-> Idle]]
  /\ queue = [d \in Devices |-> <<>>]
  /\ batch = [d \in Devices |-> NoBatch]
  /\ spent = [made |-> 1, restarts |-> 0, failures |-> 0]
  /\ exposed = [d \in Devices |-> {}]

MCSpec == MCInit /\ [][Next]_vars
=============================================================================
