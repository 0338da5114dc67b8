-------------------------- MODULE MCSuperSyncServer --------------------------
(***************************************************************************)
(* Small instances of SuperSyncServer: two devices that edit one task, a   *)
(* backup import whose clock starts afresh, and the retries of all that.   *)
(***************************************************************************)
EXTENDS SuperSyncServer

Edit(id, client, clock, ents) ==
  [id |-> id, client |-> client, clock |-> clock, ents |-> ents, full |-> FALSE, valid |-> TRUE]

Import(id, client, clock) ==
  [id |-> id, client |-> client, clock |-> clock, ents |-> {}, full |-> TRUE, valid |-> TRUE]

Upload(batch) ==
  [kind |-> "ops", batch |-> batch, clean |-> FALSE, initial |-> FALSE, enc |-> FALSE]

Snapshot(op, clean, initial, enc) ==
  [kind |-> "snapshot", batch |-> <<op>>, clean |-> clean, initial |-> initial, enc |-> enc]

MCClients == 1..2
A1 == Edit("a1", 1, <<1, 0>>, {"task"})
A2 == Edit("a2", 1, <<2, 0>>, {"task", "tag"})
B1 == Edit("b1", 2, <<0, 1>>, {"tag"})
B2 == Edit("b2", 2, <<1, 2>>, {"task"})
Bad == [Edit("bad", 2, <<0, 1>>, {"task"}) EXCEPT !.valid = FALSE]
Backup == Import("backup", 2, <<0, 1>>)

Initial == Import("initial", 1, <<2, 0>>)
Later == Import("later", 2, <<0, 2>>)
MCOps == {A1, A2, B1, B2, Bad, Backup, Initial, Later}

MCHandlers == {"h1", "h2"}
MCTwoInstances == {"p1", "p2"}
MCTwoHomes == [h \in MCHandlers |-> IF h = "h1" THEN "p1" ELSE "p2"]
MCOneInstance == {"p1"}
MCOneHome == [h \in MCHandlers |-> "p1"]

\* Two processes: a batch whose second operation builds on its first, a successor of
\* its first operation that is concurrent with its second, an import.
MCUploads == {Upload(<<A1, A2>>), Upload(<<Bad, B2>>), Snapshot(Backup, FALSE, FALSE, TRUE)}

\* Two processes, an account wipe: two imports that the server caches.
MCWipe == {Snapshot(Backup, FALSE, FALSE, FALSE), Snapshot(Later, FALSE, FALSE, FALSE)}

\* One process: an edit, a first import, a later one that is encrypted, and a backup
\* import that replaces the history.
MCRestorePoints == {Upload(<<A1>>), Snapshot(Initial, FALSE, TRUE, FALSE),
                    Snapshot(Later, FALSE, FALSE, TRUE), Snapshot(Backup, TRUE, FALSE, TRUE)}

\* One process: an edit, and an import that replaces the history.
MCCleanSlate == {Upload(<<A1>>), Snapshot(Backup, TRUE, FALSE, TRUE)}
=============================================================================
