---------------------------- MODULE OperationLog ----------------------------
(***************************************************************************)
(* What the SuperSync server promises its devices: one log per user to     *)
(* which whole uploads are appended one after the other, as if no two of   *)
(* them ever ran at the same time.  An upload is judged against the log    *)
(* that it extends, or it replaces the log; the log is forgotten from its  *)
(* beginning; the counter never goes back.                                 *)
(***************************************************************************)
EXTENDS SyncVectorClock

VARIABLES
  log,     \* rows with at least an operation op, a number seq and a stored clock clk
  last     \* the number of the newest row ever appended

IsRow(row) == row.seq \in Nat /\ row.op.clock \in Clock /\ row.clk \in Clock

\* The newest row on an entity, if there is one.
Newest(table, entity) ==
  LET touching == {r \in table : entity \in r.op.ents}
  IN  {r \in touching : \A other \in touching : r.seq >= other.seq}

\* The rows that row comes behind.
Before(table, row) == {p \in table : p.seq < row.seq}

\* The author of op had seen the row prior, or it repeats its own clock.
Succeeds(op, prior) ==
  LET cmp == CompareClocks(op.clock, prior.clk)
  IN  \/ cmp = "GREATER_THAN"
      \/ cmp = "EQUAL" /\ op.client = prior.op.client

Judged(row, table) ==
  ~row.op.full =>
    \A entity \in row.op.ents :
      \A prior \in Newest(Before(table, row), entity) : Succeeds(row.op, prior)

\* The operations of one upload that are not refused, behind the rows that it keeps.
Upload(kept) ==
  LET new == log' \ kept
  IN  /\ kept \subseteq log'
      /\ last' \in Nat /\ last' >= last
      /\ {row.seq : row \in new} = (last + 1)..last'
      /\ \A row \in new : IsRow(row)
      /\ \A r1, r2 \in log' : r1.seq = r2.seq \/ r1.op.id = r2.op.id => r1 = r2
      /\ \A row \in new : Judged(row, log')

Append == Upload(log)

Replace == Upload({})

\* Quota cleanup and retention.
Forget ==
  /\ log' \subseteq log
  /\ \A gone \in log \ log', row \in log' : gone.seq < row.seq
  /\ UNCHANGED last

Init == log = {} /\ last = 0

Next == Append \/ Replace \/ Forget

Spec == Init /\ [][Next]_<<log, last>>

-----------------------------------------------------------------------------
\* Whoever wrote an entity had seen the row that wrote it before: no update is lost.
NoLostUpdate ==
  \A row \in log : ~row.op.full =>
    \A entity \in row.op.ents :
      \A prior \in Newest(Before(log, row), entity) : Dominates(row.op.clock, prior.clk)
=============================================================================
