--------------------------- MODULE SyncVectorClock ---------------------------
(***************************************************************************)
(* The vector clock algorithms of sync-core, shared by every client and by *)
(* the SuperSync server.  A clock of the code is a partial map from client *)
(* ids to counters in which an absent id counts as 0; here it is a total   *)
(* function, so the ids with counter 0 are the absent ones.                *)
(***************************************************************************)
EXTENDS Integers, FiniteSets

CONSTANTS
  Clients,        \* client ids; numbers, because ties are broken by id order
  MaxClockSize    \* MAX_VECTOR_CLOCK_SIZE, 20 in the code

ASSUME ClientsAreOrdered == Clients \subseteq Nat
ASSUME MaxClockSizePositive == MaxClockSize \in Nat \ {0}

Clock == [Clients -> Nat]

ZeroClock == [c \in Clients |-> 0]

Entries(clock) == {c \in Clients : clock[c] > 0}

CompareClocks(a, b) ==
  LET aGreater == \E c \in Clients : a[c] > b[c]
      bGreater == \E c \in Clients : b[c] > a[c]
  IN  CASE aGreater /\ bGreater   -> "CONCURRENT"
        [] aGreater /\ ~bGreater  -> "GREATER_THAN"
        [] ~aGreater /\ bGreater  -> "LESS_THAN"
        [] ~aGreater /\ ~bGreater -> "EQUAL"

MergeClocks(a, b) == [c \in Clients |-> IF a[c] >= b[c] THEN a[c] ELSE b[c]]

\* The order in which ids outside the preserved set survive pruning: highest
\* counter first, lowest id first among equals.
KeptBefore(clock, c, d) ==
  \/ clock[c] > clock[d]
  \/ clock[c] = clock[d] /\ c < d

KeptEntries(clock, preserve) ==
  LET preserved == preserve \cap Entries(clock)
      others    == Entries(clock) \ preserved
      room      == MaxClockSize - Cardinality(preserved)
  IN  preserved \union
        {c \in others : Cardinality({d \in others : KeptBefore(clock, d, c)}) < room}

\* The callers preserve at most two ids, so the preserved set always fits.
LimitClock(clock, preserve) ==
  IF Cardinality(Entries(clock)) <= MaxClockSize
  THEN clock
  ELSE [c \in Clients |-> IF c \in KeptEntries(clock, preserve) THEN clock[c] ELSE 0]

Dominates(a, b) == \A c \in Clients : a[c] >= b[c]

IncrementClock(clock, c) == [clock EXCEPT ![c] = @ + 1]

\* The SQL aggregate MAX(value) grouped by client id, over a set of clocks.
MaxCounter(clocks, c) ==
  IF clocks = {} THEN 0
  ELSE LET top == CHOOSE k \in clocks : \A j \in clocks : k[c] >= j[c]
       IN  top[c]

MaxOverClocks(clocks) == [c \in Clients |-> MaxCounter(clocks, c)]
=============================================================================
