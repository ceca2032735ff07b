------------------------------ MODULE EventLog ------------------------------
(***************************************************************************)
(* What --record promises: an append-only table in which every event that  *)
(* was reported has at most one row, and every row is one whole event.  A  *)
(* write the database refuses loses the event.                             *)
(***************************************************************************)
EXTENDS Sequences

CONSTANTS Events, Columns

VARIABLES
    pending,    \* events whose fate is not decided
    table       \* the rows, oldest first

Row(e) == [c \in Columns |-> e]

LogInit == pending = Events /\ table = << >>

Insert(e) == e \in pending /\ pending' = pending \ {e} /\ table' = Append(table, Row(e))
Lose(e) == e \in pending /\ pending' = pending \ {e} /\ UNCHANGED table

LogSpec == LogInit /\ [][\E e \in Events : Insert(e) \/ Lose(e)]_<<pending, table>>
=============================================================================
