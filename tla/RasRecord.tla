------------------------------ MODULE RasRecord ------------------------------
(***************************************************************************)
(* Storing an event (ras_store_*_event of ras-record.c).  There is one     *)
(* prepared INSERT per table and it belongs to the daemon, not to a        *)
(* thread: a handler binds the columns one by one, steps the statement and *)
(* resets it.  SQLITE_OPEN_FULLMUTEX makes each of these calls atomic and  *)
(* nothing makes the sequence atomic.  In poll mode there is one caller;   *)
(* in the per-CPU fallback every thread is one.                            *)
(*                                                                         *)
(* The statement follows SQLite: binding a statement that was stepped and  *)
(* not reset is refused (and the callers ignore the refusal), stepping it  *)
(* resets and runs it again, and a reset keeps the bindings.               *)
(***************************************************************************)
EXTENDS Naturals, Sequences, FiniteSets

CONSTANTS
    Threads,    \* concurrent callers
    Events,     \* the events of one table
    NCols,      \* columns after the id
    NoEvent

Columns == 1..NCols

ASSUME RecordAssumption == NCols \in Nat \ {0} /\ NoEvent \notin Events

VARIABLES
    bound,      \* bound[k]: the event whose value column k is bound to
    halted,     \* the statement was stepped and not reset since
    rows,       \* the table in the file
    left,       \* events not yet handed to a handler
    ev,         \* ev[t]: the event thread t is storing
    next        \* next[t]: its next call: a column, or one past the last for
                \* sqlite3_step, two past for sqlite3_reset; 0 when idle

vars == <<bound, halted, rows, left, ev, next>>

Init ==
    /\ bound = [k \in Columns |-> NoEvent]
    /\ halted = FALSE
    /\ rows = << >>
    /\ left = Events
    /\ ev = [t \in Threads |-> NoEvent]
    /\ next = [t \in Threads |-> 0]

(* An event handler calls ras_store_*_event.                               *)
Begin(t, e) ==
    /\ next[t] = 0 /\ e \in left
    /\ left' = left \ {e}
    /\ ev' = [ev EXCEPT ![t] = e]
    /\ next' = [next EXCEPT ![t] = 1]
    /\ UNCHANGED <<bound, halted, rows>>

\* Mutant: the last column is left as the previous event bound it.
Bind_SkipLast(t) ==
    /\ next[t] \in Columns
    /\ bound' = IF next[t] = NCols /\ NCols > 1 THEN bound ELSE [bound EXCEPT ![next[t]] = ev[t]]
    /\ next' = [next EXCEPT ![t] = @ + 1]
    /\ UNCHANGED <<halted, rows, left, ev>>

(* sqlite3_bind_*(stmt, next[t], ...); the result is ignored.              *)
Bind(t) ==
    /\ next[t] \in Columns
    /\ bound' = IF halted THEN bound ELSE [bound EXCEPT ![next[t]] = ev[t]]
    /\ next' = [next EXCEPT ![t] = @ + 1]
    /\ UNCHANGED <<halted, rows, left, ev>>

(* sqlite3_step(stmt): a row of what is bound, or an error (busy, full,    *)
(* I/O) that is logged and not acted on.                                   *)
Step(t) ==
    /\ next[t] = NCols + 1
    /\ \/ rows' = Append(rows, bound)
       \/ UNCHANGED rows
    /\ halted' = TRUE
    /\ next' = [next EXCEPT ![t] = @ + 1]
    /\ UNCHANGED <<bound, left, ev>>

\* Mutant: the statement is left stepped.
Reset_Missing(t) ==
    /\ next[t] = NCols + 2
    /\ next' = [next EXCEPT ![t] = 0]
    /\ ev' = [ev EXCEPT ![t] = NoEvent]
    /\ UNCHANGED <<bound, halted, rows, left>>

(* sqlite3_reset(stmt), the log message, and return.                       *)
Reset(t) ==
    /\ next[t] = NCols + 2
    /\ halted' = FALSE
    /\ next' = [next EXCEPT ![t] = 0]
    /\ ev' = [ev EXCEPT ![t] = NoEvent]
    /\ UNCHANGED <<bound, rows, left>>

Next == \E t \in Threads : (\E e \in Events : Begin(t, e)) \/ Bind(t) \/ Step(t) \/ Reset(t)

Spec == Init /\ [][Next]_vars

-----------------------------------------------------------------------------
(* The values the variables take: an INSERT is stepped only with every     *)
(* column bound, so no row has a NULL that no event put there.             *)
TypeOK ==
    /\ bound \in [Columns -> Events \cup {NoEvent}]
    /\ halted \in BOOLEAN
    /\ rows \in Seq([Columns -> Events])
    /\ left \in SUBSET Events
    /\ ev \in [Threads -> Events \cup {NoEvent}]
    /\ next \in [Threads -> 0..(NCols + 2)]

\* The events whose row has not been written, one way or the other.
Undecided == left \cup {ev[t] : t \in {u \in Threads : next[u] \in 1..(NCols + 1)}}

Log == INSTANCE EventLog WITH pending <- Undecided, table <- rows

(* The calls of a single caller implement the append-only event log: rows  *)
(* are whole events, none is duplicated and none is overwritten.           *)
ImplementsEventLog == Log!LogSpec

(* Every row of the database is one event: the `persistent record of the   *)
(* RAS events' of man/rasdaemon.1.in.                                      *)
RowsAreEvents == \A n \in 1..Len(rows) : \E e \in Events : rows[n] = Log!Row(e)
=============================================================================
