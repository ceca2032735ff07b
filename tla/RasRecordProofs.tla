-------------------------- MODULE RasRecordProofs --------------------------
(***************************************************************************)
(* The calls of ras_store_*_event, proved for every set of events and      *)
(* every number of columns: with any number of callers no row has an       *)
(* unbound column, and with a single caller the shared prepared statement  *)
(* implements the append-only event log.                                   *)
(***************************************************************************)
EXTENDS RasRecord, TLAPS

-----------------------------------------------------------------------------
(* Any number of callers.                                                  *)

\* Column k was bound once somebody went past it, and a stepped statement
\* had every column bound: a binding is replaced and never removed.
BoundBehind ==
    \A k \in Columns :
        halted \/ (\E t \in Threads : next[t] > k) => bound[k] \in Events

\* A caller that is not idle has an event.
CallersHaveEvents == \A t \in Threads : next[t] # 0 => ev[t] \in Events

TInv == TypeOK /\ BoundBehind /\ CallersHaveEvents

(* Sequences of rows: the empty table, and one row more.                   *)
LEMMA AppendIsSeq ==
    ASSUME NEW S
    PROVE  /\ << >> \in Seq(S)
           /\ \A s \in Seq(S), e \in S : Append(s, e) \in Seq(S)
OBVIOUS

(* TInv holds initially.                                                   *)
LEMMA InitTInv == Init => TInv
<1> SUFFICES ASSUME Init PROVE TInv
  OBVIOUS
<1>0. rows \in Seq([Columns -> Events])
  BY AppendIsSeq DEF Init
<1>1. TypeOK
  <2>1. /\ bound \in [Columns -> Events \cup {NoEvent}] /\ halted \in BOOLEAN
        /\ left \in SUBSET Events
        /\ ev \in [Threads -> Events \cup {NoEvent}]
    BY DEF Init
  <2>2. next \in [Threads -> 0..(NCols + 2)]
    BY RecordAssumption DEF Init
  <2> QED
    BY <1>0, <2>1, <2>2 DEF TypeOK
<1>2. BoundBehind
  BY DEF Init, BoundBehind, Columns
<1>3. CallersHaveEvents
  BY DEF Init, CallersHaveEvents
<1> QED
  BY <1>1, <1>2, <1>3 DEF TInv

(* TInv is kept by every call.                                             *)
LEMMA NextTInv == TInv /\ [Next]_vars => TInv'
<1> SUFFICES ASSUME TInv, [Next]_vars PROVE TInv'
  OBVIOUS
<1> USE RecordAssumption
<1>0. /\ bound \in [Columns -> Events \cup {NoEvent}] /\ halted \in BOOLEAN
      /\ rows \in Seq([Columns -> Events]) /\ left \in SUBSET Events
      /\ ev \in [Threads -> Events \cup {NoEvent}]
      /\ next \in [Threads -> 0..(NCols + 2)]
  BY DEF TInv, TypeOK
<1>1. ASSUME NEW t \in Threads, NEW e \in Events, Begin(t, e) PROVE TInv'
  <2>1. TypeOK'
    BY <1>0, <1>1 DEF Begin, TypeOK
  <2>2. BoundBehind'
    <3> SUFFICES ASSUME NEW k \in Columns, halted' \/ (\E u \in Threads : next'[u] > k)
                 PROVE  bound'[k] \in Events
      BY DEF BoundBehind
    <3>1. halted \/ (\E u \in Threads : next[u] > k)
      BY <1>0, <1>1 DEF Begin, Columns
    <3> QED
      BY <1>1, <3>1 DEF Begin, TInv, BoundBehind
  <2>3. CallersHaveEvents'
    BY <1>0, <1>1 DEF Begin, TInv, CallersHaveEvents
  <2> QED
    BY <2>1, <2>2, <2>3 DEF TInv
<1>2. ASSUME NEW t \in Threads, Bind(t) PROVE TInv'
  <2>0. next[t] \in Columns /\ next[t] # 0 /\ ev[t] \in Events
    BY <1>0, <1>2 DEF Bind, Columns, TInv, CallersHaveEvents
  <2>1. TypeOK'
    BY <1>0, <1>2, <2>0 DEF Bind, TypeOK, Columns
  <2>2. BoundBehind'
    <3> SUFFICES ASSUME NEW k \in Columns, halted' \/ (\E u \in Threads : next'[u] > k)
                 PROVE  bound'[k] \in Events
      BY DEF BoundBehind
    <3>1. CASE halted \/ (\E u \in Threads : next[u] > k)
      BY <1>0, <1>2, <2>0, <3>1 DEF Bind, TInv, BoundBehind
    <3>2. CASE ~(halted \/ (\E u \in Threads : next[u] > k))
      <4>1. next[t] = k /\ ~halted
        BY <1>0, <1>2, <2>0, <3>2 DEF Bind, Columns
      <4> QED
        BY <1>0, <1>2, <2>0, <4>1 DEF Bind
    <3> QED
      BY <3>1, <3>2
  <2>3. CallersHaveEvents'
    BY <1>0, <1>2, <2>0 DEF Bind, TInv, CallersHaveEvents
  <2> QED
    BY <2>1, <2>2, <2>3 DEF TInv
<1>3. ASSUME NEW t \in Threads, Step(t) PROVE TInv'
  <2>0. \A k \in Columns : bound[k] \in Events
    BY <1>0, <1>3 DEF Step, Columns, TInv, BoundBehind
  <2>1. bound \in [Columns -> Events]
    BY <1>0, <2>0
  <2>2. rows' \in Seq([Columns -> Events])
    <3>1. rows' = Append(rows, bound) \/ rows' = rows
      BY <1>3 DEF Step
    <3> DEFINE Row == [Columns -> Events]
    <3>2. rows \in Seq(Row) /\ bound \in Row
      BY <1>0, <2>1
    <3> HIDE DEF Row
    <3>3. Append(rows, bound) \in Seq(Row)
      BY <3>2, AppendIsSeq
    <3>4. rows' \in Seq(Row)
      BY <3>1, <3>2, <3>3
    <3> QED
      BY <3>4 DEF Row
  <2>3. TypeOK'
    BY <1>0, <1>3, <2>2 DEF Step, TypeOK
  <2>4. BoundBehind'
    BY <1>3, <2>0 DEF Step, BoundBehind
  <2>5. CallersHaveEvents'
    BY <1>0, <1>3 DEF Step, TInv, CallersHaveEvents
  <2> QED
    BY <2>3, <2>4, <2>5 DEF TInv
<1>4. ASSUME NEW t \in Threads, Reset(t) PROVE TInv'
  <2>0. ev[t] \in Events /\ \A k \in Columns : bound[k] \in Events
    BY <1>0, <1>4 DEF Reset, Columns, TInv, BoundBehind, CallersHaveEvents
  <2>1. TypeOK'
    <3>1. /\ bound' = bound /\ halted' = FALSE /\ rows' = rows /\ left' = left
          /\ ev' = [ev EXCEPT ![t] = NoEvent]
          /\ next' = [next EXCEPT ![t] = 0]
      BY <1>4 DEF Reset
    <3>2. next' \in [Threads -> 0..(NCols + 2)]
      BY <1>0, <3>1
    <3>3. ev' \in [Threads -> Events \cup {NoEvent}]
      BY <1>0, <2>0, <3>1
    <3> QED
      BY <1>0, <3>1, <3>2, <3>3 DEF TypeOK
  <2>2. BoundBehind'
    BY <1>4, <2>0 DEF Reset, BoundBehind
  <2>3. CallersHaveEvents'
    BY <1>0, <1>4 DEF Reset, TInv, CallersHaveEvents
  <2> QED
    BY <2>1, <2>2, <2>3 DEF TInv
<1>5. CASE UNCHANGED vars
  BY <1>5 DEF vars, TInv, TypeOK, BoundBehind, CallersHaveEvents
<1> QED
  BY <1>1, <1>2, <1>3, <1>4, <1>5 DEF Next

(* However many threads share the statement, no row is ever inserted with  *)
(* a column that nobody bound.                                             *)
THEOREM RowsHaveEveryColumn == Spec => []TypeOK
<1>1. TInv => TypeOK
  BY DEF TInv
<1> QED
  BY <1>1, InitTInv, NextTInv, PTL DEF Spec

-----------------------------------------------------------------------------
(* A single caller: the poll loop of read_ras_event_all_cpus.              *)

\* The statement is stepped exactly between sqlite3_step and sqlite3_reset,
\* the columns behind the caller are its event's, and its event was taken.
SingleCaller(t) ==
    /\ halted <=> next[t] = NCols + 2
    /\ next[t] \in 1..(NCols + 1) =>
          /\ ev[t] \notin left
          /\ \A k \in Columns : k < next[t] => bound[k] = ev[t]

(* The strengthening holds initially and is kept.                          *)
LEMMA SingleCallerKept ==
    ASSUME NEW t, Threads = {t}
    PROVE  /\ Init => SingleCaller(t)
           /\ TInv /\ SingleCaller(t) /\ [Next]_vars => SingleCaller(t)'
<1> USE RecordAssumption
<1>1. Init => SingleCaller(t)
  BY DEF Init, SingleCaller
<1>2. ASSUME TInv, SingleCaller(t), [Next]_vars PROVE SingleCaller(t)'
  <2>0. /\ next \in [Threads -> 0..(NCols + 2)] /\ ev \in [Threads -> Events \cup {NoEvent}]
        /\ bound \in [Columns -> Events \cup {NoEvent}] /\ halted \in BOOLEAN
        /\ t \in Threads
    BY <1>2 DEF TInv, TypeOK
  <2>1. ASSUME NEW e \in Events, Begin(t, e) PROVE SingleCaller(t)'
    BY <1>2, <2>0, <2>1 DEF Begin, SingleCaller, Columns
  <2>2. CASE Bind(t)
    <3>1. ~halted /\ next[t] \in 1..NCols
      BY <1>2, <2>0, <2>2 DEF Bind, SingleCaller, Columns
    <3>2. next'[t] = next[t] + 1 /\ ev' = ev /\ left' = left /\ halted' = halted
      BY <2>0, <2>2 DEF Bind
    <3>3. \A k \in Columns : k < next'[t] => bound'[k] = ev[t]
      BY <1>2, <2>0, <2>2, <3>1, <3>2 DEF Bind, SingleCaller, Columns
    <3> QED
      BY <1>2, <2>0, <3>1, <3>2, <3>3 DEF SingleCaller
  <2>3. CASE Step(t)
    BY <1>2, <2>0, <2>3 DEF Step, SingleCaller
  <2>4. CASE Reset(t)
    BY <1>2, <2>0, <2>4 DEF Reset, SingleCaller
  <2>5. CASE UNCHANGED vars
    BY <1>2, <2>5 DEF vars, SingleCaller
  <2> QED
    BY <1>2, <2>1, <2>2, <2>3, <2>4, <2>5 DEF Next
<1> QED
  BY <1>1, <1>2

(* Every call maps to a step of the log or to no step of it.               *)
LEMMA CallsMapToLog ==
    ASSUME NEW t, Threads = {t}, TInv, SingleCaller(t), [Next]_vars
    PROVE  [\E e \in Events : Log!Insert(e) \/ Log!Lose(e)]_<<Undecided, rows>>
<1> USE RecordAssumption
<1>0. /\ next \in [Threads -> 0..(NCols + 2)] /\ ev \in [Threads -> Events \cup {NoEvent}]
      /\ bound \in [Columns -> Events \cup {NoEvent}] /\ t \in Threads
      /\ left \in SUBSET Events
  BY DEF TInv, TypeOK
<1>1. Undecided = left \cup (IF next[t] \in 1..(NCols + 1) THEN {ev[t]} ELSE {})
  BY <1>0 DEF Undecided
<1>2. Undecided' = left' \cup (IF next'[t] \in 1..(NCols + 1) THEN {ev'[t]} ELSE {})
  BY <1>0 DEF Undecided
<1>3. ASSUME NEW e \in Events, Begin(t, e) PROVE UNCHANGED <<Undecided, rows>>
  <2>1. next[t] = 0 /\ next'[t] = 1 /\ ev'[t] = e /\ left' = left \ {e} /\ e \in left
    BY <1>0, <1>3 DEF Begin
  <2>2. Undecided = left /\ Undecided' = (left \ {e}) \cup {e}
    BY <1>1, <1>2, <2>1
  <2> QED
    BY <1>3, <2>1, <2>2 DEF Begin
<1>4. CASE Bind(t)
  <2>1. next[t] \in 1..(NCols + 1) /\ next'[t] \in 1..(NCols + 1) /\ ev' = ev /\ left' = left
    BY <1>0, <1>4 DEF Bind, Columns
  <2>2. UNCHANGED Undecided
    BY <1>1, <1>2, <2>1
  <2> QED
    BY <1>4, <2>2 DEF Bind
<1>5. CASE Step(t)
  <2>1. next[t] \in 1..(NCols + 1) /\ next'[t] \notin 1..(NCols + 1) /\ left' = left
    BY <1>0, <1>5 DEF Step
  <2>2. Undecided = left \cup {ev[t]} /\ Undecided' = left
    BY <1>1, <1>2, <2>1
  <2>3. ev[t] \in Events /\ ev[t] \notin left
    BY <1>0, <2>1 DEF TInv, CallersHaveEvents, SingleCaller
  <2>4. ev[t] \in Undecided /\ Undecided' = Undecided \ {ev[t]}
    BY <2>2, <2>3
  <2>5. bound = Log!Row(ev[t])
    <3>1. \A k \in Columns : bound[k] = ev[t]
      BY <1>5, <2>1 DEF Step, SingleCaller, Columns
    <3> QED
      BY <1>0, <3>1 DEF Log!Row
  <2>6. rows' = Append(rows, Log!Row(ev[t])) \/ rows' = rows
    BY <1>5, <2>5 DEF Step
  <2>7. Log!Insert(ev[t]) \/ Log!Lose(ev[t])
    BY <2>4, <2>6 DEF Log!Insert, Log!Lose
  <2> QED
    BY <2>3, <2>7
<1>6. CASE Reset(t)
  <2>1. next[t] \notin 1..(NCols + 1) /\ next'[t] \notin 1..(NCols + 1) /\ left' = left
    BY <1>0, <1>6 DEF Reset
  <2>2. UNCHANGED Undecided
    BY <1>1, <1>2, <2>1
  <2> QED
    BY <1>6, <2>2 DEF Reset
<1>7. CASE UNCHANGED vars
  BY <1>7 DEF vars, Undecided
<1> QED
  BY <1>3, <1>4, <1>5, <1>6, <1>7 DEF Next

(* With the one caller of the poll loop, the bind/step/reset calls on the  *)
(* shared statement implement the append-only event log.                   *)
THEOREM SingleCallerImplementsLog ==
    ASSUME NEW t, Threads = {t}
    PROVE  Spec => ImplementsEventLog
<1>1. Init => Log!LogInit
  BY RecordAssumption DEF Init, Log!LogInit, Undecided
<1>2. Init => SingleCaller(t)
  BY SingleCallerKept
<1>3. TInv /\ SingleCaller(t) /\ [Next]_vars => SingleCaller(t)'
  BY SingleCallerKept
<1>4. TInv /\ SingleCaller(t) /\ [Next]_vars =>
         [\E e \in Events : Log!Insert(e) \/ Log!Lose(e)]_<<Undecided, rows>>
  BY CallsMapToLog
<1> QED
  BY <1>1, <1>2, <1>3, <1>4, InitTInv, NextTInv, PTL
     DEF Spec, ImplementsEventLog, Log!LogSpec
=============================================================================
