-------------------------- MODULE NonStandardProofs --------------------------
(***************************************************************************)
(* Opening the database, for any number of starts, failing SQL calls and   *)
(* kills, and the generic row of a non-standard section: these proofs look *)
(* at the number of tables and at which decoders have one, never at their  *)
(* columns.  Then what the rows hold, column by column, after any sequence *)
(* of events.  Last, the parser of Vera sections, for sections of any      *)
(* length with any contexts.                                               *)
(***************************************************************************)
EXTENDS NonStandard, WellFoundedInduction, TLAPS

(* opendb is at work on a table.                                           *)
Opening == pc \in {"create", "prepare", "select", "alter", "reprepare"}

SchemaTypes ==
    /\ absent = [t \in TableNames |-> absent[t]]
    /\ stmt \in [Stmts -> {"null", "insert", "select"}]
    /\ at \in Stmts

(* No INSERT is prepared over a table that lacks one of its columns, and   *)
(* no column is ever dropped.                                              *)
InsertsWork == \A i \in Stmts : stmt[i] = "insert" => HasTable(i) /\ absent[Desc(i).name] = {}

(* Behind opendb every table has its INSERT, but for core tables that      *)
(* could not be created; before it nothing is prepared.                    *)
Progress ==
    Opening => /\ HasTable(at)
               /\ \A i \in Stmts : i > at => stmt[i] = "null"
               /\ \A i \in Stmts : i < at => stmt[i] # "select"
               /\ \A i \in Stmts : i < at /\ HasTable(i) =>
                      stmt[i] = "insert" \/ (IsCore(i) /\ faulty)

NotYet == pc \in {"create", "prepare"} => stmt[at] = "null"

(* The INSERT is only tried again once every column is there.              *)
Altered == pc = "reprepare" => Missing = {}

FailedForCause == pc = "failed" => faulty

Opened ==
    pc = "up" =>
        /\ \A i \in 1..NCore : stmt[i] # "select"
        /\ \A i, j \in NCore + 1..Len(ras_ns_ev_dec_list) + NCore :
               HasTable(i) /\ i < j /\ stmt[j] # "null" => stmt[i] = "insert"
        /\ ~faulty => \A i \in Stmts : HasTable(i) => stmt[i] = "insert"

SchemaInv ==
    SchemaTypes /\ InsertsWork /\ Progress /\ NotYet /\ Altered /\ FailedForCause /\ Opened

-----------------------------------------------------------------------------
(* The tables.                                                             *)

(* There are 19 core tables, the first with a name, and some decoders.     *)
LEMMA Tables ==
    /\ NCore \in Nat \ {0} /\ Len(ras_ns_ev_dec_list) \in Nat \ {0}
    /\ 1 \in Stmts /\ HasTable(1)
    /\ Stmts \subseteq Nat
<1>1. NCore = 19
  BY DEF NCore, CoreTables
<1>2. Len(ras_ns_ev_dec_list) \in Nat \ {0}
  BY DEF ras_ns_ev_dec_list
<1>3. CoreTables[1].name # ""
  BY DEF CoreTables
<1>4. HasTable(1)
  <2>1. IsCore(1)
    BY <1>1 DEF IsCore
  <2> QED
    BY <1>3, <2>1, Zenon DEF HasTable, Desc
<1>5. 1 \in Stmts /\ Stmts \subseteq Nat
  BY <1>1, <1>2 DEF Stmts
<1> QED
  BY <1>1, <1>2, <1>4, <1>5

(* Every core table is a name with its columns and its binds; the generic  *)
(* table is among them, and its row has something bound.                   *)
LEMMA GenericTable == NonStandardRecord \in 1..NCore /\ CoreBinds(NonStandardRecord) # << >>
<1>1. NCore = 19
  BY DEF NCore, CoreTables
<1>2. CoreTables[5].name = "non_standard_event"
  BY DEF CoreTables
<1>3. \E i \in 1..NCore : Desc(i).name = "non_standard_event"
  BY <1>1, <1>2 DEF Desc, IsCore
<1>4. /\ NonStandardRecord \in 1..NCore
      /\ Desc(NonStandardRecord).name = "non_standard_event"
  BY <1>3 DEF NonStandardRecord
<1>5. \A i \in 1..NCore : CoreTables[i].name = "non_standard_event" =>
          CoreTables[i].binds = ras_store_non_standard_record
  BY <1>1 DEF CoreTables
<1>6. Desc(NonStandardRecord).binds = ras_store_non_standard_record
  BY <1>1, <1>4, <1>5 DEF Desc, IsCore
<1>7. Len(ras_store_non_standard_record) = 6
  BY DEF ras_store_non_standard_record
<1>8. DOMAIN CoreBinds(NonStandardRecord) = 1..6
  BY <1>6, <1>7 DEF CoreBinds
<1> QED
  BY <1>4, <1>8

(* A statement with a table has a place in the file.                       *)
LEMMA InTheFile == ASSUME NEW i \in Stmts, HasTable(i) PROVE Desc(i).name \in TableNames
  BY DEF TableNames

(* A set of numbers has a smallest one.                                    *)
LEMMA Smallest == ASSUME NEW S \in SUBSET Nat, S # {} PROVE \E x \in S : \A y \in S : x <= y
<1>1. PICK x \in S : \A y \in S : ~(<<y, x>> \in OpToRel(<, Nat))
  BY NatLessThanWellFounded, WFMin
<1>2. \A y \in S : ~(y < x)
  BY <1>1 DEF OpToRel
<1> QED
  BY <1>2

(* NextTable passes over statements without a table only.                  *)
LEMMA NextTableIsNext ==
    ASSUME at \in Stmts, NextTable
    PROVE  \/ /\ pc' = "up" /\ at' = 1
              /\ \A j \in Stmts : j > at => ~HasTable(j)
           \/ /\ pc' = "create" /\ at' \in Stmts /\ at' > at /\ HasTable(at')
              /\ \A j \in Stmts : at < j /\ j < at' => ~HasTable(j)
<1>1. CASE Later = {}
  BY <1>1 DEF NextTable, Later
<1>2. CASE Later # {}
  <2>1. Later \subseteq Nat
    BY Tables DEF Later
  <2>2. \E j \in Later : \A k \in Later : j <= k
    BY <1>2, <2>1, Smallest
  <2> DEFINE first == CHOOSE j \in Later : \A k \in Later : j <= k
  <2>3. first \in Later /\ \A k \in Later : first <= k
    BY <2>2
  <2>4. pc' = "create" /\ at' = first
    BY <1>2 DEF NextTable
  <2> HIDE DEF first
  <2>5. at' \in Stmts /\ at' > at /\ HasTable(at')
    BY <2>3, <2>4 DEF Later
  <2>6. ASSUME NEW j \in Stmts, at < j, j < at' PROVE ~HasTable(j)
    <3>1. ~(at' <= j)
      BY <2>5, <2>6, Tables
    <3> QED
      BY <2>3, <2>4, <2>6, <3>1 DEF Later
  <2> QED
    BY <2>4, <2>5, <2>6
<1> QED
  BY <1>1, <1>2

-----------------------------------------------------------------------------
(* The two ways on from a table.                                           *)
After == Progress /\ NotYet /\ Altered /\ FailedForCause /\ Opened

(* A table is done with: it has its INSERT, or it is a core table that     *)
(* could not be created.                                                   *)
LEMMA MovesOn ==
    ASSUME SchemaInv, Opening, NextTable, stmt' \in [Stmts -> {"null", "insert", "select"}],
           \A i \in Stmts : i # at => stmt'[i] = stmt[i],
           stmt'[at] = "insert" \/ (IsCore(at) /\ stmt'[at] = "null" /\ faulty'),
           faulty => faulty'
    PROVE  After'
<1>1. /\ at \in Stmts
      /\ \A i \in Stmts : i > at => stmt'[i] = "null"
      /\ \A i \in Stmts : i <= at => stmt'[i] # "select"
      /\ \A i \in Stmts : i <= at /\ HasTable(i) =>
             stmt'[i] = "insert" \/ (IsCore(i) /\ faulty')
  BY Tables DEF SchemaInv, SchemaTypes, Progress
<1>2. CASE pc' = "up" /\ \A j \in Stmts : j > at => ~HasTable(j)
  <2>1. \A i \in Stmts : stmt'[i] # "select"
    BY <1>1, Tables
  <2>2. 1..NCore \subseteq Stmts /\ NCore + 1..Len(ras_ns_ev_dec_list) + NCore \subseteq Stmts
    BY Tables DEF Stmts
  <2>3. \A i \in Stmts : HasTable(i) => stmt'[i] = "insert" \/ (IsCore(i) /\ faulty')
    BY <1>1, <1>2, Tables
  <2>4. \A i \in NCore + 1..Len(ras_ns_ev_dec_list) + NCore : ~IsCore(i)
    BY Tables DEF IsCore
  <2>5. Opened'
    BY <2>1, <2>2, <2>3, <2>4 DEF Opened
  <2> QED
    BY <1>2, <2>5 DEF After, Progress, NotYet, Altered, FailedForCause, Opening
<1>3. CASE /\ pc' = "create" /\ at' \in Stmts /\ at' > at /\ HasTable(at')
           /\ \A j \in Stmts : at < j /\ j < at' => ~HasTable(j)
  <2>1. \A i \in Stmts : i >= at' => stmt'[i] = "null"
    BY <1>1, <1>3, Tables
  <2>2. \A i \in Stmts : i < at' => stmt'[i] # "select"
    BY <1>1, Tables
  <2>3. \A i \in Stmts : i < at' /\ HasTable(i) => stmt'[i] = "insert" \/ (IsCore(i) /\ faulty')
    BY <1>1, <1>3, Tables
  <2>4. Progress'
    BY <1>3, <2>1, <2>2, <2>3, Tables DEF Progress
  <2>5. NotYet'
    BY <1>3, <2>1, Tables DEF NotYet
  <2> QED
    BY <1>3, <2>4, <2>5 DEF After, Altered, FailedForCause, Opened
<1> QED
  BY <1>1, <1>2, <1>3, NextTableIsNext

(* opendb, or the additions of the vendors, end at a table, after a fault. *)
LEMMA GivesUp ==
    ASSUME SchemaInv, Opening, Abandon, faulty' = TRUE,
           stmt' \in [Stmts -> {"null", "insert", "select"}],
           \A i \in Stmts : i # at => stmt'[i] = stmt[i]
    PROVE  After'
<1>1. /\ at \in Stmts
      /\ \A i \in Stmts : i > at => stmt'[i] = "null"
      /\ \A i \in Stmts : i < at => stmt'[i] # "select"
      /\ \A i \in Stmts : i < at /\ HasTable(i) => stmt'[i] = "insert" \/ IsCore(i)
  BY Tables DEF SchemaInv, SchemaTypes, Progress
<1>2. pc' = (IF IsCore(at) THEN "failed" ELSE "up")
  BY DEF Abandon
<1>3. 1..NCore \subseteq Stmts /\ NCore + 1..Len(ras_ns_ev_dec_list) + NCore \subseteq Stmts
  BY Tables DEF Stmts
<1>4. ASSUME ~IsCore(at), NEW i \in 1..NCore PROVE stmt'[i] # "select"
  <2>1. i < at
    BY <1>4, <1>1, Tables DEF IsCore
  <2> QED
    BY <1>1, <1>3, <2>1
<1>5. ASSUME NEW i \in NCore + 1..Len(ras_ns_ev_dec_list) + NCore,
             NEW j \in NCore + 1..Len(ras_ns_ev_dec_list) + NCore,
             HasTable(i), i < j, stmt'[j] # "null"
      PROVE  stmt'[i] = "insert"
  <2>1. i < at /\ ~IsCore(i)
    BY <1>1, <1>3, <1>5, Tables DEF IsCore
  <2> QED
    BY <1>1, <1>3, <1>5, <2>1
<1>6. Opened'
  BY <1>2, <1>4, <1>5 DEF Opened
<1> QED
  BY <1>2, <1>6 DEF After, Progress, NotYet, Altered, FailedForCause, Opening

-----------------------------------------------------------------------------
(* A file of any version, no daemon.                                       *)
LEMMA SchemaStarts == SchemaInit => SchemaInv
<1> SUFFICES ASSUME SchemaInit PROVE SchemaInv
  OBVIOUS
<1>1. absent = [t \in TableNames |-> absent[t]]
  BY DEF SchemaInit, Files, AllColumns, Complete
<1>2. SchemaTypes
  BY <1>1, Tables DEF SchemaInit, SchemaTypes
<1> QED
  BY <1>2 DEF SchemaInit, SchemaInv, InsertsWork, Progress, NotYet, Altered, FailedForCause,
     Opened, Opening

(* What a step of the schema leaves alone.                                 *)
LEMMA SchemaKept == SchemaInv /\ UNCHANGED schemavars => SchemaInv'
<1> SUFFICES ASSUME SchemaInv, UNCHANGED schemavars PROVE SchemaInv'
  OBVIOUS
<1>1. /\ absent' = absent /\ stmt' = stmt /\ pc' = pc /\ at' = at
      /\ faulty' = faulty
  BY DEF schemavars
<1>2. SchemaTypes' /\ InsertsWork'
  BY <1>1 DEF SchemaInv, SchemaTypes, InsertsWork
<1>3. Progress'
  BY <1>1 DEF SchemaInv, Progress, Opening
<1>4. NotYet' /\ Altered' /\ FailedForCause'
  BY <1>1 DEF SchemaInv, NotYet, Altered, FailedForCause, Missing, Table
<1>5. Opened'
  BY <1>1 DEF SchemaInv, Opened
<1> QED
  BY <1>2, <1>3, <1>4, <1>5 DEF SchemaInv

(* Every SQL call, failed or not, the closing and a kill keep it.          *)
LEMMA SchemaStepKeeps == SchemaInv /\ SchemaStep => SchemaInv'
<1> SUFFICES ASSUME SchemaInv, SchemaStep PROVE SchemaInv'
  OBVIOUS
<1> USE DEF SchemaInv
<1> DEFINE None == [i \in Stmts |-> "null"]
<1>n. None \in [Stmts -> {"null", "insert", "select"}] /\ \A i \in Stmts : None[i] = "null"
  OBVIOUS
<1>a. ASSUME After', SchemaTypes', InsertsWork' PROVE SchemaInv'
  BY <1>a DEF After
<1>1. CASE OpenDb
  <2>1. /\ stmt' = None /\ at' = 1 /\ absent' = absent
        /\ pc' = "create" \/ (pc' = "failed" /\ faulty' = TRUE)
    BY <1>1 DEF OpenDb, Fault
  <2>2. SchemaTypes' /\ InsertsWork'
    BY <2>1, <1>n, Tables DEF SchemaTypes, InsertsWork
  <2>3. Progress'
    BY <2>1, <1>n, Tables DEF Progress, Opening, Stmts
  <2> QED
    BY <2>1, <2>2, <2>3, <1>n, Tables DEF NotYet, Altered, FailedForCause, Opened
<1>2. CASE ras_mc_create_table
  <2>0. /\ pc = "create" /\ stmt' = stmt /\ Opening /\ at \in Stmts /\ HasTable(at)
        /\ stmt[at] = "null" /\ Table \in TableNames
    BY <1>2, InTheFile DEF ras_mc_create_table, Opening, Progress, SchemaTypes, NotYet, Table
  <2>1. CASE /\ absent' = IF "id" \in Missing THEN [absent EXCEPT ![Table] = {}] ELSE absent
             /\ pc' = "prepare" /\ at' = at /\ NoFault
    <3>1. SchemaTypes'
      BY <2>0, <2>1 DEF SchemaTypes
    <3>2. \A t \in TableNames : absent[t] = {} => absent'[t] = {}
      BY <2>0, <2>1 DEF SchemaTypes
    <3>3. InsertsWork'
      BY <2>0, <3>2, InTheFile DEF InsertsWork
    <3> QED
      BY <2>0, <2>1, <3>1, <3>3
      DEF NoFault, Progress, NotYet, Altered, FailedForCause, Opened, Opening
  <2>2. CASE Fault /\ absent' = absent /\ (IF IsCore(at) THEN NextTable ELSE Abandon)
    <3>1. faulty' = TRUE
      BY <2>2 DEF Fault
    <3>2. After'
      <4>1. CASE IsCore(at)
        BY <2>0, <2>2, <3>1, <4>1, MovesOn DEF SchemaTypes
      <4>2. CASE ~IsCore(at)
        BY <2>0, <2>2, <3>1, <4>2, GivesUp DEF SchemaTypes
      <4> QED
        BY <4>1, <4>2
    <3>3. at' \in Stmts
      BY <2>0, <2>2, NextTableIsNext, Tables DEF Abandon
    <3>4. SchemaTypes' /\ InsertsWork'
      BY <2>0, <2>2, <3>3 DEF SchemaTypes, InsertsWork
    <3> QED
      BY <3>2, <3>4, <1>a
  <2> QED
    BY <1>2, <2>1, <2>2 DEF ras_mc_create_table
<1>3. ASSUME Opening, absent' = absent, Missing = {}, NoFault, NextTable,
             stmt' = [stmt EXCEPT ![at] = "insert"]
      PROVE  SchemaInv'
  <2>1. at \in Stmts /\ HasTable(at) /\ absent[Desc(at).name] = {} /\ (faulty => faulty')
    BY <1>3 DEF SchemaTypes, Progress, Missing, Table, NoFault
  <2>2. stmt' \in [Stmts -> {"null", "insert", "select"}] /\ stmt'[at] = "insert"
    BY <1>3, <2>1 DEF SchemaTypes
  <2>3. \A i \in Stmts : i # at => stmt'[i] = stmt[i]
    BY <1>3, <2>1 DEF SchemaTypes
  <2>4. After'
    BY <1>3, <2>1, <2>2, <2>3, MovesOn
  <2>5. at' \in Stmts
    BY <1>3, <2>1, NextTableIsNext, Tables
  <2>6. SchemaTypes'
    BY <1>3, <2>2, <2>5 DEF SchemaTypes
  <2>7. InsertsWork'
    BY <1>3, <2>1, <2>3 DEF InsertsWork
  <2> QED
    BY <2>4, <2>6, <2>7, <1>a
<1>4. ASSUME Opening, absent' = absent, Fault, Abandon,
             stmt' = stmt \/ stmt' = [stmt EXCEPT ![at] = "null"]
      PROVE  SchemaInv'
  <2>1. at \in Stmts /\ faulty' = TRUE /\ at' = 1
    BY <1>4 DEF SchemaTypes, Fault, Abandon
  <2>2. stmt' \in [Stmts -> {"null", "insert", "select"}]
    BY <1>4, <2>1 DEF SchemaTypes
  <2>3. \A i \in Stmts : i # at => stmt'[i] = stmt[i]
    BY <1>4, <2>1 DEF SchemaTypes
  <2>4. After'
    BY <1>4, <2>1, <2>2, <2>3, GivesUp
  <2>5. SchemaTypes'
    BY <1>4, <2>1, <2>2, Tables DEF SchemaTypes
  <2>6. InsertsWork'
    BY <1>4, <2>1 DEF InsertsWork, SchemaTypes
  <2> QED
    BY <2>4, <2>5, <2>6, <1>a
<1>5. ASSUME Opening, absent' = absent, at' = at, faulty => faulty',
             NEW s \in {"null", "select"}, stmt' = [stmt EXCEPT ![at] = s],
             pc' \in {"select", "alter"}
      PROVE  SchemaInv'
  <2>1. at \in Stmts /\ HasTable(at)
    BY <1>5 DEF SchemaTypes, Progress
  <2>2. SchemaTypes'
    BY <1>5, <2>1 DEF SchemaTypes
  <2>3. \A i \in Stmts : i # at => stmt'[i] = stmt[i]
    BY <1>5, <2>1 DEF SchemaTypes
  <2>4. InsertsWork'
    BY <1>5, <2>1 DEF InsertsWork, SchemaTypes
  <2>5. Progress'
    BY <1>5, <2>1, <2>3, Tables DEF Progress
  <2> QED
    BY <1>5, <2>2, <2>4, <2>5 DEF NotYet, Altered, FailedForCause, Opened
<1>6. CASE PrepareInsert
  <2>1. Opening /\ absent' = absent
    BY <1>6 DEF PrepareInsert, Opening
  <2>2. CASE Missing = {} /\ NoFault /\ NextTable /\ stmt' = [stmt EXCEPT ![at] = "insert"]
    BY <1>3, <2>1, <2>2
  <2>3. CASE /\ IF Missing = {} THEN Fault ELSE NoFault
             /\ stmt' = [stmt EXCEPT ![at] = "null"] /\ pc' = "select" /\ at' = at
    <3>1. faulty' = TRUE \/ faulty' = faulty
      BY <2>3 DEF Fault, NoFault
    <3> QED
      BY <1>5, <2>1, <2>3, <3>1
  <2> QED
    BY <1>6, <2>2, <2>3 DEF PrepareInsert
<1>7. CASE AlterBegin
  <2>1. Opening /\ absent' = absent
    BY <1>7 DEF AlterBegin, Opening
  <2>2. CASE stmt' = [stmt EXCEPT ![at] = "select"] /\ pc' = "alter" /\ at' = at /\ NoFault
    BY <1>5, <2>1, <2>2 DEF NoFault
  <2>3. CASE Fault /\ Abandon /\ UNCHANGED stmt
    BY <1>4, <2>1, <2>3
  <2> QED
    BY <1>7, <2>2, <2>3 DEF AlterBegin
<1>8. CASE AlterColumn
  <2>1. Opening /\ pc = "alter" /\ stmt' = stmt
    BY <1>8 DEF AlterColumn, Opening
  <2>2. CASE Fault /\ Abandon /\ absent' = absent
    BY <1>4, <2>1, <2>2
  <2>3. ASSUME NEW c, absent' = [absent EXCEPT ![Table] = absent[Table] \ {c}],
               UNCHANGED <<pc, at>>, NoFault
        PROVE  SchemaInv'
    <3>1. SchemaTypes'
      BY <2>1, <2>3 DEF SchemaTypes
    <3>2. \A t \in TableNames : absent[t] = {} => absent'[t] = {}
      BY <2>3 DEF SchemaTypes
    <3>3. InsertsWork'
      BY <2>1, <3>2, InTheFile DEF InsertsWork
    <3> QED
      BY <2>1, <2>3, <3>1, <3>3
      DEF NoFault, Progress, NotYet, Altered, FailedForCause, Opened, Opening
  <2> QED
    BY <1>8, <2>2, <2>3 DEF AlterColumn, Missing
<1>9. CASE AlterDone
  <2>1. /\ pc = "alter" /\ pc' = "reprepare" /\ Missing = {}
        /\ UNCHANGED <<absent, stmt, at, faulty>>
    BY <1>9 DEF AlterDone
  <2>2. SchemaTypes' /\ InsertsWork'
    BY <2>1 DEF SchemaTypes, InsertsWork
  <2>3. Progress'
    BY <2>1 DEF Progress, Opening
  <2> QED
    BY <2>1, <2>2, <2>3 DEF NotYet, Altered, FailedForCause, Opened, Missing, Table
<1>10. CASE PrepareAgain
  <2>1. Opening /\ absent' = absent /\ Missing = {}
    BY <1>10 DEF PrepareAgain, Opening, Altered
  <2>2. CASE Missing = {} /\ NoFault /\ NextTable /\ stmt' = [stmt EXCEPT ![at] = "insert"]
    BY <1>3, <2>1, <2>2
  <2>3. CASE /\ IF Missing = {} THEN Fault ELSE NoFault
             /\ stmt' = [stmt EXCEPT ![at] = "null"] /\ Abandon
    BY <1>4, <2>1, <2>3
  <2> QED
    BY <1>10, <2>2, <2>3 DEF PrepareAgain
<1>11. CASE CloseDb \/ Exit
  <2>1. /\ stmt' = None /\ absent' = absent /\ at' \in {at, 1} /\ pc' \in {"closed", "down"}
    BY <1>11 DEF CloseDb, Exit
  <2>2. SchemaTypes' /\ InsertsWork'
    BY <2>1, <1>n, Tables DEF SchemaTypes, InsertsWork
  <2> QED
    BY <2>1, <2>2 DEF Progress, NotYet, Altered, FailedForCause, Opened, Opening
<1> QED
  BY <1>1, <1>2, <1>6, <1>7, <1>8, <1>9, <1>10, <1>11 DEF SchemaStep

-----------------------------------------------------------------------------
(* The events leave the schema alone.                                      *)
LEMMA NextSchema == SchemaInv /\ [Next]_vars => SchemaInv'
<1> SUFFICES ASSUME SchemaInv, [Next]_vars PROVE SchemaInv'
  OBVIOUS
<1>1. SchemaStep \/ UNCHANGED schemavars
  BY DEF Next, Daemon, SchemaStep, vars, ras_non_standard_event_handler, ras_store, Return
<1> QED
  BY <1>1, SchemaStepKeeps, SchemaKept

(* The invariant of the schema holds throughout.                           *)
LEMMA SchemaAlways == Spec => []SchemaInv
<1>1. Init => SchemaInv
  BY SchemaStarts DEF Init
<1> QED
  BY <1>1, NextSchema, PTL DEF Spec

(* While the database is up a core statement is an INSERT over a table     *)
(* that has all its columns, or NULL because the table could not be        *)
(* created, never the SELECT of ras_mc_alter_table, and the vendors'       *)
(* statements are usable up to the one that failed: for any number of      *)
(* starts, failures and kills.  (ras_mc_event_opendb,                      *)
(* ras_ns_add_vendor_tables)                                               *)
THEOREM OpenDatabaseIsComplete == Spec => []OpenIsComplete
<1>1. SchemaInv => OpenIsComplete
  BY DEF SchemaInv, InsertsWork, Opened, OpenIsComplete
<1> QED
  BY <1>1, SchemaAlways, PTL

(* Without a failing SQL call opening succeeds with every statement        *)
(* usable, from any version of the file and from whatever a killed daemon  *)
(* left.  (ras_mc_alter_table adds every missing column before it lets     *)
(* the INSERT be prepared again)                                           *)
THEOREM UpgradesConverge == Spec => []UpgradeConverges
<1>1. SchemaInv => UpgradeConverges
  BY DEF SchemaInv, FailedForCause, Opened, UpgradeConverges
<1> QED
  BY <1>1, SchemaAlways, PTL

-----------------------------------------------------------------------------
(* What one statement adds: at most one row, its own, and a row exactly    *)
(* when it is an INSERT and something is bound.                            *)
LEMMA StoredIs ==
    ASSUME NEW i, NEW binds, NEW sec, NEW e
    PROVE  \/ Stored(i, binds, sec, e) = << >> /\ ~(stmt[i] = "insert" /\ binds # << >>)
           \/ /\ stmt[i] = "insert" /\ Len(Stored(i, binds, sec, e)) = 1
              /\ Stored(i, binds, sec, e)[1].stmt = i
              /\ \E r : Stored(i, binds, sec, e) = <<r>> /\ r.stmt = i
  BY DEF Stored

(* The vendor's row, if there is one, and the generic one after it.        *)
LEMMA TwoRows ==
    ASSUME NEW own, NEW generic, NEW v, NEW n, NEW usable,
           own = << >> \/ (usable /\ \E r : own = <<r>> /\ r.stmt = v),
           \E r : generic = <<r>> /\ r.stmt = n
    PROVE  LET all == own \o generic
           IN  /\ all # << >> /\ all[Len(all)].stmt = n
               /\ Len(all) <= 2
               /\ Len(all) = 2 => all[1].stmt = v /\ usable
<1> DEFINE all == own \o generic
<1>1. PICK g : generic = <<g>> /\ g.stmt = n
  OBVIOUS
<1>2. CASE own = << >>
  <2>1. all = <<g>>
    BY <1>1, <1>2
  <2> QED
    BY <1>1, <2>1
<1>3. CASE usable /\ \E r : own = <<r>> /\ r.stmt = v
  <2>1. PICK r : own = <<r>> /\ r.stmt = v
    BY <1>3
  <2>2. Len(all) = 2 /\ all[1] = r /\ all[2] = g
    <3>1. all = <<r>> \o <<g>>
      BY <1>1, <2>1
    <3>2. Len(<<r>> \o <<g>>) = 2
      OBVIOUS
    <3>3. (<<r>> \o <<g>>)[1] = r /\ (<<r>> \o <<g>>)[2] = g
      OBVIOUS
    <3> QED
      BY <3>1, <3>2, <3>3, Zenon
  <2> QED
    BY <1>1, <1>3, <2>1, <2>2
<1> QED
  BY <1>2, <1>3

(* A section that a vendor's decoder refuses, or whose vendor table cannot *)
(* be used, is still in the generic table, after the vendor's row if there *)
(* is one; but JaguarMicro's sections without a statement end the daemon   *)
(* in the decoder and are lost.  (ras_non_standard_event_handler stores    *)
(* the generic row whatever the decoder returned; store_jm_err_data)       *)
THEOREM SectionsAreKept == Spec => []SectionKept
<1>1. Init => SectionKept
  BY DEF Init, Quiet, NoEvent, SectionKept
<1>2. SectionKept /\ [Next]_vars => SectionKept'
  <2> SUFFICES ASSUME SectionKept, [Next]_vars PROVE SectionKept'
    OBVIOUS
  <2>1. CASE UNCHANGED vars
    BY <2>1 DEF vars, schemavars, eventvars, SectionKept
  <2>2. CASE Quiet(bound', rows', last', evno', reads')
    BY <2>2 DEF Quiet, NoEvent, SectionKept
  <2>3. ASSUME NEW d \in 1..Len(ras_ns_ev_dec_list), NEW sec \in Sections(d),
               ras_non_standard_event_handler(d, sec)
        PROVE  SectionKept'
    <3> DEFINE own == Stored(Vendor(d), decode(d, sec), sec, 1 - evno)
               generic == Stored(NonStandardRecord, CoreBinds(NonStandardRecord), {}, 1 - evno)
    <3>0. /\ last'.stmt = Vendor(d) /\ last'.dies = store_jm_err_data_dies(d) /\ stmt' = stmt
          /\ last'.stmt - NCore = d
      <4>1. d \in Nat /\ NCore \in Nat
        BY Tables
      <4> QED
        BY <2>3, <4>1 DEF ras_non_standard_event_handler, SectionIn, schemavars, Vendor
    <3>a. CASE store_jm_err_data_dies(d)
      <4>1. rows' = << >>
        BY <2>3, <3>a DEF ras_non_standard_event_handler, AfterRows
      <4>2. d \in JaguarMicro /\ stmt[Vendor(d)] = "null"
        BY <3>a DEF store_jm_err_data_dies
      <4> QED
        BY <3>0, <3>a, <4>1, <4>2 DEF SectionKept
    <3>b. CASE ~store_jm_err_data_dies(d)
      <4>1. rows' = own \o generic
        BY <2>3, <3>b DEF ras_non_standard_event_handler, AfterRows
      <4>2. \/ own = << >>
            \/ stmt[Vendor(d)] = "insert" /\ \E r : own = <<r>> /\ r.stmt = Vendor(d)
        BY StoredIs
      <4>3. stmt[NonStandardRecord] = "insert" =>
                \E r : generic = <<r>> /\ r.stmt = NonStandardRecord
        BY StoredIs, GenericTable
      <4> HIDE DEF own, generic
      <4>4. stmt[NonStandardRecord] = "insert" =>
                /\ rows' # << >> /\ rows'[Len(rows')].stmt = NonStandardRecord
                /\ Len(rows') <= 2
                /\ Len(rows') = 2 => rows'[1].stmt = Vendor(d) /\ stmt[Vendor(d)] = "insert"
        BY <4>1, <4>2, <4>3, TwoRows
      <4>5. ~last'.dies /\ ~(d \in JaguarMicro /\ stmt[Vendor(d)] = "null")
        BY <3>0, <3>b DEF store_jm_err_data_dies
      <4>6. NonStandardRecord' = NonStandardRecord
        BY DEF NonStandardRecord, Desc, NCore
      <4> QED
        BY <3>0, <4>4, <4>5, <4>6 DEF SectionKept
    <3> QED
      BY <3>a, <3>b
  <2>4. ASSUME NEW i \in 1..NCore, ras_store(i) PROVE SectionKept'
    <3>1. last'.stmt = i
      BY <2>4 DEF ras_store, NoEvent
    <3> QED
      BY <3>1, Tables DEF SectionKept, NCore
  <2>5. CASE Return
    <3>1. ~last'.busy
      BY <2>5 DEF Return
    <3> QED
      BY <3>1 DEF SectionKept
  <2> QED
    BY <2>1, <2>2, <2>3, <2>4, <2>5 DEF Next
<1> QED
  BY <1>1, <1>2, PTL DEF Spec

-----------------------------------------------------------------------------
(***************************************************************************)
(* What the rows hold.  First the data: every list of binds of a core      *)
(* table and of a vendor decoder fits its columns.                         *)
(***************************************************************************)

(* A core table has a bind for each column but the id, in the order of the *)
(* columns, and each binds the field its column is meant for.              *)
TableMatches(name, fields, binds) ==
    /\ Len(fields) \in Nat /\ Len(binds) = Len(fields) - 1
    /\ \A p \in 1..Len(binds) : binds[p] = FieldOf(name, fields[p + 1])

(* The n-th core table.                                                    *)
IsTable(n, name, fields, binds) ==
    /\ CoreTables[n].name = name /\ CoreTables[n].fields = fields /\ CoreTables[n].binds = binds

(* The core tables in the order of the handle.                             *)
LEMMA CoreList ==
    /\ IsTable(1, "mc_event", mc_event_fields, ras_store_mc_event)
    /\ IsTable(2, "aer_event", aer_event_fields, ras_store_aer_event)
    /\ IsTable(3, "extlog_event", extlog_event_fields, ras_store_extlog_mem_record)
    /\ IsTable(4, "mce_record", mce_record_fields, ras_store_mce_record)
    /\ IsTable(5, "non_standard_event", non_standard_event_fields, ras_store_non_standard_record)
    /\ IsTable(6, "arm_event", arm_event_fields, ras_store_arm_record)
    /\ IsTable(7, "devlink_event", devlink_event_fields, ras_store_devlink_event)
    /\ IsTable(8, "disk_errors", diskerror_event_fields, ras_store_diskerror_event)
    /\ IsTable(9, "memory_failure_event", mf_event_fields, ras_store_mf_event)
    /\ IsTable(10, "cxl_poison_event", cxl_poison_event_fields, ras_store_cxl_poison_event)
    /\ IsTable(11, "cxl_aer_ue_event", cxl_aer_ue_event_fields, ras_store_cxl_aer_ue_event)
    /\ IsTable(12, "cxl_aer_ce_event", cxl_aer_ce_event_fields, ras_store_cxl_aer_ce_event)
    /\ IsTable(13, "cxl_overflow_event", cxl_overflow_event_fields, ras_store_cxl_overflow_event)
    /\ IsTable(14, "cxl_generic_event", cxl_generic_event_fields, ras_store_cxl_generic_event)
    /\ IsTable(15, "cxl_general_media_event", cxl_general_media_event_fields,
               ras_store_cxl_general_media_event)
    /\ IsTable(16, "cxl_dram_event", cxl_dram_event_fields, ras_store_cxl_dram_event)
    /\ IsTable(17, "cxl_memory_module_event", cxl_memory_module_event_fields,
               ras_store_cxl_memory_module_event)
    /\ IsTable(18, "signal_event", signal_event_fields, ras_store_signal_event)
    /\ IsTable(19, "reri_event", reri_event_fields, ras_store_reri_event)
  BY DEF CoreTables, IsTable

(* Every core table matches: no ras_store_* function skips, shifts or      *)
(* swaps a parameter.                                                      *)
LEMMA CoreMatch ==
    \A n \in 1..19 : TableMatches(CoreTables[n].name, CoreTables[n].fields, CoreTables[n].binds)
<1> DEFINE Matches(n) == TableMatches(CoreTables[n].name, CoreTables[n].fields,
                                      CoreTables[n].binds)
<1>1. Matches(1)
  <2>1. TableMatches("mc_event", mc_event_fields, ras_store_mc_event)
    BY DEF TableMatches, FieldOf, Renamed, mc_event_fields, ras_store_mc_event
  <2> QED
    BY <2>1, CoreList, Zenon DEF IsTable
<1>2. Matches(2)
  <2>1. TableMatches("aer_event", aer_event_fields, ras_store_aer_event)
    BY DEF TableMatches, FieldOf, Renamed, aer_event_fields, ras_store_aer_event
  <2> QED
    BY <2>1, CoreList, Zenon DEF IsTable
<1>3. Matches(3)
  <2>1. TableMatches("extlog_event", extlog_event_fields, ras_store_extlog_mem_record)
    BY DEF TableMatches, FieldOf, Renamed, extlog_event_fields, ras_store_extlog_mem_record
  <2> QED
    BY <2>1, CoreList, Zenon DEF IsTable
<1>4. Matches(4)
  <2>1. TableMatches("mce_record", mce_record_fields, ras_store_mce_record)
    BY DEF TableMatches, FieldOf, Renamed, mce_record_fields, ras_store_mce_record
  <2> QED
    BY <2>1, CoreList, Zenon DEF IsTable
<1>5. Matches(5)
  <2>1. TableMatches("non_standard_event", non_standard_event_fields,
                     ras_store_non_standard_record)
    BY DEF TableMatches, FieldOf, Renamed, non_standard_event_fields,
       ras_store_non_standard_record
  <2> QED
    BY <2>1, CoreList, Zenon DEF IsTable
<1>6. Matches(6)
  <2>1. TableMatches("arm_event", arm_event_fields, ras_store_arm_record)
    BY DEF TableMatches, FieldOf, Renamed, arm_event_fields, ras_store_arm_record
  <2> QED
    BY <2>1, CoreList, Zenon DEF IsTable
<1>7. Matches(7)
  <2>1. TableMatches("devlink_event", devlink_event_fields, ras_store_devlink_event)
    BY DEF TableMatches, FieldOf, Renamed, devlink_event_fields, ras_store_devlink_event
  <2> QED
    BY <2>1, CoreList, Zenon DEF IsTable
<1>8. Matches(8)
  <2>1. TableMatches("disk_errors", diskerror_event_fields, ras_store_diskerror_event)
    BY DEF TableMatches, FieldOf, Renamed, diskerror_event_fields, ras_store_diskerror_event
  <2> QED
    BY <2>1, CoreList, Zenon DEF IsTable
<1>9. Matches(9)
  <2>1. TableMatches("memory_failure_event", mf_event_fields, ras_store_mf_event)
    BY DEF TableMatches, FieldOf, Renamed, mf_event_fields, ras_store_mf_event
  <2> QED
    BY <2>1, CoreList, Zenon DEF IsTable
<1>10. Matches(10)
  <2>1. TableMatches("cxl_poison_event", cxl_poison_event_fields, ras_store_cxl_poison_event)
    BY DEF TableMatches, FieldOf, Renamed, cxl_poison_event_fields, ras_store_cxl_poison_event
  <2> QED
    BY <2>1, CoreList, Zenon DEF IsTable
<1>11. Matches(11)
  <2>1. TableMatches("cxl_aer_ue_event", cxl_aer_ue_event_fields, ras_store_cxl_aer_ue_event)
    BY DEF TableMatches, FieldOf, Renamed, cxl_aer_ue_event_fields, ras_store_cxl_aer_ue_event
  <2> QED
    BY <2>1, CoreList, Zenon DEF IsTable
<1>12. Matches(12)
  <2>1. TableMatches("cxl_aer_ce_event", cxl_aer_ce_event_fields, ras_store_cxl_aer_ce_event)
    BY DEF TableMatches, FieldOf, Renamed, cxl_aer_ce_event_fields, ras_store_cxl_aer_ce_event
  <2> QED
    BY <2>1, CoreList, Zenon DEF IsTable
<1>13. Matches(13)
  <2>1. TableMatches("cxl_overflow_event", cxl_overflow_event_fields,
                     ras_store_cxl_overflow_event)
    BY DEF TableMatches, FieldOf, Renamed, cxl_overflow_event_fields, ras_store_cxl_overflow_event
  <2> QED
    BY <2>1, CoreList, Zenon DEF IsTable
<1>14. Matches(14)
  <2>1. TableMatches("cxl_generic_event", cxl_generic_event_fields, ras_store_cxl_generic_event)
    BY DEF TableMatches, FieldOf, Renamed, cxl_generic_event_fields,
       ras_store_cxl_generic_event, ras_store_cxl_common_hdr
  <2> QED
    BY <2>1, CoreList, Zenon DEF IsTable
<1>15. Matches(15)
  <2>1. TableMatches("cxl_general_media_event", cxl_general_media_event_fields,
                     ras_store_cxl_general_media_event)
    BY DEF TableMatches, FieldOf, Renamed, cxl_general_media_event_fields,
       ras_store_cxl_general_media_event, ras_store_cxl_common_hdr
  <2> QED
    BY <2>1, CoreList, Zenon DEF IsTable
<1>16. Matches(16)
  <2>1. TableMatches("cxl_dram_event", cxl_dram_event_fields, ras_store_cxl_dram_event)
    BY DEF TableMatches, FieldOf, Renamed, cxl_dram_event_fields, ras_store_cxl_dram_event,
       ras_store_cxl_common_hdr
  <2> QED
    BY <2>1, CoreList, Zenon DEF IsTable
<1>17. Matches(17)
  <2>1. TableMatches("cxl_memory_module_event", cxl_memory_module_event_fields,
                     ras_store_cxl_memory_module_event)
    BY DEF TableMatches, FieldOf, Renamed, cxl_memory_module_event_fields,
       ras_store_cxl_memory_module_event, ras_store_cxl_common_hdr
  <2> QED
    BY <2>1, CoreList, Zenon DEF IsTable
<1>18. Matches(18)
  <2>1. TableMatches("signal_event", signal_event_fields, ras_store_signal_event)
    BY DEF TableMatches, FieldOf, Renamed, signal_event_fields, ras_store_signal_event
  <2> QED
    BY <2>1, CoreList, Zenon DEF IsTable
<1>19. Matches(19)
  <2>1. TableMatches("reri_event", reri_event_fields, ras_store_reri_event)
    BY DEF TableMatches, FieldOf, Renamed, reri_event_fields, ras_store_reri_event
  <2> QED
    BY <2>1, CoreList, Zenon DEF IsTable
<1> HIDE DEF Matches
<1>20. ASSUME NEW n \in 1..19 PROVE Matches(n)
  BY <1>1, <1>2, <1>3, <1>4, <1>5, <1>6, <1>7, <1>8, <1>9, <1>10, <1>11, <1>12, <1>13, <1>14,
     <1>15, <1>16, <1>17, <1>18, <1>19
<1> QED
  BY <1>20 DEF Matches

(* The parameters of a statement, one for each column but the id; is it    *)
(* cleared after a row; what a bind puts into a column; and a list of      *)
(* binds that gives every column its one bind, made or not.                *)
Params(i) == 1..Len(Desc(i).fields) - 1
Clears(i) == ~IsCore(i) /\ Desc(i).cleared
Holds(b, i, sec, column) ==
    IF IsMade(b, sec) THEN b.src = Meant(i, column, sec)
    ELSE Meant(i, column, sec) = << >> /\ Clears(i)
Fits(i, sec, binds) ==
    /\ Len(Desc(i).fields) \in Nat /\ Len(binds) \in Nat
    /\ \A k \in 1..Len(binds) : binds[k].param \in Params(i)
    /\ \A p \in Params(i) :
           \/ Excepted(i, Desc(i).fields[p + 1], sec)
           \/ \E k \in 1..Len(binds) :
                  /\ binds[k].param = p /\ \A j \in 1..Len(binds) : binds[j].param = p => j = k
                  /\ Holds(binds[k], i, sec, Desc(i).fields[p + 1])

(* The vendors' statements follow the core ones.                           *)
LEMMA VendorDesc ==
    \A d \in 1..13 : /\ ~IsCore(Vendor(d)) /\ Vendor(d) - NCore = d /\ Vendor(d) \in Stmts
                     /\ Desc(Vendor(d)) = ras_ns_ev_dec_list[d]
<1>1. NCore = 19
  BY DEF NCore, CoreTables
<1>2. Len(ras_ns_ev_dec_list) = 13
  BY DEF ras_ns_ev_dec_list
<1> QED
  BY <1>1, <1>2 DEF IsCore, Vendor, Desc, Stmts

(* The tables of the decoders that have one, and which of them are         *)
(* cleared.                                                                *)
LEMMA Decoders ==
    LET dec == ras_ns_ev_dec_list IN
    /\ dec[2] = Decoder("hip08_oem_type1_event_v2", hip08_oem_event_fields, TRUE)
    /\ dec[3] = Decoder("hip08_oem_type2_event_v2", hip08_oem_event_fields, TRUE)
    /\ dec[4] = Decoder("hip08_pcie_local_event_v2", hip08_pcie_local_event_fields, TRUE)
    /\ dec[5] = Decoder("hisi_common_section_v2", hisi_common_section_fields, TRUE)
    /\ \A d \in 6..10 : dec[d] = Decoder("jm_payload0_event", jm_payload0_event_fields, TRUE)
    /\ dec[11] = Decoder("nvidia_ns_event", nvidia_ns_fields, FALSE)
    /\ dec[12] = Decoder("nvidia_vera_ns_event", nvidia_vera_ns_fields, FALSE)
    /\ dec[13] = Decoder("yitian_ddr_reg_dump_event", yitian_ddr_payload_fields, FALSE)
  BY DEF ras_ns_ev_dec_list

(* What a vendor's column is meant for.                                    *)
LEMMA MeantIs ==
    ASSUME NEW d \in 1..13, NEW column, NEW sec
    PROVE  /\ Meant(Vendor(d), column, sec) =
                  IF column = "regs_dump" THEN Registers(d, sec)
                  ELSE IF SectionField(d, column) \in Optional(d) \ sec THEN << >>
                  ELSE <<SectionField(d, column)>>
           /\ Excepted(Vendor(d), column, sec) <=>
                  \/ d \in 6..10 /\ column \in {"version", "module_id", "submodule_id"}
                  \/ d \in 2..4 /\ column = "regs_dump" /\ Registers(d, sec) = << >>
<1>1. Vendor(d) # NonStandardRecord
  <2>1. ~IsCore(Vendor(d)) /\ NonStandardRecord \in 1..NCore /\ NCore \in Nat
    BY VendorDesc, GenericTable, Tables
  <2> QED
    BY <2>1 DEF IsCore
<1> QED
  BY <1>1, VendorDesc DEF Meant, Excepted

(* What follows a header of columns in a list of binds.                    *)
Framed(l, a, h, c) ==
    /\ Len(l) = Len(h) + 2 /\ l[1] = a /\ l[Len(h) + 2] = c
    /\ \A k \in 1..Len(h) : l[k + 1] = h[k]

(* A list built around a header is framed.                                 *)
LEMMA Between ==
    ASSUME NEW a, NEW h, h = [k \in 1..Len(h) |-> h[k]], Len(h) \in Nat, NEW c
    PROVE  Framed(<<a>> \o h \o <<c>>, a, h, c)
  BY DEF Framed

\* The bind of the register dump.
Whole(param, src) == [valid |-> "", param |-> param, src |-> src]

\* No field: the bind is always made.
Blank(f) == f = ""

(* The fields of a bind, and when it is made.                              *)
LEMMA BindIs ==
    \A f, p, sec :
        /\ Always(f, p).param = p /\ Always(f, p).src = <<f>> /\ IsMade(Always(f, p), sec)
        /\ If(f, p).param = p /\ If(f, p).src = <<f>>
        /\ ~Blank(f) => (IsMade(If(f, p), sec) <=> f \in sec)
        /\ Whole(p, f).param = p /\ Whole(p, f).src = f /\ IsMade(Whole(p, f), sec)
  BY DEF Always, If, Whole, Blank, IsMade

(* The fields of the section that the columns are named after.             *)
LEMMA FieldIs ==
    /\ \A d \in {2, 3, 4} \cup 6..13 : \A c :
           SectionField(d, c) = IF c = "subsystem" THEN "subsystem_id"
                                ELSE IF c = "module" THEN "module_id"
                                ELSE IF c = "sub_module" THEN "submodule_id"
                                ELSE IF c = "dev" THEN "dev_id" ELSE c
    /\ \A c : SectionField(5, c) = IF c = "sub_system_id" THEN "subsystem_id"
                                   ELSE IF c = "sub_module_id" THEN "submodule_id" ELSE c
  BY DEF SectionField

(* The three kinds of binds hold what their columns are meant for.         *)
LEMMA HoldsAlways ==
    ASSUME NEW d \in 1..13, NEW sec, NEW c, NEW p,
           c # "regs_dump", SectionField(d, c) \notin Optional(d)
    PROVE  Holds(Always(SectionField(d, c), p), Vendor(d), sec, c)
  BY MeantIs, BindIs DEF Holds

LEMMA HoldsIf ==
    ASSUME NEW d \in 1..13, NEW sec, NEW c, NEW p, Clears(Vendor(d)),
           c # "regs_dump", SectionField(d, c) \in Optional(d), ~Blank(SectionField(d, c))
    PROVE  Holds(If(SectionField(d, c), p), Vendor(d), sec, c)
<1>1. Meant(Vendor(d), c, sec) =
          IF SectionField(d, c) \in sec THEN <<SectionField(d, c)>> ELSE << >>
  BY MeantIs
<1> QED
  BY <1>1, BindIs DEF Holds

LEMMA HoldsWhole ==
    ASSUME NEW d \in 1..13, NEW sec, NEW p
    PROVE  Holds(Whole(p, Registers(d, sec)), Vendor(d), sec, "regs_dump")
  BY MeantIs, BindIs DEF Holds

(* Every column has its one bind, or is excepted.                          *)
BoundOnce(l, m, p, i, sec, column) ==
    \/ Excepted(i, column, sec)
    \/ \E k \in 1..m : /\ l[k].param = p /\ \A j \in 1..m : l[j].param = p => j = k
                       /\ Holds(l[k], i, sec, column)

(* How a list of binds is shown to fit.                                    *)
LEMMA FitsBy ==
    ASSUME NEW i, NEW sec, NEW l, NEW f, NEW m \in Nat, NEW n \in Nat,
           f = Desc(i).fields, Len(f) = n + 1, Len(l) = m,
           \A k \in 1..m : l[k].param \in 1..n,
           \A p \in 1..n : BoundOnce(l, m, p, i, sec, f[p + 1])
    PROVE  Fits(i, sec, l)
<1>1. Params(i) = 1..n
  BY DEF Params
<1> QED
  BY <1>1 DEF Fits, BoundOnce

(* The columns of a HIP08 table and the header that binds them.            *)
HipHeader(d, f, h, n) ==
    /\ Len(f) = n + 3 /\ Len(h) = n
    /\ f[2] = "timestamp" /\ f[3] = "version" /\ f[n + 3] = "regs_dump"
    /\ \A k \in 1..n :
           h[k] = IF k = 1 THEN Always(f[k + 2], k + 1) ELSE If(f[k + 2], k + 1)
    /\ \A p \in 3..n + 1 : f[p + 1] \in Optional(d) /\ ~Blank(f[p + 1]) /\ f[p + 1] # "regs_dump"
    /\ \A p \in 3..n + 1 : SectionField(d, f[p + 1]) = f[p + 1]
    /\ "timestamp" \notin Optional(d) /\ "version" \notin Optional(d)

(* A HIP08 decoder fits its table: a header of the valid fields, then the  *)
(* registers.                                                              *)
LEMMA HipFits ==
    ASSUME NEW d \in 2..4, NEW sec, NEW h, NEW l, NEW src, NEW n \in Nat \ {0}, NEW f,
           f = Desc(Vendor(d)).fields, Clears(Vendor(d)),
           HipHeader(d, f, h, n),
           Framed(l, Always("timestamp", 1), h, Whole(n + 2, src)),
           Registers(d, sec) # << >> => src = Registers(d, sec)
    PROVE  Fits(Vendor(d), sec, l)
<1>1. /\ Len(f) = n + 3 /\ Len(l) = n + 2 /\ ~IsCore(Vendor(d))
      /\ l[1] = Always("timestamp", 1) /\ l[n + 2] = Whole(n + 2, src)
  <2>1. Len(h) = n /\ Len(f) = n + 3
    BY DEF HipHeader
  <2>2. d \in 1..13
    OBVIOUS
  <2> QED
    BY <2>1, <2>2, VendorDesc DEF Framed
<1>2. ASSUME NEW k \in 2..n + 1
      PROVE  l[k] = IF k = 2 THEN Always(f[k + 1], k) ELSE If(f[k + 1], k)
  <2>1. k - 1 \in 1..n /\ (k - 1) + 1 = k /\ (k - 1) + 2 = k + 1
    OBVIOUS
  <2>2. l[(k - 1) + 1] = h[k - 1]
    BY <2>1 DEF Framed, HipHeader
  <2>3. h[k - 1] = IF k - 1 = 1 THEN Always(f[(k - 1) + 2], (k - 1) + 1)
                   ELSE If(f[(k - 1) + 2], (k - 1) + 1)
    BY <2>1 DEF HipHeader
  <2> QED
    BY <2>1, <2>2, <2>3
<1>3. ASSUME NEW k \in 1..n + 2 PROVE l[k].param = k
  <2>1. k = 1 \/ k \in 2..n + 1 \/ k = n + 2
    OBVIOUS
  <2> QED
    BY <1>1, <1>2, <2>1, BindIs
<1>4. ASSUME NEW p \in 3..n + 1 PROVE Holds(l[p], Vendor(d), sec, f[p + 1])
  <2>1. /\ f[p + 1] \in Optional(d) /\ ~Blank(f[p + 1]) /\ f[p + 1] # "regs_dump"
        /\ SectionField(d, f[p + 1]) = f[p + 1]
    BY DEF HipHeader
  <2>2. l[p] = If(f[p + 1], p) /\ d \in 1..13
    BY <1>2
  <2> QED
    BY <2>1, <2>2, HoldsIf
<1>5. ASSUME NEW p \in 1..2 PROVE Holds(l[p], Vendor(d), sec, f[p + 1])
  <2>1. l[p] = Always(f[p + 1], p) /\ d \in 1..13
    BY <1>1, <1>2 DEF HipHeader
  <2>2. /\ f[p + 1] \notin Optional(d) /\ f[p + 1] # "regs_dump"
        /\ SectionField(d, f[p + 1]) = f[p + 1]
    BY FieldIs DEF HipHeader
  <2> QED
    BY <2>1, <2>2, HoldsAlways
<1>6. \/ Excepted(Vendor(d), f[n + 3], sec)
      \/ Holds(l[n + 2], Vendor(d), sec, f[n + 3])
  <2>1. f[n + 3] = "regs_dump" /\ d \in 1..13
    BY DEF HipHeader
  <2> QED
    BY <1>1, <2>1, MeantIs, HoldsWhole
<1>7. ASSUME NEW p \in 1..n + 2 PROVE BoundOnce(l, n + 2, p, Vendor(d), sec, f[p + 1])
  <2>1. p \in 1..2 \/ p \in 3..n + 1 \/ (p = n + 2 /\ p + 1 = n + 3)
    OBVIOUS
  <2>2. Excepted(Vendor(d), f[p + 1], sec) \/ Holds(l[p], Vendor(d), sec, f[p + 1])
    BY <1>4, <1>5, <1>6, <2>1
  <2> QED
    BY <1>3, <2>2 DEF BoundOnce
<1>8. \A k \in 1..n + 2 : l[k].param \in 1..n + 2
  BY <1>3
<1>9. Len(f) = (n + 2) + 1 /\ Len(l) = n + 2 /\ n + 2 \in Nat
  BY <1>1
<1> QED
  BY <1>7, <1>8, <1>9, FitsBy, Zenon

(* decode_hip08_oem_type1_error fits its table.                            *)
LEMMA Fits2 ==
    ASSUME NEW sec, sec # {} PROVE Fits(Vendor(2), sec, decode_hip08_oem_type1_error(sec))
<1> DEFINE src == IF ValidRegs(HISI_OEM_TYPE1_REGS, sec) = << >> THEN Uninitialised
                  ELSE ValidRegs(HISI_OEM_TYPE1_REGS, sec)
           f == hip08_oem_event_fields
           h == decode_oem_type1_err_hdr
<1>1. Framed(decode_hip08_oem_type1_error(sec), Always("timestamp", 1), h, Whole(7 + 2, src))
  <2>1. h = [k \in 1..Len(h) |-> h[k]] /\ Len(h) \in Nat
    BY DEF decode_oem_type1_err_hdr
  <2>2. decode_oem_type1_err_regs(sec) = Whole(9, src)
    BY DEF decode_oem_type1_err_regs, RegsDump, HIP08_OEM_TYPE1_FIELD, Whole
  <2>3. decode_hip08_oem_type1_error(sec) =
            <<Always("timestamp", 1)>> \o h \o <<Whole(9, src)>>
    BY <2>2 DEF decode_hip08_oem_type1_error, HIP08_OEM_TYPE1_FIELD
  <2>4. Framed(decode_hip08_oem_type1_error(sec), Always("timestamp", 1), h, Whole(9, src))
    BY <2>1, <2>3, Between, Zenon
  <2> QED
    BY <2>4
<1>2. HipHeader(2, hip08_oem_event_fields, h, 7)
  <2>1. /\ Len(f) = 10 /\ Len(h) = 7
        /\ \A k \in 1..7 : h[k] = IF k = 1 THEN Always(f[k + 2], k + 1)
                               ELSE If(f[k + 2], k + 1)
    BY DEF decode_oem_type1_err_hdr, hip08_oem_event_fields, HIP08_OEM_TYPE1_FIELD
  <2>2. /\ f[2] = "timestamp" /\ f[3] = "version" /\ f[10] = "regs_dump"
        /\ \A p \in 3..8 : /\ f[p + 1] \in HISI_OEM_VALID /\ ~Blank(f[p + 1])
                           /\ f[p + 1] # "version" /\ f[p + 1] # "regs_dump"
                           /\ SectionField(2, f[p + 1]) = f[p + 1]
        /\ "timestamp" \notin HISI_OEM_VALID
    BY DEF hip08_oem_event_fields, HISI_OEM_VALID, Blank, SectionField
  <2>3. Optional(2) = HISI_OEM_VALID /\ "version" \notin HISI_OEM_VALID
    BY DEF Optional, HISI_OEM_VALID
  <2> QED
    BY <2>1, <2>2, <2>3 DEF HipHeader
<1>3. Registers(2, sec) # << >> => src = Registers(2, sec)
  BY DEF Registers
<1>4. Desc(Vendor(2)).fields = hip08_oem_event_fields /\ Clears(Vendor(2))
  BY VendorDesc, Decoders DEF Decoder, Clears
<1>5. 2 \in 2..4 /\ 7 \in Nat \ {0}
  OBVIOUS
<1> HIDE DEF h, src
<1> QED
  BY <1>1, <1>2, <1>3, <1>4, <1>5, HipFits, Zenon

(* decode_hip08_oem_type2_error fits its table.                            *)
LEMMA Fits3 ==
    ASSUME NEW sec, sec # {} PROVE Fits(Vendor(3), sec, decode_hip08_oem_type2_error(sec))
<1> DEFINE src == IF ValidRegs(HISI_OEM_TYPE2_REGS, sec) = << >> THEN Uninitialised
                  ELSE ValidRegs(HISI_OEM_TYPE2_REGS, sec)
           f == hip08_oem_event_fields
           h == decode_oem_type2_err_hdr
<1>1. Framed(decode_hip08_oem_type2_error(sec), Always("timestamp", 1), h, Whole(7 + 2, src))
  <2>1. h = [k \in 1..Len(h) |-> h[k]] /\ Len(h) \in Nat
    BY DEF decode_oem_type2_err_hdr
  <2>2. decode_oem_type2_err_regs(sec) = Whole(9, src)
    BY DEF decode_oem_type2_err_regs, RegsDump, HIP08_OEM_TYPE2_FIELD, Whole
  <2>3. decode_hip08_oem_type2_error(sec) =
            <<Always("timestamp", 1)>> \o h \o <<Whole(9, src)>>
    BY <2>2 DEF decode_hip08_oem_type2_error, HIP08_OEM_TYPE2_FIELD
  <2>4. Framed(decode_hip08_oem_type2_error(sec), Always("timestamp", 1), h, Whole(9, src))
    BY <2>1, <2>3, Between, Zenon
  <2> QED
    BY <2>4
<1>2. HipHeader(3, hip08_oem_event_fields, h, 7)
  <2>1. /\ Len(f) = 10 /\ Len(h) = 7
        /\ \A k \in 1..7 : h[k] = IF k = 1 THEN Always(f[k + 2], k + 1)
                               ELSE If(f[k + 2], k + 1)
    BY DEF decode_oem_type2_err_hdr, hip08_oem_event_fields, HIP08_OEM_TYPE2_FIELD
  <2>2. /\ f[2] = "timestamp" /\ f[3] = "version" /\ f[10] = "regs_dump"
        /\ \A p \in 3..8 : /\ f[p + 1] \in HISI_OEM_VALID /\ ~Blank(f[p + 1])
                           /\ f[p + 1] # "version" /\ f[p + 1] # "regs_dump"
                           /\ SectionField(3, f[p + 1]) = f[p + 1]
        /\ "timestamp" \notin HISI_OEM_VALID
    BY DEF hip08_oem_event_fields, HISI_OEM_VALID, Blank, SectionField
  <2>3. Optional(3) = HISI_OEM_VALID /\ "version" \notin HISI_OEM_VALID
    BY DEF Optional, HISI_OEM_VALID
  <2> QED
    BY <2>1, <2>2, <2>3 DEF HipHeader
<1>3. Registers(3, sec) # << >> => src = Registers(3, sec)
  BY DEF Registers
<1>4. Desc(Vendor(3)).fields = hip08_oem_event_fields /\ Clears(Vendor(3))
  BY VendorDesc, Decoders DEF Decoder, Clears
<1>5. 3 \in 2..4 /\ 7 \in Nat \ {0}
  OBVIOUS
<1> HIDE DEF h, src
<1> QED
  BY <1>1, <1>2, <1>3, <1>4, <1>5, HipFits, Zenon

(* decode_hip08_pcie_local_error fits its table.                           *)
LEMMA Fits4 ==
    ASSUME NEW sec, sec # {} PROVE Fits(Vendor(4), sec, decode_hip08_pcie_local_error(sec))
<1> DEFINE src == IF ValidRegs(HISI_PCIE_LOCAL_REGS, sec) = << >> THEN Uninitialised
                  ELSE ValidRegs(HISI_PCIE_LOCAL_REGS, sec)
           f == hip08_pcie_local_event_fields
           h == decode_pcie_local_err_hdr
<1>1. Framed(decode_hip08_pcie_local_error(sec), Always("timestamp", 1), h, Whole(9 + 2, src))
  <2>1. h = [k \in 1..Len(h) |-> h[k]] /\ Len(h) \in Nat
    BY DEF decode_pcie_local_err_hdr
  <2>2. decode_pcie_local_err_regs(sec) = Whole(11, src)
    BY DEF decode_pcie_local_err_regs, RegsDump, HIP08_PCIE_LOCAL_FIELD, Whole
  <2>3. decode_hip08_pcie_local_error(sec) =
            <<Always("timestamp", 1)>> \o h \o <<Whole(11, src)>>
    BY <2>2 DEF decode_hip08_pcie_local_error, HIP08_PCIE_LOCAL_FIELD
  <2>4. Framed(decode_hip08_pcie_local_error(sec), Always("timestamp", 1), h, Whole(11, src))
    BY <2>1, <2>3, Between, Zenon
  <2> QED
    BY <2>4
<1>2. HipHeader(4, hip08_pcie_local_event_fields, h, 9)
  <2>1. /\ Len(f) = 12 /\ Len(h) = 9
        /\ \A k \in 1..9 : h[k] = IF k = 1 THEN Always(f[k + 2], k + 1)
                               ELSE If(f[k + 2], k + 1)
    BY DEF decode_pcie_local_err_hdr, hip08_pcie_local_event_fields, HIP08_PCIE_LOCAL_FIELD
  <2>2. /\ f[2] = "timestamp" /\ f[3] = "version" /\ f[12] = "regs_dump"
        /\ \A p \in 3..10 : /\ f[p + 1] \in HISI_PCIE_LOCAL_VALID /\ ~Blank(f[p + 1])
                            /\ f[p + 1] # "version" /\ f[p + 1] # "regs_dump"
                            /\ SectionField(4, f[p + 1]) = f[p + 1]
        /\ "timestamp" \notin HISI_PCIE_LOCAL_VALID
    BY DEF hip08_pcie_local_event_fields, HISI_PCIE_LOCAL_VALID, Blank, SectionField
  <2>3. Optional(4) = HISI_PCIE_LOCAL_VALID \ {"version"}
    BY DEF Optional, HISI_PCIE_LOCAL_VALID
  <2> QED
    BY <2>1, <2>2, <2>3 DEF HipHeader
<1>3. Registers(4, sec) # << >> => src = Registers(4, sec)
  BY DEF Registers
<1>4. Desc(Vendor(4)).fields = hip08_pcie_local_event_fields /\ Clears(Vendor(4))
  BY VendorDesc, Decoders DEF Decoder, Clears
<1>5. 4 \in 2..4 /\ 9 \in Nat \ {0}
  OBVIOUS
<1> HIDE DEF h, src
<1> QED
  BY <1>1, <1>2, <1>3, <1>4, <1>5, HipFits, Zenon

(* decode_hisi_common_section fits its table; an empty register dump is    *)
(* the empty string.                                                       *)
LEMMA Fits5 == ASSUME NEW sec PROVE Fits(Vendor(5), sec, decode_hisi_common_section(sec))
<1> DEFINE f == hisi_common_section_fields
           h == decode_hisi_common_section_hdr
           l == decode_hisi_common_section(sec)
           ts == Always("timestamp", 1)
           regs == Whole(15, Registers(5, sec))
<1>1. /\ Desc(Vendor(5)).fields = f /\ Clears(Vendor(5)) /\ Len(f) = 16
  BY VendorDesc, Decoders DEF Decoder, Clears, hisi_common_section_fields
<1>2. /\ Len(h) = 13 /\ h = [k \in 1..13 |-> h[k]]
      /\ \A k \in 1..13 : h[k] = IF k = 1 THEN Always(SectionField(5, f[k + 2]), k + 1)
                                ELSE If(SectionField(5, f[k + 2]), k + 1)
  BY DEF decode_hisi_common_section_hdr, HISI_COMMON_FIELD, hisi_common_section_fields,
     SectionField
<1>3. l = h \o <<ts, regs>>
  <2>1. regs = [valid |-> "", param |-> 15, src |-> ValidRegs(<<"reg_array_size">>, sec)]
    BY DEF Whole, Registers
  <2> QED
    BY <2>1 DEF decode_hisi_common_section, HISI_COMMON_FIELD
<1> HIDE DEF h, l, ts, regs
<1>4. Len(l) = 15 /\ l[14] = ts /\ l[15] = regs /\ \A k \in 1..13 : l[k] = h[k]
  BY <1>2, <1>3
<1>5. /\ f[2] = "timestamp" /\ f[16] = "regs_dump" /\ f[3] = "version"
      /\ \A p \in 1..14 : f[p + 1] # "regs_dump"
      /\ \A p \in 3..14 : /\ SectionField(5, f[p + 1]) \in HISI_COMMON_VALID
                          /\ ~Blank(SectionField(5, f[p + 1]))
  <2>1. /\ f[2] = "timestamp" /\ f[16] = "regs_dump" /\ f[3] = "version"
        /\ \A p \in 1..14 : f[p + 1] # "regs_dump"
    BY DEF hisi_common_section_fields
  <2>2. \A p \in 3..14 : SectionField(5, f[p + 1]) \in HISI_COMMON_VALID
    BY FieldIs DEF hisi_common_section_fields, HISI_COMMON_VALID
  <2>3. \A x \in HISI_COMMON_VALID : ~Blank(x)
    BY DEF HISI_COMMON_VALID, Blank
  <2> HIDE DEF f
  <2> QED
    BY <2>1, <2>2, <2>3
<1>6. /\ SectionField(5, "timestamp") = "timestamp" /\ SectionField(5, "version") = "version"
      /\ "timestamp" \notin Optional(5) /\ "version" \notin Optional(5)
      /\ Optional(5) = HISI_COMMON_VALID
  <2>1. Optional(5) = HISI_COMMON_VALID
    BY DEF Optional
  <2> QED
    BY <2>1, FieldIs DEF HISI_COMMON_VALID
<1> HIDE DEF f
<1>7. ASSUME NEW k \in 1..13 PROVE l[k].param = k + 1 /\ Holds(l[k], Vendor(5), sec, f[k + 2])
  <2>1. k + 1 \in 2..14 /\ k + 2 = (k + 1) + 1
    OBVIOUS
  <2>2. l[k] = IF k = 1 THEN Always(SectionField(5, f[k + 2]), k + 1)
               ELSE If(SectionField(5, f[k + 2]), k + 1)
    BY <1>2, <1>4
  <2>3. CASE k = 1
    BY <1>5, <1>6, <2>1, <2>2, <2>3, HoldsAlways, BindIs
  <2>4. CASE k # 1
    BY <1>1, <1>5, <1>6, <2>1, <2>2, <2>4, HoldsIf, BindIs
  <2> QED
    BY <2>3, <2>4
<1>8. l[14].param = 1 /\ Holds(l[14], Vendor(5), sec, f[2])
  BY <1>4, <1>5, <1>6, HoldsAlways, BindIs DEF ts
<1>9. l[15].param = 15 /\ Holds(l[15], Vendor(5), sec, f[16])
  BY <1>4, <1>5, HoldsWhole, BindIs DEF regs
<1>10. \A k \in 1..15 : l[k].param = IF k = 15 THEN 15 ELSE IF k = 14 THEN 1 ELSE k + 1
  BY <1>7, <1>8, <1>9
<1>11. ASSUME NEW p \in 1..15 PROVE BoundOnce(l, 15, p, Vendor(5), sec, f[p + 1])
  <2> DEFINE k == IF p = 15 THEN 15 ELSE IF p = 1 THEN 14 ELSE p - 1
  <2>1. k \in 1..15 /\ l[k].param = p /\ \A j \in 1..15 : l[j].param = p => j = k
    BY <1>10
  <2>2. Holds(l[k], Vendor(5), sec, f[p + 1])
    <3>1. CASE p \in 2..14
      <4>1. p - 1 \in 1..13 /\ (p - 1) + 2 = p + 1 /\ k = p - 1
        BY <3>1
      <4> QED
        BY <1>7, <4>1
    <3>2. CASE p \notin 2..14
      BY <1>8, <1>9, <3>2
    <3> QED
      BY <3>1, <3>2
  <2> QED
    BY <2>1, <2>2 DEF BoundOnce
<1>12. \A k \in 1..15 : l[k].param \in 1..15
  BY <1>10
<1>13. f = Desc(Vendor(5)).fields /\ Len(f) = 15 + 1 /\ Len(l) = 15 /\ 15 \in Nat
  BY <1>1, <1>4
<1>14. Fits(Vendor(5), sec, l)
  BY <1>11, <1>12, <1>13, FitsBy, Zenon
<1> QED
  BY <1>14 DEF l

(* The JaguarMicro decoders fit their table, but for the version and the   *)
(* identifiers of module and submodule.                                    *)
LEMMA FitsJM ==
    ASSUME NEW d \in 6..10, NEW regs, NEW sec,
           Registers(d, sec) = regs \o decode_jm_common_sec_tail(sec)
    PROVE  Fits(Vendor(d), sec, decode_jm_oem_type_error(regs, sec))
<1> DEFINE f == jm_payload0_event_fields
           h == decode_jm_common_sec_head
           l == decode_jm_oem_type_error(regs, sec)
           dump == Whole(13, Registers(d, sec))
<1>1. d \in 1..13 /\ f = Desc(Vendor(d)).fields /\ Clears(Vendor(d))
  BY VendorDesc, Decoders DEF Decoder, Clears
<1>2. /\ Len(h) = 11 /\ Len(h) \in Nat /\ h = [k \in 1..Len(h) |-> h[k]]
      /\ h[1] = IfOther("soc_id", "version", 2) /\ h[2] = If("soc_id", 3)
      /\ h[3] = If("subsystem_id", 4) /\ h[4] = If("module_id", 5) /\ h[5] = If("module_id", 6)
      /\ h[6] = If("submodule_id", 7) /\ h[7] = If("submodule_id", 6)
      /\ h[8] = If("dev_id", 9) /\ h[9] = If("dev_id", 10)
      /\ h[10] = If("err_type", 11) /\ h[11] = If("err_severity", 12)
  BY DEF decode_jm_common_sec_head, JM_PAYLOAD_FIELD
<1>3. Framed(l, Always("timestamp", 1), h, dump)
  <2>1. dump = [valid |-> "", param |-> 13, src |-> regs \o decode_jm_common_sec_tail(sec)]
    BY DEF Whole
  <2> HIDE DEF dump
  <2>2. l = <<Always("timestamp", 1)>> \o h \o <<dump>>
    BY <2>1 DEF decode_jm_oem_type_error, JM_PAYLOAD_FIELD
  <2> HIDE DEF l, h
  <2> QED
    BY <1>2, <2>2, Between, Zenon
<1>4. /\ Len(f) = 12 + 2 /\ f[2] = "timestamp" /\ f[3] = "version" /\ f[4] = "soc_id"
      /\ f[5] = "subsystem" /\ f[6] = "module" /\ f[7] = "module_id" /\ f[8] = "sub_module"
      /\ f[9] = "submodule_id" /\ f[10] = "dev" /\ f[11] = "dev_id"
      /\ f[12] = "err_type" /\ f[13] = "err_severity" /\ f[14] = "regs_dump"
  BY DEF jm_payload0_event_fields
<1>5. /\ "timestamp" \notin Optional(d)
      /\ \A x \in {"soc_id", "subsystem_id", "module_id", "submodule_id", "dev_id", "err_type",
                    "err_severity"} : x \in Optional(d) /\ ~Blank(x)
  <2>1. Optional(d) = JM_COMMON_VALID
    BY DEF Optional
  <2> QED
    BY <2>1 DEF JM_COMMON_VALID, Blank
<1> HIDE DEF f, h, l, dump
<1>6. Len(l) = 13 /\ l[1] = Always("timestamp", 1) /\ l[13] = dump
      /\ \A k \in 1..11 : l[k + 1] = h[k]
  BY <1>2, <1>3 DEF Framed
<1>7. /\ l[2] = IfOther("soc_id", "version", 2) /\ l[3] = If("soc_id", 3)
      /\ l[4] = If("subsystem_id", 4) /\ l[5] = If("module_id", 5) /\ l[6] = If("module_id", 6)
      /\ l[7] = If("submodule_id", 7) /\ l[8] = If("submodule_id", 6)
      /\ l[9] = If("dev_id", 9) /\ l[10] = If("dev_id", 10)
      /\ l[11] = If("err_type", 11) /\ l[12] = If("err_severity", 12)
  BY <1>2, <1>6
<1>8. \A k \in 1..13 : l[k].param = IF k = 8 THEN 6 ELSE k
  <2>1. l[2].param = 2
    BY <1>7 DEF IfOther
  <2>2. l[13].param = 13
    BY <1>6, BindIs DEF dump
  <2> QED
    BY <1>6, <1>7, <2>1, <2>2, BindIs
<1>f. \A c : SectionField(d, c) = IF c = "subsystem" THEN "subsystem_id"
                                 ELSE IF c = "module" THEN "module_id"
                                 ELSE IF c = "sub_module" THEN "submodule_id"
                                 ELSE IF c = "dev" THEN "dev_id" ELSE c
  BY FieldIs
<1>9. /\ Holds(l[1], Vendor(d), sec, f[2]) /\ Holds(l[13], Vendor(d), sec, f[14])
  <2>1. SectionField(d, f[2]) = "timestamp" /\ f[2] # "regs_dump"
    BY <1>4, <1>f
  <2>2. Holds(Always(SectionField(d, f[2]), 1), Vendor(d), sec, f[2])
    BY <1>1, <1>5, <2>1, HoldsAlways
  <2>3. Holds(dump, Vendor(d), sec, "regs_dump")
    BY <1>1, HoldsWhole DEF dump
  <2> QED
    BY <1>4, <1>6, <2>1, <2>2, <2>3
<1>10. ASSUME NEW p \in {3, 4, 5, 7, 9, 10, 11, 12}
       PROVE  Holds(l[p], Vendor(d), sec, f[p + 1])
  <2>1. /\ SectionField(d, f[4]) = "soc_id" /\ SectionField(d, f[5]) = "subsystem_id"
        /\ SectionField(d, f[6]) = "module_id" /\ SectionField(d, f[8]) = "submodule_id"
        /\ SectionField(d, f[10]) = "dev_id" /\ SectionField(d, f[11]) = "dev_id"
        /\ SectionField(d, f[12]) = "err_type" /\ SectionField(d, f[13]) = "err_severity"
    BY <1>4, <1>f
  <2>2. l[p] = If(SectionField(d, f[p + 1]), p)
    BY <1>7, <2>1
  <2>3. SectionField(d, f[p + 1]) \in Optional(d) /\ ~Blank(SectionField(d, f[p + 1]))
    BY <1>5, <2>1
  <2>4. f[p + 1] # "regs_dump"
    BY <1>4
  <2> QED
    BY <1>1, <2>2, <2>3, <2>4, HoldsIf
<1>11. ASSUME NEW p \in 1..13 PROVE BoundOnce(l, 13, p, Vendor(d), sec, f[p + 1])
  <2>1. CASE p \in {2, 6, 8}
    BY <1>1, <1>4, <2>1, MeantIs DEF BoundOnce
  <2>2. CASE p \notin {2, 6, 8}
    <3>1. Holds(l[p], Vendor(d), sec, f[p + 1])
      BY <1>9, <1>10, <2>2
    <3> QED
      BY <1>8, <2>2, <3>1 DEF BoundOnce
  <2> QED
    BY <2>1, <2>2
<1>12. \A k \in 1..13 : l[k].param \in 1..13
  BY <1>8
<1>13. f = Desc(Vendor(d)).fields /\ Len(f) = 13 + 1 /\ Len(l) = 13 /\ 13 \in Nat
  BY <1>1, <1>4, <1>6
<1>14. Fits(Vendor(d), sec, l)
  BY <1>11, <1>12, <1>13, FitsBy, Zenon
<1> QED
  BY <1>14 DEF l

(* A list that binds the columns in their order.                           *)
LEMMA FitsInOrder ==
    ASSUME NEW i, NEW sec, NEW l, NEW f, NEW n \in Nat,
           f = Desc(i).fields, Len(f) = n + 1, Len(l) = n,
           \A k \in 1..n : l[k].param = k,
           \A k \in 1..n : Holds(l[k], i, sec, f[k + 1])
    PROVE  Fits(i, sec, l)
<1>1. \A k \in 1..n : l[k].param \in 1..n
  OBVIOUS
<1>2. ASSUME NEW p \in 1..n PROVE BoundOnce(l, n, p, i, sec, f[p + 1])
  BY DEF BoundOnce
<1> QED
  BY <1>1, <1>2, FitsBy, Zenon

(* nvidia_ns_decode fits its table: without registers their parameter is   *)
(* bound to NULL, so that no earlier section shows through.                *)
LEMMA Fits11 ==
    ASSUME NEW sec, "cper_sec" \in sec PROVE Fits(Vendor(11), sec, nvidia_ns_decode(sec))
<1> DEFINE f == nvidia_ns_fields
           l == nvidia_ns_decode(sec)
           data == IF "reg_data" \in sec THEN <<"reg_data">> ELSE << >>
<1>1. 11 \in 1..13 /\ f = Desc(Vendor(11)).fields
  BY VendorDesc, Decoders DEF Decoder
<1>2. Len(f) = 11 /\ f[10] = "reg_data" /\ \A k \in 1..10 : f[k + 1] # "regs_dump"
  BY DEF nvidia_ns_fields
<1>3. /\ Len(l) = 10 /\ l[9] = [valid |-> "", param |-> 9, src |-> data]
      /\ \A k \in 1..10 : k # 9 => l[k] = Always(f[k + 1], k)
  BY DEF nvidia_ns_decode, nvidia_ns_fields
<1>l. Len(l) = 10
  BY DEF nvidia_ns_decode
<1>4. \A k \in 1..10 : SectionField(11, f[k + 1]) = f[k + 1]
  BY FieldIs DEF nvidia_ns_fields
<1>5. \A k \in 1..10 : k # 9 => f[k + 1] \notin Optional(11)
  BY DEF nvidia_ns_fields, Optional
<1>6. Optional(11) = {"reg_data"}
  BY DEF Optional
<1> HIDE DEF f, l
<1>7. ASSUME NEW k \in 1..10 PROVE l[k].param = k /\ Holds(l[k], Vendor(11), sec, f[k + 1])
  <2>1. CASE k # 9
    <3>1. l[k] = Always(SectionField(11, f[k + 1]), k)
      BY <1>3, <1>4, <2>1
    <3>2. f[k + 1] # "regs_dump" /\ SectionField(11, f[k + 1]) \notin Optional(11)
      BY <1>2, <1>4, <1>5, <2>1
    <3>3. Holds(l[k], Vendor(11), sec, f[k + 1])
      BY <1>1, <3>1, <3>2, HoldsAlways
    <3> QED
      BY <3>1, <3>3, BindIs
  <2>2. CASE k = 9
    <3>1. Meant(Vendor(11), f[10], sec) = data
      BY <1>1, <1>2, <1>4, <1>6, MeantIs
    <3> HIDE DEF data
    <3>2. l[9] = Whole(9, data)
      BY <1>3 DEF Whole
    <3>3. Holds(l[9], Vendor(11), sec, f[10]) /\ l[9].param = 9
      BY <3>1, <3>2, BindIs DEF Holds
    <3> QED
      BY <2>2, <3>3
  <2> QED
    BY <2>1, <2>2
<1>8. Len(f) = 10 + 1 /\ 10 \in Nat /\ Len(l) = 10
  BY <1>2, <1>l
<1>a. \A k \in 1..10 : l[k].param = k
  BY <1>7
<1>b. \A k \in 1..10 : Holds(l[k], Vendor(11), sec, f[k + 1])
  BY <1>7
<1>c. f = Desc(Vendor(11)).fields
  BY <1>1
<1>9. Fits(Vendor(11), sec, l)
  BY <1>8, <1>a, <1>b, <1>c, FitsInOrder, Zenon
<1> QED
  BY <1>9 DEF l

(* The decoder of Vera sections binds every column.                        *)
LEMMA Fits12 == ASSUME NEW sec PROVE Fits(Vendor(12), sec, nvidia_vera_ns_decode)
<1> DEFINE f == nvidia_vera_ns_fields
           l == nvidia_vera_ns_decode
<1>1. 12 \in 1..13 /\ f = Desc(Vendor(12)).fields
  BY VendorDesc, Decoders DEF Decoder
<1>2. Len(f) = 13 /\ \A k \in 1..12 : f[k + 1] # "regs_dump"
  BY DEF nvidia_vera_ns_fields
<1>3. Len(l) = 12 /\ \A k \in 1..12 : l[k] = Always(f[k + 1], k)
  BY DEF nvidia_vera_ns_decode, nvidia_vera_ns_fields
<1>4. \A k \in 1..12 : SectionField(12, f[k + 1]) = f[k + 1]
  BY FieldIs DEF nvidia_vera_ns_fields
<1>5. Optional(12) = {}
  BY DEF Optional
<1> HIDE DEF f, l
<1>6. ASSUME NEW k \in 1..12 PROVE l[k].param = k /\ Holds(l[k], Vendor(12), sec, f[k + 1])
  BY <1>1, <1>2, <1>3, <1>4, <1>5, HoldsAlways, BindIs
<1>7. Len(f) = 12 + 1 /\ 12 \in Nat /\ Len(l) = 12
  BY <1>2, <1>3
<1>a. \A k \in 1..12 : l[k].param = k
  BY <1>6
<1>b. \A k \in 1..12 : Holds(l[k], Vendor(12), sec, f[k + 1])
  BY <1>6
<1>c. f = Desc(Vendor(12)).fields
  BY <1>1
<1>8. Fits(Vendor(12), sec, l)
  BY <1>7, <1>a, <1>b, <1>c, FitsInOrder, Zenon
<1> QED
  BY <1>8 DEF l

(* record_yitian_ddr_reg_dump_event binds every column.                    *)
LEMMA Fits13 == ASSUME NEW sec PROVE Fits(Vendor(13), sec, record_yitian_ddr_reg_dump_event)
<1> DEFINE f == yitian_ddr_payload_fields
           l == record_yitian_ddr_reg_dump_event
<1>1. 13 \in 1..13 /\ f = Desc(Vendor(13)).fields
  BY VendorDesc, Decoders DEF Decoder
<1>2. /\ Len(f) = 4 /\ f[2] = "timestamp" /\ f[3] = "address" /\ f[4] = "regs_dump"
      /\ f[2] # "regs_dump" /\ f[3] # "regs_dump"
  BY DEF yitian_ddr_payload_fields
<1>3. /\ Len(l) = 3
      /\ l[1] = Always("timestamp", 1) /\ l[2] = Always("address", 2)
      /\ l[3] = Always("regs_dump", 3)
  BY DEF record_yitian_ddr_reg_dump_event
<1>4. SectionField(13, f[2]) = "timestamp" /\ SectionField(13, f[3]) = "address"
  BY <1>2, FieldIs
<1>5. Optional(13) = {} /\ Registers(13, sec) = <<"regs_dump">>
  BY DEF Optional, Registers
<1> HIDE DEF f, l
<1>6. Holds(l[1], Vendor(13), sec, f[2]) /\ Holds(l[2], Vendor(13), sec, f[3])
  BY <1>1, <1>2, <1>3, <1>4, <1>5, HoldsAlways
<1>7. Holds(l[3], Vendor(13), sec, f[4])
  BY <1>1, <1>2, <1>3, <1>5, MeantIs, BindIs DEF Holds
<1>8. ASSUME NEW k \in 1..3 PROVE l[k].param = k /\ Holds(l[k], Vendor(13), sec, f[k + 1])
  BY <1>3, <1>6, <1>7, BindIs
<1>9. Len(f) = 3 + 1 /\ 3 \in Nat /\ Len(l) = 3
  BY <1>2, <1>3
<1>a. \A k \in 1..3 : l[k].param = k
  BY <1>8
<1>b. \A k \in 1..3 : Holds(l[k], Vendor(13), sec, f[k + 1])
  BY <1>8
<1>c. f = Desc(Vendor(13)).fields
  BY <1>1
<1>10. Fits(Vendor(13), sec, l)
  BY <1>9, <1>a, <1>b, <1>c, FitsInOrder, Zenon
<1> QED
  BY <1>10 DEF l

(* JaguarMicro's functions write the registers of their structures.        *)
LEMMA Payloads ==
    ASSUME NEW sec
    PROVE  /\ Registers(6, sec) = decode_jm_payload0_err_regs \o decode_jm_common_sec_tail(sec)
           /\ Registers(7, sec) = decode_jm_payload1_err_regs \o decode_jm_common_sec_tail(sec)
           /\ Registers(8, sec) = decode_jm_payload2_err_regs \o decode_jm_common_sec_tail(sec)
           /\ Registers(9, sec) = decode_jm_payload5_err_regs \o decode_jm_common_sec_tail(sec)
           /\ Registers(10, sec) = decode_jm_payload6_err_regs \o decode_jm_common_sec_tail(sec)
<1>1. jm_payload0_type_sec = decode_jm_payload0_err_regs
  BY DEF jm_payload0_type_sec, decode_jm_payload0_err_regs
<1>2. jm_payload1_type_sec = decode_jm_payload1_err_regs
  BY DEF jm_payload1_type_sec, decode_jm_payload1_err_regs
<1>3. jm_payload2_type_sec = decode_jm_payload2_err_regs
  BY DEF jm_payload2_type_sec, decode_jm_payload2_err_regs
<1>4. jm_payload5_type_sec = decode_jm_payload5_err_regs
  BY DEF jm_payload5_type_sec, decode_jm_payload5_err_regs
<1>5. jm_payload6_type_sec = decode_jm_payload6_err_regs
  BY DEF jm_payload6_type_sec, decode_jm_payload6_err_regs
<1> QED
  BY <1>1, <1>2, <1>3, <1>4, <1>5 DEF Registers, decode_jm_common_sec_tail

(* Every vendor decoder that accepts a section fits its table.             *)
LEMMA VendorFits ==
    ASSUME NEW d \in 1..13, NEW sec, decode(d, sec) # << >>
    PROVE  Fits(Vendor(d), sec, decode(d, sec))
<1>1. CASE d \in {1, 2, 3, 4, 5}
  <2>1. CASE d = 1
    BY <2>1 DEF decode
  <2>2. CASE d = 2
    <3>1. decode(d, sec) = decode_hip08_oem_type1_error(sec)
      BY <2>2 DEF decode
    <3>2. sec # {}
      BY <3>1 DEF decode_hip08_oem_type1_error
    <3> QED
      BY <2>2, <3>1, <3>2, Fits2, Zenon
  <2>3. CASE d = 3
    <3>1. decode(d, sec) = decode_hip08_oem_type2_error(sec)
      BY <2>3 DEF decode
    <3>2. sec # {}
      BY <3>1 DEF decode_hip08_oem_type2_error
    <3> QED
      BY <2>3, <3>1, <3>2, Fits3, Zenon
  <2>4. CASE d = 4
    <3>1. decode(d, sec) = decode_hip08_pcie_local_error(sec)
      BY <2>4 DEF decode
    <3>2. sec # {}
      BY <3>1 DEF decode_hip08_pcie_local_error
    <3> QED
      BY <2>4, <3>1, <3>2, Fits4, Zenon
  <2>5. CASE d = 5
    <3>1. decode(d, sec) = decode_hisi_common_section(sec)
      BY <2>5 DEF decode
    <3> QED
      BY <2>5, <3>1, Fits5, Zenon
  <2> QED
    BY <1>1, <2>1, <2>2, <2>3, <2>4, <2>5
<1>2. CASE d \in {6, 7, 8, 9, 10}
  <2>1. \E regs : /\ decode(d, sec) = decode_jm_oem_type_error(regs, sec)
                  /\ Registers(d, sec) = regs \o decode_jm_common_sec_tail(sec)
    <3>1. d = 6 => decode(d, sec) = decode_jm_oem_type_error(decode_jm_payload0_err_regs, sec)
      BY DEF decode
    <3>2. d = 7 => decode(d, sec) = decode_jm_oem_type_error(decode_jm_payload1_err_regs, sec)
      BY DEF decode
    <3>3. d = 8 => decode(d, sec) = decode_jm_oem_type_error(decode_jm_payload2_err_regs, sec)
      BY DEF decode
    <3>4. d = 9 => decode(d, sec) = decode_jm_oem_type_error(decode_jm_payload5_err_regs, sec)
      BY DEF decode
    <3>5. d = 10 => decode(d, sec) = decode_jm_oem_type_error(decode_jm_payload6_err_regs, sec)
      BY DEF decode
    <3> QED
      BY <1>2, <3>1, <3>2, <3>3, <3>4, <3>5, Payloads, Zenon
  <2>2. PICK regs : /\ decode(d, sec) = decode_jm_oem_type_error(regs, sec)
                    /\ Registers(d, sec) = regs \o decode_jm_common_sec_tail(sec)
    BY <2>1
  <2>3. d \in 6..10
    BY <1>2
  <2> QED
    BY <2>2, <2>3, FitsJM, Zenon
<1>3. CASE d \in {11, 12, 13}
  <2>1. CASE d = 11
    <3>1. decode(d, sec) = nvidia_ns_decode(sec)
      BY <2>1 DEF decode
    <3>2. "cper_sec" \in sec
      BY <3>1 DEF nvidia_ns_decode
    <3> QED
      BY <2>1, <3>1, <3>2, Fits11, Zenon
  <2>2. CASE d = 12
    <3>1. decode(d, sec) = nvidia_vera_ns_decode
      BY <2>2 DEF decode
    <3> QED
      BY <2>2, <3>1, Fits12, Zenon
  <2>3. CASE d = 13
    <3>1. decode(d, sec) = record_yitian_ddr_reg_dump_event
      BY <2>3 DEF decode, decode_yitian710_ns_error
    <3> QED
      BY <2>3, <3>1, Fits13, Zenon
  <2> QED
    BY <1>3, <2>1, <2>2, <2>3
<1> QED
  BY <1>1, <1>2, <1>3

-----------------------------------------------------------------------------
(* Then sqlite's bindings, which stay with a statement: a list of binds    *)
(* that fits leaves no earlier event in the row.                           *)

(* The ras_store_* functions fit their tables.                             *)
LEMMA CoreFits == ASSUME NEW i \in 1..NCore, NEW sec PROVE Fits(i, sec, CoreBinds(i))
<1>1. NCore = 19
  BY DEF NCore, CoreTables
<1> DEFINE name == CoreTables[i].name
           fields == CoreTables[i].fields
           binds == CoreTables[i].binds
<1>3. TableMatches(name, fields, binds)
  BY <1>1, CoreMatch
<1>4. IsCore(i) /\ i \in Nat
  BY <1>1 DEF IsCore
<1>5. Desc(i).name = name /\ Desc(i).fields = fields /\ Desc(i).binds = binds
  BY <1>4 DEF Desc
<1> HIDE DEF name, fields, binds
<1> DEFINE l == CoreBinds(i)
           n == Len(binds)
<1>6. n \in Nat /\ Len(fields) = n + 1 /\ \A p \in 1..n : binds[p] = FieldOf(name, fields[p + 1])
  BY <1>3 DEF TableMatches
<1>7. Len(l) = n /\ \A k \in 1..n : l[k] = Always(binds[k], k)
  BY <1>5, <1>6 DEF CoreBinds
<1> HIDE DEF l, n
<1>8. ASSUME NEW k \in 1..n PROVE l[k].param = k /\ Holds(l[k], i, sec, fields[k + 1])
  <2>1. Meant(i, fields[k + 1], sec) = <<FieldOf(name, fields[k + 1])>>
    BY <1>4, <1>5 DEF Meant
  <2>2. l[k].src = <<FieldOf(name, fields[k + 1])>>
    BY <1>6, <1>7, BindIs
  <2>3. IsMade(l[k], sec) /\ l[k].param = k
    BY <1>7, BindIs
  <2> QED
    BY <2>1, <2>2, <2>3 DEF Holds
<1>a. \A k \in 1..n : l[k].param = k
  BY <1>8
<1>b. \A k \in 1..n : Holds(l[k], i, sec, fields[k + 1])
  BY <1>8
<1>9. Fits(i, sec, l)
  BY <1>5, <1>6, <1>7, <1>a, <1>b, FitsInOrder, Zenon
<1> QED
  BY <1>9 DEF l

-----------------------------------------------------------------------------
(* A row that holds what it is meant to, for an event and its section.     *)
RowOwn(i, cells, sec, ev) ==
    /\ DOMAIN cells \subseteq Params(i)
    /\ \A p \in Params(i) :
           LET column == Desc(i).fields[p + 1]
               meant == Meant(i, column, sec)
           IN  \/ Excepted(i, column, sec)
               \/ meant = << >> /\ p \notin DOMAIN cells
               \/ meant # << >> /\ p \in DOMAIN cells /\ cells[p] = [src |-> meant, ev |-> ev]

(* A statement that is not cleared has all its parameters bound again, one *)
(* that is cleared starts with none.                                       *)
LEMMA BindOwn ==
    ASSUME NEW i, NEW sec, NEW binds, NEW ev, NEW old, Fits(i, sec, binds),
           DOMAIN old \subseteq Params(i), Clears(i) => DOMAIN old = {}
    PROVE  RowOwn(i, Bind(old, binds, sec, ev), sec, ev)
<1> DEFINE made == {k \in 1..Len(binds) : IsMade(binds[k], sec)}
           params == {binds[k].param : k \in made}
           final(p) == binds[CHOOSE k \in made : /\ binds[k].param = p
                                                 /\ \A j \in made : binds[j].param = p => j <= k]
           set == {p \in params : final(p).src # << >>} \cup (DOMAIN old \ params)
           cells == Bind(old, binds, sec, ev)
<1>1. cells = [p \in set |-> IF p \in params THEN [src |-> final(p).src, ev |-> ev] ELSE old[p]]
  BY DEF Bind
<1>2. params \subseteq Params(i)
  BY DEF Fits
<1>3. DOMAIN cells = set
  BY <1>1
<1>4. ASSUME NEW p \in Params(i), NEW k \in 1..Len(binds), binds[k].param = p,
             \A j \in 1..Len(binds) : binds[j].param = p => j = k,
             NEW column, Holds(binds[k], i, sec, column)
      PROVE  LET meant == Meant(i, column, sec)
             IN  \/ meant = << >> /\ p \notin DOMAIN cells
                 \/ /\ meant # << >> /\ p \in DOMAIN cells
                    /\ cells[p] = [src |-> meant, ev |-> ev]
  <2>1. Len(binds) \in Nat
    BY DEF Fits
  <2>2. CASE IsMade(binds[k], sec)
    <3>1. k \in made /\ p \in params
      BY <1>4, <2>2
    <3>2. \A j \in made : binds[j].param = p => j <= k
      BY <1>4, <2>1
    <3>3. final(p) = binds[k]
      BY <1>4, <3>1, <3>2
    <3>4. final(p).src = Meant(i, column, sec)
      BY <1>4, <2>2, <3>3 DEF Holds
    <3> HIDE DEF made, final, cells
    <3>5. p \in set <=> Meant(i, column, sec) # << >>
      BY <3>1, <3>4
    <3>6. p \in set => cells[p] = [src |-> Meant(i, column, sec), ev |-> ev]
      BY <1>1, <3>1, <3>4
    <3> QED
      BY <1>3, <3>5, <3>6
  <2>3. CASE ~IsMade(binds[k], sec)
    <3>1. Meant(i, column, sec) = << >> /\ Clears(i)
      BY <1>4, <2>3 DEF Holds
    <3>2. p \notin params
      BY <1>4, <2>3
    <3>3. p \notin set
      BY <3>1, <3>2
    <3> QED
      BY <1>3, <3>1, <3>3
  <2> QED
    BY <2>2, <2>3
<1>5. DOMAIN cells \subseteq Params(i)
  BY <1>2, <1>3
<1>6. ASSUME NEW p \in Params(i), ~Excepted(i, Desc(i).fields[p + 1], sec)
      PROVE  LET meant == Meant(i, Desc(i).fields[p + 1], sec)
             IN  \/ meant = << >> /\ p \notin DOMAIN cells
                 \/ /\ meant # << >> /\ p \in DOMAIN cells
                    /\ cells[p] = [src |-> meant, ev |-> ev]
  <2>1. PICK k \in 1..Len(binds) :
            /\ binds[k].param = p /\ \A j \in 1..Len(binds) : binds[j].param = p => j = k
            /\ Holds(binds[k], i, sec, Desc(i).fields[p + 1])
    BY <1>6 DEF Fits
  <2> QED
    BY <1>4, <2>1
<1> HIDE DEF cells
<1>7. RowOwn(i, cells, sec, ev)
  BY <1>5, <1>6 DEF RowOwn
<1> QED
  BY <1>7 DEF cells

(* What a core column is meant for does not depend on the section.         *)
LEMMA CoreOwn ==
    ASSUME NEW i \in 1..NCore, NEW cells, NEW sec, NEW other, NEW ev, RowOwn(i, cells, sec, ev)
    PROVE  RowOwn(i, cells, other, ev)
<1>0. NCore = 19
  BY DEF NCore, CoreTables
<1>1. IsCore(i) /\ i - NCore <= 0
  BY <1>0 DEF IsCore
<1>2. \A column : /\ Meant(i, column, other) = Meant(i, column, sec)
                  /\ Excepted(i, column, sec) <=> Excepted(i, column, other)
  BY <1>1 DEF Meant, Excepted
<1> QED
  BY <1>2 DEF RowOwn

-----------------------------------------------------------------------------
(* What is left in the statements.                                         *)
BoundInv ==
    /\ bound = [i \in Stmts |-> bound[i]]
    /\ \A i \in Stmts : /\ DOMAIN bound[i] \subseteq Params(i)
                        /\ Clears(i) => DOMAIN bound[i] = {}

(* The row of a statement whose binds fit.                                 *)
IsRow(r, sec, ev) == r.stmt \in Stmts /\ RowOwn(r.stmt, r.cells, sec, ev)

(* The row that one statement adds holds what it is meant to.              *)
LEMMA StoredOwn ==
    ASSUME BoundInv, NEW i \in Stmts, NEW sec, NEW binds, NEW ev,
           binds # << >> => Fits(i, sec, binds)
    PROVE  \/ Stored(i, binds, sec, ev) = << >>
           \/ \E r : /\ Stored(i, binds, sec, ev) = <<r>> /\ IsRow(r, sec, ev)
                     /\ r.stmt = i
<1>1. CASE ~(stmt[i] = "insert" /\ binds # << >>)
  BY <1>1 DEF Stored
<1>2. CASE stmt[i] = "insert" /\ binds # << >>
  <2> DEFINE r == [stmt |-> i, cells |-> Bind(bound[i], binds, sec, ev)]
  <2>1. Stored(i, binds, sec, ev) = <<r>>
    BY <1>2 DEF Stored
  <2>2. RowOwn(i, Bind(bound[i], binds, sec, ev), sec, ev)
    BY <1>2, BindOwn DEF BoundInv
  <2>3. r.stmt = i /\ r.cells = Bind(bound[i], binds, sec, ev)
    OBVIOUS
  <2> HIDE DEF r
  <2> QED
    BY <2>1, <2>2, <2>3 DEF IsRow
<1> QED
  BY <1>1, <1>2

(* The rows of an event keep what is bound.                                *)
LEMMA RowsKeep ==
    ASSUME BoundInv, NEW added, AfterRows(added), NEW sec, NEW ev,
           \A r \in RangeOf(added) : IsRow(r, sec, ev)
    PROVE  BoundInv'
<1> DEFINE row(i) == CHOOSE r \in RangeOf(added) : r.stmt = i
<1>1. bound' = [i \in Stmts |-> IF \E r \in RangeOf(added) : r.stmt = i
                                THEN BoundAfter(i, row(i)) ELSE bound[i]]
  BY DEF AfterRows
<1>2. ASSUME NEW i \in Stmts, \E r \in RangeOf(added) : r.stmt = i
      PROVE  DOMAIN row(i).cells \subseteq Params(i)
  <2>1. row(i) \in RangeOf(added) /\ row(i).stmt = i
    BY <1>2
  <2> QED
    BY <2>1 DEF IsRow, RowOwn
<1>3. ASSUME NEW i \in Stmts
      PROVE  /\ DOMAIN bound'[i] \subseteq Params(i)
             /\ Clears(i) => DOMAIN bound'[i] = {}
  <2>1. CASE \E r \in RangeOf(added) : r.stmt = i
    <3>1. bound'[i] = BoundAfter(i, row(i))
      BY <1>1, <2>1
    <3>2. DOMAIN row(i).cells \subseteq Params(i)
      BY <1>2, <2>1
    <3>3. CASE Clears(i)
      <4>1. bound'[i] = << >>
        BY <3>1, <3>3 DEF BoundAfter, Clears
      <4> QED
        BY <4>1
    <3>4. CASE ~Clears(i)
      <4>1. bound'[i] = row(i).cells
        BY <3>1, <3>4 DEF BoundAfter, Clears
      <4> QED
        BY <3>2, <3>4, <4>1
    <3> QED
      BY <3>3, <3>4
  <2>2. CASE ~\E r \in RangeOf(added) : r.stmt = i
    BY <1>1, <2>2 DEF BoundInv
  <2> QED
    BY <2>1, <2>2
<1>4. bound' = [i \in Stmts |-> bound'[i]]
  BY <1>1
<1> QED
  BY <1>3, <1>4 DEF BoundInv

(* The rows of a list of one or two.                                       *)
LEMMA Ranges ==
    /\ RangeOf(<< >>) = {}
    /\ \A x : RangeOf(<<x>>) = {x}
    /\ \A x, y : RangeOf(<<x>> \o <<y>>) = {x, y}
<1>1. RangeOf(<< >>) = {}
  BY DEF RangeOf
<1>2. \A x : RangeOf(<<x>>) = {x}
  BY DEF RangeOf
<1>3. ASSUME NEW x, NEW y PROVE RangeOf(<<x>> \o <<y>>) = {x, y}
  <2> DEFINE l == <<x>> \o <<y>>
  <2>1. Len(l) = 2 /\ l[1] = x /\ l[2] = y
    OBVIOUS
  <2> HIDE DEF l
  <2>2. RangeOf(l) = {x, y}
    BY <2>1 DEF RangeOf
  <2> QED
    BY <2>2 DEF l
<1> QED
  BY <1>1, <1>2, <1>3

(* No row, nothing bound.                                                  *)
LEMMA OwnStarts == Quiet(bound, rows, last, evno, reads) => BoundInv /\ RowsOwn
<1> SUFFICES ASSUME Quiet(bound, rows, last, evno, reads) PROVE BoundInv /\ RowsOwn
  OBVIOUS
<1>1. bound = [i \in Stmts |-> << >>] /\ rows = << >>
  BY DEF Quiet
<1>2. BoundInv
  BY <1>1 DEF BoundInv
<1>3. RowsOwn
  BY <1>1, Ranges DEF RowsOwn
<1> QED
  BY <1>2, <1>3

(* Nothing has been added: the rows of no event are right.                 *)
LEMMA NoRows == rows' = << >> => RowsOwn'
<1> SUFFICES ASSUME rows' = << >> PROVE RowsOwn'
  OBVIOUS
<1>1. RangeOf(rows') = {}
  BY Ranges
<1> QED
  BY <1>1 DEF RowsOwn

(* An event whose rows are right.                                          *)
LEMMA EventOwn ==
    ASSUME BoundInv, NEW added, AfterRows(added),
           \A r \in RangeOf(added) : IsRow(r, last'.sec, evno')
    PROVE  BoundInv' /\ RowsOwn'
<1>1. BoundInv'
  BY RowsKeep
<1>2. rows' = added
  BY DEF AfterRows
<1>3. RowsOwn'
  BY <1>2 DEF RowsOwn, IsRow, RowOwn, Params
<1> QED
  BY <1>1, <1>3

(* A non-standard section: the vendor's row and the generic one.           *)
LEMMA SectionOwn ==
    ASSUME BoundInv, NEW d \in 1..Len(ras_ns_ev_dec_list), NEW sec \in Sections(d),
           ras_non_standard_event_handler(d, sec)
    PROVE  BoundInv' /\ RowsOwn'
<1> DEFINE ev == 1 - evno
           own == Stored(Vendor(d), decode(d, sec), sec, ev)
           generic == Stored(NonStandardRecord, CoreBinds(NonStandardRecord), {}, ev)
<1>0. last'.sec = sec /\ evno' = ev
  BY DEF ras_non_standard_event_handler, SectionIn
<1>1. CASE store_jm_err_data_dies(d)
  <2>1. AfterRows(<< >>) /\ RangeOf(<< >>) = {}
    BY <1>1, Ranges DEF ras_non_standard_event_handler
  <2> QED
    BY <2>1, EventOwn
<1>2. d \in 1..13 /\ Vendor(d) \in Stmts
  <2>1. Len(ras_ns_ev_dec_list) = 13
    BY DEF ras_ns_ev_dec_list
  <2> QED
    BY <2>1, VendorDesc
<1>3. NonStandardRecord \in 1..NCore /\ NonStandardRecord \in Stmts
  BY GenericTable, Tables DEF Stmts
<1>4. own = << >> \/ \E r : own = <<r>> /\ IsRow(r, sec, ev)
  <2>1. decode(d, sec) # << >> => Fits(Vendor(d), sec, decode(d, sec))
    BY <1>2, VendorFits
  <2> QED
    BY <1>2, <2>1, StoredOwn
<1>5. generic = << >> \/ \E r : generic = <<r>> /\ IsRow(r, sec, ev)
  <2>1. Fits(NonStandardRecord, {}, CoreBinds(NonStandardRecord))
    BY <1>3, CoreFits
  <2>2. \/ generic = << >>
        \/ \E r : generic = <<r>> /\ IsRow(r, {}, ev) /\ r.stmt = NonStandardRecord
    BY <1>3, <2>1, StoredOwn
  <2>3. ASSUME NEW r, IsRow(r, {}, ev), r.stmt = NonStandardRecord PROVE IsRow(r, sec, ev)
    BY <1>3, <2>3, CoreOwn DEF IsRow
  <2> QED
    BY <2>2, <2>3
<1> HIDE DEF own, generic, ev
<1>6. \A r \in RangeOf(own \o generic) : IsRow(r, sec, ev)
  <2>1. CASE own = << >> /\ generic = << >>
    <3>1. own \o generic = << >>
      BY <2>1
    <3> QED
      BY <3>1, Ranges
  <2>2. ASSUME NEW r, own = <<r>>, IsRow(r, sec, ev), generic = << >>
        PROVE  \A x \in RangeOf(own \o generic) : IsRow(x, sec, ev)
    <3>1. own \o generic = <<r>>
      BY <2>2
    <3> QED
      BY <2>2, <3>1, Ranges
  <2>3. ASSUME NEW r, generic = <<r>>, IsRow(r, sec, ev), own = << >>
        PROVE  \A x \in RangeOf(own \o generic) : IsRow(x, sec, ev)
    <3>1. own \o generic = <<r>>
      BY <2>3
    <3> QED
      BY <2>3, <3>1, Ranges
  <2>4. ASSUME NEW r, own = <<r>>, IsRow(r, sec, ev), NEW g, generic = <<g>>, IsRow(g, sec, ev)
        PROVE  \A x \in RangeOf(own \o generic) : IsRow(x, sec, ev)
    BY <2>4, Ranges
  <2> QED
    BY <1>4, <1>5, <2>1, <2>2, <2>3, <2>4
<1>7. CASE ~store_jm_err_data_dies(d)
  <2>1. AfterRows(own \o generic)
    BY <1>7 DEF ras_non_standard_event_handler, own, generic, ev
  <2>2. evno' = ev
    BY <1>0 DEF ev
  <2> QED
    BY <1>0, <1>6, <2>1, <2>2, EventOwn
<1> QED
  BY <1>1, <1>7

(* Any other event.                                                        *)
LEMMA RecordOwn ==
    ASSUME BoundInv, NEW i \in 1..NCore, ras_store(i) PROVE BoundInv' /\ RowsOwn'
<1> DEFINE ev == 1 - evno
           added == Stored(i, CoreBinds(i), {}, ev)
<1>1. AfterRows(added) /\ last'.sec = {} /\ evno' = ev
  BY DEF ras_store, NoEvent
<1>2. i \in Stmts
  BY Tables DEF Stmts
<1>3. added = << >> \/ \E r : added = <<r>> /\ IsRow(r, {}, ev)
  BY <1>2, CoreFits, StoredOwn
<1> HIDE DEF added, ev
<1>4. \A r \in RangeOf(added) : IsRow(r, {}, ev)
  BY <1>3, Ranges
<1> QED
  BY <1>1, <1>4, EventOwn

(* Every column of every row holds the field it is meant for, from the     *)
(* event the row was added for, and is NULL exactly when the section does  *)
(* not have that field: over any sequence of events nothing is left of an  *)
(* earlier one, no parameter is skipped, shifted or out of range.  (the    *)
(* ras_store_* functions, the vendor decoders, step_vendor_data_tab)       *)
THEOREM EveryRowIsItsEvents == Spec => []RowsOwn
<1>1. Init => BoundInv /\ RowsOwn
  BY OwnStarts DEF Init
<1>2. BoundInv /\ RowsOwn /\ [Next]_vars => BoundInv' /\ RowsOwn'
  <2> SUFFICES ASSUME BoundInv, RowsOwn, [Next]_vars PROVE BoundInv' /\ RowsOwn'
    OBVIOUS
  <2>1. CASE UNCHANGED vars
    BY <2>1 DEF vars, eventvars, BoundInv, RowsOwn
  <2>2. CASE Quiet(bound', rows', last', evno', reads')
    <3>1. bound' = [i \in Stmts |-> << >>] /\ rows' = << >>
      BY <2>2 DEF Quiet
    <3>2. BoundInv'
      BY <3>1 DEF BoundInv
    <3> QED
      BY <3>1, <3>2, NoRows
  <2>3. ASSUME NEW d \in 1..Len(ras_ns_ev_dec_list), NEW sec \in Sections(d),
               ras_non_standard_event_handler(d, sec)
        PROVE  BoundInv' /\ RowsOwn'
    BY <2>3, SectionOwn
  <2>4. ASSUME NEW i \in 1..NCore, ras_store(i) PROVE BoundInv' /\ RowsOwn'
    BY <2>4, RecordOwn
  <2>5. CASE Return
    <3>1. bound' = bound /\ rows' = << >>
      BY <2>5 DEF Return
    <3>2. BoundInv'
      BY <3>1 DEF BoundInv
    <3> QED
      BY <3>1, <3>2, NoRows
  <2> QED
    BY <2>1, <2>2, <2>3, <2>4, <2>5 DEF Next
<1>3. Spec => [](BoundInv /\ RowsOwn)
  BY <1>1, <1>2, PTL DEF Spec
<1> QED
  BY <1>3, PTL

-----------------------------------------------------------------------------
(* The parser of Vera sections.                                            *)

(* A difference of sizes that does not go below zero does not wrap.        *)
LEMMA MinusExact == ASSUME NEW a \in 0..SIZE_MAX, NEW b \in 0..a PROVE Minus(a, b) = a - b
<1>1. SIZE_MAX \in Nat /\ a - b \in 0..SIZE_MAX
  BY VeraAssumption
<1> DEFINE n == a - b
           M == SIZE_MAX + 1
<1>2. n \in Nat /\ M \in Nat /\ n < M /\ M > 0
  BY <1>1
<1> HIDE DEF n, M
<1>3. n % M = n
  BY <1>2
<1> QED
  BY <1>3 DEF Minus, n, M

(* A context that has been accepted, in a section of len bytes: its format *)
(* is known and its data end inside.                                       *)
Inside(ctx, len) ==
    /\ ctx.format \in 0..4 /\ ctx.data \in Nat /\ ctx.data_size \in Nat
    /\ ctx.data + ctx.data_size <= len

(* What the loop over the contexts keeps.                                  *)
ParsedOK(p, len) ==
    /\ p.ok \in BOOLEAN /\ p.offset \in 0..len
    /\ \A b \in p.reads : b.to <= len
    /\ p.ok => \A n \in 1..Len(p.contexts) : Inside(p.contexts[n], len)

Parsed == [ok : BOOLEAN, offset : Nat, contexts : Seq([format : Nat, data_size : Nat, data : Nat]),
           reads : SUBSET [from : Nat, to : Nat]]

(* A context that is accepted, and the step over it, end in the section.   *)
LEMMA StepInside ==
    ASSUME NEW ctx \in VeraContext, NEW rest \in Nat, ContextStep(ctx, rest) # 0
    PROVE  /\ ContextStep(ctx, rest) \in 0..rest
           /\ ctx.format \in 0..4
           /\ SizeofContext + ctx.data_size <= rest
  BY DEF ContextStep, ContextAdvance, VeraContext, SizeofContext

(* One context.                                                            *)
LEMMA NextInside ==
    ASSUME NEW len \in 0..SIZE_MAX, NEW p \in Parsed, ParsedOK(p, len), NEW ctx \in VeraContext
    PROVE  NextContext(p, len, ctx) \in Parsed /\ ParsedOK(NextContext(p, len, ctx), len)
<1> DEFINE rest == Minus(len, p.offset)
           step == ContextStep(ctx, rest)
           c == [format |-> ctx.format, data_size |-> ctx.data_size,
                 data |-> p.offset + SizeofContext]
           n == NextContext(p, len, ctx)
<1>1. rest = len - p.offset /\ rest \in Nat /\ p.offset \in Nat /\ len \in Nat
  BY MinusExact, VeraAssumption DEF ParsedOK
<1>2. p.contexts \in Seq([format : Nat, data_size : Nat, data : Nat])
  BY DEF Parsed
<1>3. CASE ~p.ok
  BY <1>3 DEF NextContext
<1>4. CASE p.ok /\ rest < SizeofContext
  <2>1. n = [p EXCEPT !.ok = FALSE]
    BY <1>4 DEF NextContext
  <2> HIDE DEF n
  <2>2. n \in Parsed /\ n.offset = p.offset /\ n.reads = p.reads /\ n.ok = FALSE
    BY <2>1 DEF Parsed
  <2> QED
    BY <2>2 DEF ParsedOK, n
<1>5. CASE p.ok /\ ~(rest < SizeofContext)
  <2>1. n = [ok |-> step # 0, offset |-> p.offset + step,
             contexts |-> Append(p.contexts, c),
             reads |-> p.reads \cup {Bytes(p.offset, SizeofContext)}]
    BY <1>5 DEF NextContext
  <2> HIDE DEF n
  <2>2. step = 0 \/ (step # 0 /\ step \in 0..rest)
    BY <1>1, StepInside
  <2>3. /\ step \in Nat /\ p.offset + step \in 0..len
    BY <1>1, <2>2
  <2>4. c \in [format : Nat, data_size : Nat, data : Nat]
    BY <1>1 DEF VeraContext, SizeofContext
  <2>5. /\ Bytes(p.offset, SizeofContext) \in [from : Nat, to : Nat]
        /\ Bytes(p.offset, SizeofContext).to <= len
    BY <1>1, <1>5 DEF Bytes, SizeofContext
  <2> HIDE DEF c, rest, step
  <2>6. Append(p.contexts, c) \in Seq([format : Nat, data_size : Nat, data : Nat])
    BY <1>2, <2>4
  <2>7. n \in Parsed
    BY <2>1, <2>3, <2>5, <2>6 DEF Parsed
  <2>8. \A b \in n.reads : b.to <= len
    BY <2>1, <2>5 DEF ParsedOK
  <2>9. ASSUME step # 0, NEW i \in 1..Len(n.contexts) PROVE Inside(n.contexts[i], len)
    <3>1. Len(p.contexts) \in Nat /\ n.contexts = Append(p.contexts, c)
      BY <1>2, <2>1
    <3>2. CASE i = Len(p.contexts) + 1
      <4>1. n.contexts[i] = c
        BY <1>2, <3>1, <3>2
      <4>2. ctx.format \in 0..4 /\ SizeofContext + ctx.data_size <= rest
        BY <1>1, <2>9, StepInside DEF step
      <4>3. Inside(c, len)
        BY <1>1, <4>2 DEF Inside, c, VeraContext, SizeofContext
      <4> QED
        BY <4>1, <4>3
    <3>3. CASE i # Len(p.contexts) + 1
      <4>1. i \in 1..Len(p.contexts)
        BY <1>2, <2>9, <3>1, <3>3
      <4>2. n.contexts[i] = p.contexts[i]
        BY <1>2, <3>1, <4>1
      <4> QED
        BY <1>5, <4>1, <4>2 DEF ParsedOK
    <3> QED
      BY <3>2, <3>3
  <2>10. n.offset \in 0..len /\ n.ok \in BOOLEAN /\ (n.ok => step # 0)
    BY <2>1, <2>3
  <2> QED
    BY <2>7, <2>8, <2>9, <2>10 DEF ParsedOK, n
<1> QED
  BY <1>3, <1>4, <1>5

(* Induction up to L, over a set that stands for the predicate.            *)
LEMMA Induction ==
    ASSUME NEW L \in Nat, NEW S, 0 \in S, \A n \in 0..L : n \in S /\ n < L => n + 1 \in S
    PROVE  \A n \in 0..L : n \in S
<1> DEFINE out == (0..L) \ S
<1> SUFFICES ASSUME out # {} PROVE FALSE
  OBVIOUS
<1>1. out \in SUBSET Nat
  OBVIOUS
<1>2. PICK x \in out : \A y \in out : x <= y
  BY <1>1, Smallest
<1>3. x # 0 /\ x - 1 \in 0..L /\ x \in 0..L
  BY <1>2
<1>4. x - 1 \in S
  BY <1>2, <1>3
<1>5. (x - 1) + 1 \in S
  BY <1>3, <1>4
<1> QED
  BY <1>2, <1>3, <1>5

(* f holds the states after 0, 1, ... L contexts.                          *)
IsParse(f, L, sec) ==
    f = [i \in 0..L |-> IF i = 0 THEN FirstContext(sec)
                        ELSE NextContext(f[i - 1], sec.len, sec.contexts[i])]

(* There is such a function.                                               *)
LEMMA ParseExists ==
    ASSUME NEW L \in Nat, NEW sec PROVE \E f : IsParse(f, L, sec)
<1> DEFINE S == {m \in 0..L : \E f : IsParse(f, m, sec)}
<1>1. 0 \in S
  <2> DEFINE g == [n \in 0..0 |-> FirstContext(sec)]
  <2>1. IsParse(g, 0, sec)
    BY DEF IsParse
  <2> QED
    BY <2>1
<1>2. ASSUME NEW m \in 0..L, m \in S, m < L PROVE m + 1 \in S
  <2>1. PICK f : IsParse(f, m, sec)
    BY <1>2
  <2> DEFINE g == [n \in 0..(m + 1) |->
                     IF n = m + 1 THEN NextContext(f[m], sec.len, sec.contexts[m + 1]) ELSE f[n]]
             b == [n \in 0..(m + 1) |->
                     IF n = 0 THEN FirstContext(sec)
                     ELSE NextContext(g[n - 1], sec.len, sec.contexts[n])]
  <2>2. ASSUME NEW n \in 0..(m + 1) PROVE g[n] = b[n]
    <3>1. CASE n = m + 1
      <4>1. g[m] = f[m] /\ m \in 0..(m + 1) /\ m = (m + 1) - 1 /\ m + 1 # 0
        OBVIOUS
      <4> QED
        BY <3>1, <4>1
    <3>2. CASE n = 0
      <4>1. f[0] = FirstContext(sec)
        BY <2>1 DEF IsParse
      <4> QED
        BY <3>2, <4>1
    <3>3. CASE n # 0 /\ n # m + 1
      <4>1. n \in 1..m /\ n \in 0..m /\ n - 1 \in 0..(m + 1) /\ n - 1 # m + 1
        BY <3>3
      <4>2. f[n] = NextContext(f[n - 1], sec.len, sec.contexts[n])
        BY <2>1, <4>1 DEF IsParse
      <4>3. g[n] = f[n] /\ g[n - 1] = f[n - 1]
        BY <4>1
      <4> HIDE DEF g
      <4> QED
        BY <3>3, <4>2, <4>3
    <3> QED
      BY <3>1, <3>2, <3>3
  <2>3. g = b
    BY <2>2
  <2>4. IsParse(g, m + 1, sec)
    BY <2>3 DEF IsParse
  <2> QED
    BY <1>2, <2>4
<1> HIDE DEF S
<1>3. \A n \in 0..L : n \in S
  BY <1>1, <1>2, Induction
<1> QED
  BY <1>3 DEF S

(* All contexts.                                                           *)
LEMMA ParseInside ==
    ASSUME NEW sec \in VeraSection, SizeofEvent + sec.info_size <= sec.len
    PROVE  ParseContexts(sec) \in Parsed /\ ParsedOK(ParseContexts(sec), sec.len)
<1> DEFINE L == Len(sec.contexts)
           s == CHOOSE f : IsParse(f, L, sec)
           S == {n \in 0..L : s[n] \in Parsed /\ ParsedOK(s[n], sec.len)}
<1>1. /\ sec.len \in 0..SIZE_MAX /\ sec.contexts \in Seq(VeraContext) /\ L \in Nat
      /\ sec.info_size \in Nat /\ SIZE_MAX \in Nat
      /\ \A n \in 1..L : sec.contexts[n] \in VeraContext
  BY VeraAssumption DEF VeraSection
<1>2. IsParse(s, L, sec)
  BY <1>1, ParseExists
<1>3. ParseContexts(sec) = s[L]
  BY DEF ParseContexts, IsParse
<1> HIDE DEF s
<1>4. s[0] = FirstContext(sec)
  BY <1>1, <1>2 DEF IsParse
<1>5. 0 \in S
  <2>1. FirstContext(sec) \in Parsed /\ ParsedOK(FirstContext(sec), sec.len)
    BY <1>1 DEF FirstContext, Parsed, ParsedOK, SizeofEvent
  <2> QED
    BY <1>1, <1>4, <2>1
<1>6. ASSUME NEW n \in 0..L, n \in S, n < L PROVE n + 1 \in S
  <2>1. n + 1 \in 1..L /\ n + 1 \in 0..L /\ n + 1 # 0 /\ (n + 1) - 1 = n
    BY <1>1, <1>6
  <2>2. s[n + 1] = NextContext(s[n], sec.len, sec.contexts[n + 1])
    BY <1>2, <2>1 DEF IsParse
  <2>3. s[n] \in Parsed /\ ParsedOK(s[n], sec.len)
    BY <1>6
  <2>4. s[n + 1] \in Parsed /\ ParsedOK(s[n + 1], sec.len)
    BY <1>1, <2>1, <2>2, <2>3, NextInside
  <2> QED
    BY <2>1, <2>4
<1> HIDE DEF S
<1>7. \A n \in 0..L : n \in S
  BY <1>1, <1>5, <1>6, Induction
<1>8. L \in S
  BY <1>1, <1>7
<1> QED
  BY <1>3, <1>8 DEF S

(* Printing a context reads its data only.                                 *)
LEMMA PrintInside ==
    ASSUME NEW len \in Nat, NEW ctx, Inside(ctx, len), NEW b \in nvidia_vera_print_context(ctx)
    PROVE  b.to <= len
<1>1. /\ ctx.format \in 0..4 /\ ctx.data \in Nat /\ ctx.data_size \in Nat
      /\ ctx.data + ctx.data_size <= len
  BY DEF Inside
<1>2. CASE ctx.format = 0 /\ ctx.data_size > 0
  <2>1. b = Bytes(ctx.data, IF ctx.data_size > 16 THEN 16 ELSE ctx.data_size)
    BY <1>2 DEF nvidia_vera_print_context
  <2> QED
    BY <1>1, <2>1 DEF Bytes
<1>3. CASE ~(ctx.format = 0 /\ ctx.data_size > 0)
  <2>1. PICK k \in 0..nvidia_vera_context_entry_count(ctx) - 1 :
            b = Bytes(ctx.data + k * EntrySize[ctx.format], EntrySize[ctx.format])
    BY <1>3 DEF nvidia_vera_print_context
  <2>2. CASE ctx.format = 0
    BY <1>3, <2>1, <2>2 DEF nvidia_vera_context_entry_count
  <2>3. CASE ctx.format # 0
    <3>1. PICK E \in {4, 8, 16} : E = EntrySize[ctx.format]
      BY <1>1, <2>3 DEF EntrySize
    <3>2. k \in Int /\ 0 <= k /\ k <= ctx.data_size \div E - 1
      BY <1>1, <2>1, <2>3, <3>1 DEF nvidia_vera_context_entry_count
    <3>3. k * E + E <= ctx.data_size
      <4>1. CASE E = 4
        BY <1>1, <3>2, <4>1
      <4>2. CASE E = 8
        BY <1>1, <3>2, <4>2
      <4>3. CASE E = 16
        BY <1>1, <3>2, <4>3
      <4> QED
        BY <3>1, <4>1, <4>2, <4>3
    <3>4. b.to = (ctx.data + k * E) + E
      BY <2>1, <3>1 DEF Bytes
    <3> QED
      BY <1>1, <3>1, <3>2, <3>3, <3>4
  <2> QED
    BY <2>2, <2>3
<1> QED
  BY <1>2, <1>3

(* Decoding a section, whatever its length and the lengths it names.       *)
LEMMA DecodeInside ==
    ASSUME NEW sec \in VeraSection, NEW b \in VeraDecode(sec).reads
    PROVE  b.to <= sec.len
<1> DEFINE d == nvidia_decode_vera_cper_sec(sec)
           event == Bytes(0, SizeofEvent)
           cpu_info == Bytes(SizeofEvent, SizeofCpuInfo)
<1>1. /\ sec.len \in 0..SIZE_MAX /\ sec.len \in Nat /\ sec.info_size \in Nat /\ SIZE_MAX \in Nat
      /\ sec.contexts \in Seq(VeraContext)
  BY VeraAssumption DEF VeraSection
<1>2. sec.len >= SizeofEvent + SizeofCpuInfo
  BY <1>1 DEF VeraDecode, SizeofEvent, SizeofCpuInfo
<1>3. event.to <= sec.len /\ cpu_info.to <= sec.len
  BY <1>1, <1>2 DEF Bytes, SizeofEvent, SizeofCpuInfo
<1>4. Minus(sec.len, SizeofEvent) = sec.len - SizeofEvent
  BY <1>1, <1>2, MinusExact DEF SizeofEvent, SizeofCpuInfo
<1>5. \/ ~d.ok /\ d.reads \subseteq {event, cpu_info}
      \/ /\ SizeofEvent + sec.info_size <= sec.len
         /\ d.ok = ParseContexts(sec).ok /\ d.contexts = ParseContexts(sec).contexts
         /\ d.reads = ParseContexts(sec).reads \cup {event, cpu_info}
  <2> DEFINE parsed == /\ ~(sec.len < SizeofEvent)
                       /\ ~(\/ sec.version # NVIDIA_VERA_VERSION \/ sec.source_device_type # 0
                            \/ Minus(sec.len, SizeofEvent) < SizeofCpuInfo)
                       /\ ~(\/ sec.info_size < SizeofCpuInfo
                            \/ Minus(sec.len, SizeofEvent) < sec.info_size
                            \/ Len(sec.contexts) > NVIDIA_VERA_MAX_CONTEXTS)
  <2>1. CASE parsed
    <3>1. d = [ok |-> ParseContexts(sec).ok, contexts |-> ParseContexts(sec).contexts,
               reads |-> ParseContexts(sec).reads \cup {event, cpu_info}]
      BY <2>1 DEF nvidia_decode_vera_cper_sec
    <3>2. SizeofEvent + sec.info_size <= sec.len
      BY <1>1, <1>4, <2>1 DEF SizeofEvent
    <3> HIDE DEF d, event, cpu_info
    <3> QED
      BY <3>1, <3>2
  <2>2. CASE ~parsed
    <3>1. \E R \in SUBSET {event, cpu_info} : d = [ok |-> FALSE, contexts |-> << >>, reads |-> R]
      BY <2>2 DEF nvidia_decode_vera_cper_sec
    <3> HIDE DEF d, event, cpu_info
    <3>2. PICK R \in SUBSET {event, cpu_info} : d = [ok |-> FALSE, contexts |-> << >>, reads |-> R]
      BY <3>1
    <3>3. d.ok = FALSE /\ d.reads = R
      BY <3>2
    <3>4. ~d.ok /\ d.reads \subseteq {event, cpu_info}
      BY <3>3
    <3> QED
      BY <3>4
  <2> HIDE DEF parsed
  <2> QED
    BY <2>1, <2>2
<1>6. VeraDecode(sec) = [ok |-> d.ok, reads |-> d.reads \cup
          IF d.ok THEN UNION {nvidia_vera_print_context(d.contexts[i]) : i \in 1..Len(d.contexts)}
          ELSE {}]
  BY <1>1, <1>2 DEF VeraDecode, SizeofEvent, SizeofCpuInfo
<1> HIDE DEF d, event, cpu_info
<1>7. CASE ~d.ok /\ d.reads \subseteq {event, cpu_info}
  BY <1>3, <1>6, <1>7
<1>8. CASE /\ SizeofEvent + sec.info_size <= sec.len
           /\ d.ok = ParseContexts(sec).ok /\ d.contexts = ParseContexts(sec).contexts
           /\ d.reads = ParseContexts(sec).reads \cup {event, cpu_info}
  <2>1. ParsedOK(ParseContexts(sec), sec.len)
    BY <1>8, ParseInside
  <2>2. \A x \in d.reads : x.to <= sec.len
    BY <1>3, <1>8, <2>1 DEF ParsedOK
  <2>3. CASE b \in d.reads
    BY <2>2, <2>3
  <2>4. CASE b \notin d.reads
    <3>1. PICK i \in 1..Len(d.contexts) : d.ok /\ b \in nvidia_vera_print_context(d.contexts[i])
      BY <1>6, <2>4
    <3>2. Inside(d.contexts[i], sec.len)
      BY <1>8, <2>1, <3>1 DEF ParsedOK
    <3> QED
      BY <1>1, <3>1, <3>2, PrintInside
  <2> QED
    BY <2>3, <2>4
<1> QED
  BY <1>5, <1>7, <1>8

(* The parser of Vera sections reads no byte past the end of the section,  *)
(* for sections of every length with any number of contexts, whatever      *)
(* lengths and formats it finds in them.  (nvidia_decode_vera_cper_sec,    *)
(* nvidia_vera_print_context)                                              *)
THEOREM VeraStaysInside == Spec => []VeraReadsInside
<1>1. Init => VeraReadsInside
  BY DEF Init, Quiet, NoEvent, VeraReadsInside
<1>2. VeraReadsInside /\ [Next]_vars => VeraReadsInside'
  <2> SUFFICES ASSUME VeraReadsInside, [Next]_vars PROVE VeraReadsInside'
    OBVIOUS
  <2>1. CASE UNCHANGED vars
    BY <2>1 DEF vars, schemavars, eventvars, VeraReadsInside
  <2>2. CASE Quiet(bound', rows', last', evno', reads')
    BY <2>2 DEF Quiet, NoEvent, VeraReadsInside
  <2>3. ASSUME NEW d \in 1..Len(ras_ns_ev_dec_list), NEW sec \in Sections(d),
               ras_non_standard_event_handler(d, sec)
        PROVE  VeraReadsInside'
    <3>1. /\ last'.stmt = Vendor(d) /\ last'.sec = sec
          /\ reads' = IF d = 12 THEN VeraDecode(sec).reads ELSE {}
      BY <2>3 DEF ras_non_standard_event_handler, SectionIn
    <3>2. CASE d = 12
      <4>1. sec \in VeraSection
        BY <3>2, SectionsAssumption DEF Sections
      <4> QED
        BY <3>1, <3>2, <4>1, DecodeInside DEF VeraReadsInside
    <3>3. CASE d # 12
      BY <3>1, <3>3 DEF VeraReadsInside
    <3> QED
      BY <3>2, <3>3
  <2>4. ASSUME NEW i \in 1..NCore, ras_store(i) PROVE VeraReadsInside'
    BY <2>4 DEF ras_store, VeraReadsInside
  <2>5. CASE Return
    BY <2>5 DEF Return, VeraReadsInside
  <2> QED
    BY <2>1, <2>2, <2>3, <2>4, <2>5 DEF Next
<1> QED
  BY <1>1, <1>2, PTL DEF Spec
=============================================================================
