------------------------------ MODULE DbSchema ------------------------------
(***************************************************************************)
(* Opening and closing the event database (ras-record.c and the vendor     *)
(* tables of ras-non-standard-handler.c), statement by statement: every    *)
(* table is created if it does not exist, its INSERT is prepared, and if   *)
(* that fails the table is altered, one missing column at a time, and the  *)
(* INSERT prepared again.  Each SQL call is a step of its own: it may      *)
(* fail, and the daemon may be killed before it.  The file outlives both.  *)
(*                                                                         *)
(* The listeners share the handle through the counts of module Database;   *)
(* this module has one of them.                                            *)
(***************************************************************************)
EXTENDS DbTables, VendorTables, Integers, FiniteSets

CONSTANTS
    MaxRuns,        \* bound: times the daemon is started
    MaxFaults       \* bound: SQL calls that fail

ASSUME SchemaAssumption == MaxRuns \in Nat /\ MaxFaults \in Nat

-----------------------------------------------------------------------------
(* ras_ns_ev_dec_list: the decoders in the order in which their            *)
(* constructors register them.  The section type of the Ampere decoder is  *)
(* written without dashes and matches none that uuid_le formats; it has no *)
(* add_table.  cleared: its step clears the bindings.                      *)
Decoder(name, fields, cleared) ==
    [name |-> name, fields |-> fields, cleared |-> cleared]
ras_ns_ev_dec_list == <<
    Decoder("", << >>, TRUE),                                          \* Ampere
    Decoder("hip08_oem_type1_event_v2", hip08_oem_event_fields, TRUE),
    Decoder("hip08_oem_type2_event_v2", hip08_oem_event_fields, TRUE),
    Decoder("hip08_pcie_local_event_v2", hip08_pcie_local_event_fields, TRUE),
    Decoder("hisi_common_section_v2", hisi_common_section_fields, TRUE),
    Decoder("jm_payload0_event", jm_payload0_event_fields, TRUE),      \* payload 0
    Decoder("jm_payload0_event", jm_payload0_event_fields, TRUE),      \* payload 1
    Decoder("jm_payload0_event", jm_payload0_event_fields, TRUE),      \* payload 2
    Decoder("jm_payload0_event", jm_payload0_event_fields, TRUE),      \* payload 5
    Decoder("jm_payload0_event", jm_payload0_event_fields, TRUE),      \* payload 6
    Decoder("nvidia_ns_event", nvidia_ns_fields, FALSE),
    Decoder("nvidia_vera_ns_event", nvidia_vera_ns_fields, FALSE),
    Decoder("yitian_ddr_reg_dump_event", yitian_ddr_payload_fields, FALSE) >>

(* A statement of the handle: those of struct sqlite3_priv, then the       *)
(* stmt_dec_record of each decoder.                                        *)
NCore == Len(CoreTables)
Stmts == 1..NCore + Len(ras_ns_ev_dec_list)
IsCore(i) == i <= NCore
Desc(i) == IF IsCore(i) THEN CoreTables[i] ELSE ras_ns_ev_dec_list[i - NCore]
HasTable(i) == Desc(i).name # ""

TableNames == {Desc(i).name : i \in {j \in Stmts : HasTable(j)}}
FieldsOf(t) == Desc(CHOOSE i \in Stmts : Desc(i).name = t).fields
ColumnsOf(t) == {FieldsOf(t)[k] : k \in 1..Len(FieldsOf(t))}
AllColumns == [t \in TableNames |-> ColumnsOf(t)]

VARIABLES
    absent,     \* the file: for each table the columns it lacks, all if it does not exist
    stmt,       \* each statement: "null", "insert" or, left by an upgrade, "select"
    pc,         \* where opendb is, or "up", "failed", "closed", "down"
    at,         \* the statement it is working on
    faults,     \* failures so far
    faulty,     \* ghost: one of them since the daemon was started
    runs        \* times the daemon was started
schemavars == <<absent, stmt, pc, at, faults, faulty, runs>>

\* Mutant: the buffer the SQL texts are built in is half as long.
SqlSize_Half == 512
SqlSize == 1024     \* sizeof(sql)

Table == Desc(at).name
Missing == absent[Table]

\* The file is new, up to date, or from a version with fewer columns.
Complete == [t \in TableNames |-> {}]
Files == {AllColumns, Complete,
          [Complete EXCEPT !["memory_failure_event"] = {"pfn", "action_result"}],
          [Complete EXCEPT !["yitian_ddr_reg_dump_event"] = {"address", "regs_dump"}]}

SchemaInit ==
    /\ absent \in Files
    /\ stmt = [i \in Stmts |-> "null"]
    /\ pc = "down" /\ at = 1
    /\ faults = 0 /\ faulty = FALSE /\ runs = 0

-----------------------------------------------------------------------------
(* The next statement of the list that has a table; past the last one all  *)
(* is open.  ras->db_priv is published between the core and the vendors.   *)
Later == {j \in Stmts : j > at /\ HasTable(j)}
NextTable == IF Later = {} THEN pc' = "up" /\ at' = 1
           ELSE pc' = "create" /\ at' = CHOOSE j \in Later : \A k \in Later : j <= k

(* An error ends opendb with -1 for a core table, with the handle freed    *)
(* and the statements leaked; for a vendor table it ends the additions.    *)
Abandon == pc' = (IF IsCore(at) THEN "failed" ELSE "up") /\ at' = 1

Fault == faults < MaxFaults /\ faults' = faults + 1 /\ faulty' = TRUE
NoFault == UNCHANGED <<faults, faulty>>

(* ras_mc_event_opendb up to the open connection.                          *)
OpenDb ==
    /\ pc = "down" /\ runs < MaxRuns
    /\ runs' = runs + 1
    /\ stmt' = [i \in Stmts |-> "null"]
    /\ \/ pc' = "create" /\ at' = 1 /\ faulty' = FALSE /\ faults' = faults
       \/ pc' = "failed" /\ at' = 1 /\ Fault
    /\ UNCHANGED absent

(* ras_mc_create_table: CREATE TABLE IF NOT EXISTS.  A core table that     *)
(* cannot be created is passed over, a vendor one ends the additions.      *)
ras_mc_create_table ==
    /\ pc = "create"
    /\ \/ /\ absent' = IF "id" \in Missing THEN [absent EXCEPT ![Table] = {}] ELSE absent
          /\ pc' = "prepare" /\ at' = at /\ NoFault
       \/ /\ Fault /\ absent' = absent
          /\ IF IsCore(at) THEN NextTable ELSE Abandon
    /\ UNCHANGED <<stmt, runs>>

(* __ras_mc_prepare_stmt, the first time: a column that is not in the      *)
(* table makes it fail, as any error does, and the statement is NULL.      *)
PrepareInsert ==
    /\ pc = "prepare"
    /\ \/ /\ Missing = {} /\ NoFault /\ NextTable
          /\ stmt' = [stmt EXCEPT ![at] = "insert"]
       \/ /\ IF Missing = {} THEN Fault ELSE NoFault
          /\ stmt' = [stmt EXCEPT ![at] = "null"]
          /\ pc' = "select" /\ at' = at
    /\ UNCHANGED <<absent, runs>>

(* ras_mc_alter_table prepares a SELECT in the same variable, to get the   *)
(* columns the table has.  It is leaked when the INSERT takes its place.   *)
AlterBegin ==
    /\ pc = "select"
    /\ \/ /\ stmt' = [stmt EXCEPT ![at] = "select"]
          /\ pc' = "alter" /\ at' = at /\ NoFault
       \/ Fault /\ Abandon /\ UNCHANGED <<stmt>>
    /\ UNCHANGED <<absent, runs>>

\* Mutant: the loop is left after the first column.
AlterColumn_One ==
    /\ pc = "alter" /\ Missing # {}
    /\ LET k == CHOOSE i \in 1..Len(FieldsOf(Table)) :
                    /\ FieldsOf(Table)[i] \in Missing
                    /\ \A j \in 1..i - 1 : FieldsOf(Table)[j] \notin Missing
       IN  \/ /\ absent' = [absent EXCEPT ![Table] = @ \ {FieldsOf(Table)[k]}]
              /\ pc' = "reprepare" /\ at' = at /\ NoFault
           \/ Fault /\ Abandon /\ absent' = absent
    /\ UNCHANGED <<stmt, runs>>

\* Mutant: the columns that cannot be added are passed over.
AlterColumn_Ignored ==
    /\ pc = "alter" /\ Missing # {}
    /\ LET k == CHOOSE i \in 1..Len(FieldsOf(Table)) :
                    /\ FieldsOf(Table)[i] \in Missing
                    /\ \A j \in 1..i - 1 : FieldsOf(Table)[j] \notin Missing
       IN  \/ /\ absent' = [absent EXCEPT ![Table] = @ \ {FieldsOf(Table)[k]}]
              /\ UNCHANGED <<pc, at>> /\ NoFault
           \/ Fault /\ NextTable /\ absent' = absent
    /\ UNCHANGED <<stmt, runs>>

(* One round of its loop: ALTER TABLE ... ADD for the first field that is  *)
(* not in the table.                                                       *)
AlterColumn ==
    /\ pc = "alter" /\ Missing # {}
    /\ LET k == CHOOSE i \in 1..Len(FieldsOf(Table)) :
                    /\ FieldsOf(Table)[i] \in Missing
                    /\ \A j \in 1..i - 1 : FieldsOf(Table)[j] \notin Missing
       IN  \/ /\ absent' = [absent EXCEPT ![Table] = @ \ {FieldsOf(Table)[k]}]
              /\ UNCHANGED <<pc, at>> /\ NoFault
           \/ Fault /\ Abandon /\ absent' = absent
    /\ UNCHANGED <<stmt, runs>>

AlterDone ==
    /\ pc = "alter" /\ Missing = {}
    /\ pc' = "reprepare"
    /\ UNCHANGED <<absent, stmt, at, faults, faulty, runs>>

(* __ras_mc_prepare_stmt once more.                                        *)
PrepareAgain ==
    /\ pc = "reprepare"
    /\ \/ /\ Missing = {} /\ NoFault /\ NextTable
          /\ stmt' = [stmt EXCEPT ![at] = "insert"]
       \/ /\ IF Missing = {} THEN Fault ELSE NoFault
          /\ stmt' = [stmt EXCEPT ![at] = "null"]
          /\ Abandon
    /\ UNCHANGED <<absent, runs>>

-----------------------------------------------------------------------------
(* ras_ns_finalize_vendor_tables and ras_mc_event_closedb: every statement *)
(* that is not NULL is finalized.                                          *)
CloseDb ==
    /\ pc = "up"
    /\ stmt' = [i \in Stmts |-> "null"]
    /\ pc' = "closed"
    /\ UNCHANGED <<absent, at, faults, faulty, runs>>

(* The daemon ends: after closing, after a failed open, or killed at any   *)
(* point.  Its statements go with it, the file stays.                      *)
Exit ==
    /\ pc # "down"
    /\ pc' = "down" /\ at' = 1
    /\ stmt' = [i \in Stmts |-> "null"]
    /\ UNCHANGED <<absent, faults, faulty, runs>>

SchemaStep == \/ OpenDb \/ ras_mc_create_table \/ PrepareInsert \/ AlterBegin
              \/ AlterColumn \/ AlterDone \/ PrepareAgain \/ CloseDb \/ Exit
=============================================================================
