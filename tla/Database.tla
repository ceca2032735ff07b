------------------------------ MODULE Database ------------------------------
(***************************************************************************)
(* The event database handle that all listeners share: the reference count *)
(* of ras_mc_event_opendb / ras_mc_event_closedb (ras-record.c) and the    *)
(* one of the vendor statements, kept in the first decoder of the list     *)
(* (ras-non-standard-handler.c).  Nothing here locks: callers do.          *)
(***************************************************************************)
EXTENDS Integers, FiniteSets

CONSTANTS
    NDecoders,  \* number of registered vendor decoders
    MaxFlaws    \* bound: opens that SQLite grants in part, and rows it refuses

ASSUME DecodersAssumption == NDecoders \in Nat
ASSUME FlawsAssumption == MaxFlaws \in Nat

Decoders == 1..NDecoders    \* ras_ns_ev_dec_list, in list order

VARIABLES
    db_ref_count,   \* ras->db_ref_count
    db_priv,        \* ras->db_priv: 0 for NULL, else the number of its connection
    opens,          \* successful sqlite3_open_v2 calls so far
    partial,        \* the connections for which a table could not be created: its
                    \* statement in struct sqlite3_priv is NULL
    conns,          \* the connections that are open
    orphans,        \* ghost: those of opendb calls that failed
    altered,        \* ghost: those with a SELECT of ras_mc_alter_table that nobody finalizes
    leaked,         \* ghost: opendb calls that counted themselves and failed
    flaws,          \* calls SQLite failed so far, up to the bound
    dec_ref_count,  \* ras_ns_ev_dec_list->ref_count
    dec_stmts       \* the decoders whose stmt_dec_record is prepared

connvars == <<opens, partial, conns, orphans, altered>>
handlevars == <<db_ref_count, db_priv, connvars, leaked, dec_ref_count, dec_stmts>>
dbvars == <<handlevars, flaws>>

NULL == 0

DbInit ==
    /\ db_ref_count = 0 /\ db_priv = NULL /\ opens = 0 /\ leaked = 0 /\ flaws = 0
    /\ partial = {} /\ conns = {} /\ orphans = {} /\ altered = {}
    /\ dec_ref_count = 0 /\ dec_stmts = {}

DbTypeOK ==
    /\ db_ref_count \in Nat /\ db_priv \in 0..opens /\ opens \in Nat /\ leaked \in Nat /\ flaws \in Nat
    /\ partial \cup conns \cup orphans \cup altered \subseteq 1..opens
    /\ dec_ref_count \in Nat /\ dec_stmts \in SUBSET Decoders

-----------------------------------------------------------------------------
(* ras_mc_event_opendb counts the caller; only the first one goes on to    *)
(* open the database, the others return 0 at once.                         *)
opendb_count ==
    /\ db_ref_count' = db_ref_count + 1
    /\ db_priv' = IF db_ref_count + 1 > 1 THEN db_priv ELSE NULL
    /\ UNCHANGED <<connvars, leaked, flaws>>

(* SQLite fails a call, or does not.                                       *)
Flaw == flaws < MaxFlaws /\ flaws' = flaws + 1
Sound == flaws' = flaws

(* sqlite3_open_v2 succeeds.                                               *)
connect(id) == opens' = id /\ id = opens + 1 /\ conns' = conns \cup {id}

(* ras_mc_alter_table prepares a SELECT in the place of an INSERT, and     *)
(* preparing the INSERT again overwrites it: a connection with a table     *)
(* that is altered gets one that is never finalized.                       *)
alter_tables(id) ==
    \/ Flaw /\ altered' = altered \cup {id}
    \/ Sound /\ UNCHANGED altered

(* The rest of the first caller's call: tables are created, statements     *)
(* prepared, and ras->db_priv is published last.  A table that cannot be   *)
(* created is passed over.                                                 *)
opendb_first ==
    \E id \in {opens + 1} :
        /\ connect(id)
        /\ \/ alter_tables(id) /\ UNCHANGED partial
           \/ Flaw /\ partial' = partial \cup {id} /\ altered' \in {altered, altered \cup {id}}
        /\ db_priv' = id
        /\ UNCHANGED <<db_ref_count, leaked, orphans>>

(* The call returns -1 and the count stays incremented.  No memory, no     *)
(* state directory or sqlite3_open_v2 failing: nothing is open.  A         *)
(* statement that cannot be prepared: priv is freed, the connection and    *)
(* what was prepared on it stay.  (The handle SQLite gives out with an     *)
(* error of sqlite3_open_v2 is no connection and is not counted.)          *)
opendb_fail ==
    /\ leaked' = leaked + 1
    /\ \/ Sound /\ UNCHANGED <<opens, conns, orphans>>
       \/ Flaw /\ \E id \in {opens + 1} : connect(id) /\ orphans' = orphans \cup {id}
    /\ UNCHANGED <<db_ref_count, db_priv, partial, altered>>

\* Mutant: the handle goes with the first caller that is done.
closedb_count_Eager ==
    /\ db_ref_count' = IF db_ref_count > 0 THEN db_ref_count - 1 ELSE db_ref_count
    /\ db_priv' = NULL
    /\ UNCHANGED <<connvars, leaked, flaws>>

(* ras_mc_event_closedb gives the count back ...                           *)
closedb_count ==
    /\ db_ref_count' = IF db_ref_count > 0 THEN db_ref_count - 1 ELSE db_ref_count
    /\ UNCHANGED <<db_priv, connvars, leaked, flaws>>

(* ... and the last caller finalizes the statements and closes the         *)
(* database.  With a statement that was not finalized sqlite3_close_v2     *)
(* leaves the connection open.                                             *)
closedb_last ==
    /\ conns' = conns \ ({db_priv} \ altered)
    /\ db_priv' = NULL
    /\ UNCHANGED <<db_ref_count, leaked, flaws, opens, partial, orphans, altered>>

(* ras_ns_add_vendor_tables: prepares, in list order, the statements that  *)
(* are missing and stops at the first that fails.  With no database every  *)
(* add_table fails.  Tables of vendors are altered as the others are.      *)
add_vendor_tables ==
    /\ dec_ref_count' = IF NDecoders > 0 THEN dec_ref_count + 1 ELSE dec_ref_count
    /\ IF db_priv = NULL
       THEN Sound /\ UNCHANGED <<dec_stmts, altered>>
       ELSE /\ IF Decoders \subseteq dec_stmts THEN Sound /\ UNCHANGED altered ELSE alter_tables(db_priv)
            /\ \E failed \in (Decoders \ dec_stmts) \cup {NDecoders + 1} :
               dec_stmts' = dec_stmts \cup {d \in Decoders : d < failed}
    /\ UNCHANGED <<db_ref_count, db_priv, leaked, opens, partial, conns, orphans>>

(* ras_ns_finalize_vendor_tables: the last user finalizes them all.        *)
finalize_vendor_tables ==
    /\ dec_ref_count' = IF dec_ref_count > 0 THEN dec_ref_count - 1 ELSE dec_ref_count
    /\ dec_stmts' = IF dec_ref_count = 1 THEN {} ELSE dec_stmts
    /\ UNCHANGED <<db_ref_count, db_priv, connvars, leaked, flaws>>
=============================================================================
