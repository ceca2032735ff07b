----------------------------- MODULE NonStandard -----------------------------
(***************************************************************************)
(* Storing events through the statements that DbSchema opens: the handler  *)
(* of non-standard sections (ras-non-standard-handler.c), with the vendor  *)
(* decoders of VendorTables, and the ras_store_* functions of the other    *)
(* events.  A bind stays with the statement until it is made again or      *)
(* cleared, so what a row holds depends on the events before it.           *)
(*                                                                         *)
(* A section is the set of its fields marked as valid (the Vera section is *)
(* a record of VeraCper).  A value in the database is the fields it was    *)
(* made from and the event it came with: events alternate between 0 and 1. *)
(***************************************************************************)
EXTENDS DbSchema, VeraCper

CONSTANT VeraSections   \* bound: the sections of a Vera processor

ASSUME SectionsAssumption == VeraSections \subseteq VeraSection

VARIABLES
    bound,      \* for each statement, its parameters that are not NULL
    rows,       \* the rows the last event added, in order
    last,       \* the last event: its statement (0: none yet), section, is it in its
                \* handler, and did the daemon receive a SIGSEGV there
    evno,       \* which event it was
    reads       \* the bytes of the section its decoder read
eventvars == <<bound, rows, last, evno, reads>>
vars == <<schemavars, eventvars>>

NoEvent == [stmt |-> 0, sec |-> {}, busy |-> FALSE, dies |-> FALSE]
Quiet(b, r, l, e, d) == /\ b = [i \in Stmts |-> << >>] /\ r = << >> /\ l = NoEvent
                        /\ e = 0 /\ d = {}
Init == SchemaInit /\ Quiet(bound, rows, last, evno, reads)

-----------------------------------------------------------------------------
(* The statement of the generic table, and the vendors'.                   *)
NonStandardRecord == CHOOSE i \in 1..NCore : Desc(i).name = "non_standard_event"
Vendor(d) == NCore + d
Unknown == 1    \* the Ampere decoder's place: a section type that nothing matches

(* The binds of a decoder for a section; none if it refuses it or does     *)
(* not store it.                                                           *)
decode(d, sec) ==
    CASE d = 2 -> decode_hip08_oem_type1_error(sec)
      [] d = 3 -> decode_hip08_oem_type2_error(sec)
      [] d = 4 -> decode_hip08_pcie_local_error(sec)
      [] d = 5 -> decode_hisi_common_section(sec)
      [] d = 6 -> decode_jm_oem_type_error(decode_jm_payload0_err_regs, sec)
      [] d = 7 -> decode_jm_oem_type_error(decode_jm_payload1_err_regs, sec)
      [] d = 8 -> decode_jm_oem_type_error(decode_jm_payload2_err_regs, sec)
      [] d = 9 -> decode_jm_oem_type_error(decode_jm_payload5_err_regs, sec)
      [] d = 10 -> decode_jm_oem_type_error(decode_jm_payload6_err_regs, sec)
      [] d = 11 -> nvidia_ns_decode(sec)
      [] d = 12 -> IF VeraDecode(sec).ok THEN nvidia_vera_ns_decode ELSE << >>
      [] d = 13 -> decode_yitian710_ns_error(sec)
      [] OTHER -> << >>

\* The field sets to try: none, all, all but one, one.
Choices(fields) == {{}, fields} \cup {fields \ {f} : f \in fields} \cup {{f} : f \in fields}
RangeOf(list) == {list[k] : k \in 1..Len(list)}
Sections(d) ==
    CASE d = 2 -> Choices(HISI_OEM_VALID \cup RangeOf(HISI_OEM_TYPE1_REGS))
      [] d = 3 -> Choices(HISI_OEM_VALID \cup RangeOf(HISI_OEM_TYPE2_REGS))
      [] d = 4 -> Choices(HISI_PCIE_LOCAL_VALID \cup RangeOf(HISI_PCIE_LOCAL_REGS))
      [] d = 5 -> Choices(HISI_COMMON_VALID)
      [] d \in 6..10 -> Choices(JM_COMMON_VALID)
      [] d = 11 -> {{}, {"cper_sec"}, {"cper_sec", "reg_data"}}
      [] d = 12 -> VeraSections
      [] d = 13 -> {{}, {"ddr"}}
      [] OTHER -> {{}}

-----------------------------------------------------------------------------
(* The parameters after the binds of a list that a section lets through,   *)
(* made in order.  A value made of nothing is NULL, or the empty string of *)
(* hisi_common_section.                                                    *)
Bind(old, binds, sec, ev) ==
    LET made == {k \in 1..Len(binds) : IsMade(binds[k], sec)}
        params == {binds[k].param : k \in made}
        final(p) == binds[CHOOSE k \in made : /\ binds[k].param = p
                                              /\ \A j \in made : binds[j].param = p => j <= k]
        set == {p \in params : final(p).src # << >>} \cup (DOMAIN old \ params)
    IN  [p \in set |-> IF p \in params THEN [src |-> final(p).src, ev |-> ev] ELSE old[p]]

(* Binds, sqlite3_step and sqlite3_reset.  Only an INSERT adds a row: on   *)
(* NULL binding and stepping are SQLITE_MISUSE and resetting does nothing, *)
(* a SELECT has no parameters.                                             *)
Stored(i, binds, sec, ev) ==
    IF stmt[i] = "insert" /\ binds # << >>
    THEN <<[stmt |-> i, cells |-> Bind(bound[i], binds, sec, ev)]>> ELSE << >>

\* Mutant: sqlite3_clear_bindings is left out.
BoundAfter_Kept(i, row) == row.cells

(* step_vendor_data_tab and store_jm_err_data clear the bindings, the      *)
(* other functions leave them.                                             *)
BoundAfter(i, row) == IF ~IsCore(i) /\ Desc(i).cleared THEN << >> ELSE row.cells

(* sqlite3_clear_bindings dereferences its argument (in a default build of *)
(* SQLite).  step_vendor_data_tab looks at the statement first and the     *)
(* Ampere decoder gives up without one; store_jm_err_data does neither.    *)
JaguarMicro == 6..10
store_jm_err_data_dies(d) == d \in JaguarMicro /\ stmt[Vendor(d)] = "null"

AfterRows(added) ==
    /\ rows' = added
    /\ bound' = [i \in Stmts |->
           IF \E r \in RangeOf(added) : r.stmt = i
           THEN BoundAfter(i, CHOOSE r \in RangeOf(added) : r.stmt = i) ELSE bound[i]]

(* One platform sends one kind of section, and the statements do not share *)
(* bindings: a behaviour has events of one statement only.                 *)
Arrives(i) == pc = "up" /\ ~last.busy /\ last.stmt \in {0, i}

CoreBinds(i) == [k \in 1..Len(Desc(i).binds) |-> Always(Desc(i).binds[k], k)]

\* What the handler of a section leaves in last.
SectionIn(d, sec, dies) == [stmt |-> Vendor(d), sec |-> sec, busy |-> TRUE, dies |-> dies]

\* Mutant: a section that its decoder refuses is not stored at all.
ras_non_standard_event_handler_Drop(d, sec) ==
    LET binds == decode(d, sec)
        ev == 1 - evno
    IN  /\ Arrives(Vendor(d))
        /\ AfterRows(IF store_jm_err_data_dies(d) \/ (d # Unknown /\ binds = << >>) THEN << >>
                     ELSE Stored(Vendor(d), binds, sec, ev) \o
                          Stored(NonStandardRecord, CoreBinds(NonStandardRecord), {}, ev))
        /\ reads' = IF d = 12 THEN VeraDecode(sec).reads ELSE {}
        /\ last' = SectionIn(d, sec, store_jm_err_data_dies(d)) /\ evno' = ev
        /\ UNCHANGED schemavars

(* ras_non_standard_event_handler: the decoder of the section's type, if   *)
(* there is one, then the generic row, whatever the decoder returned - if  *)
(* it returned.                                                            *)
ras_non_standard_event_handler(d, sec) ==
    LET binds == decode(d, sec)
        ev == 1 - evno
    IN  /\ Arrives(Vendor(d))
        /\ AfterRows(IF store_jm_err_data_dies(d) THEN << >>
                     ELSE Stored(Vendor(d), binds, sec, ev) \o
                          Stored(NonStandardRecord, CoreBinds(NonStandardRecord), {}, ev))
        /\ reads' = IF d = 12 THEN VeraDecode(sec).reads ELSE {}
        /\ last' = SectionIn(d, sec, store_jm_err_data_dies(d)) /\ evno' = ev
        /\ UNCHANGED schemavars

(* Any other event: the row of its ras_store_* function.                   *)
ras_store(i) ==
    /\ Arrives(i) /\ i # NonStandardRecord
    /\ AfterRows(Stored(i, CoreBinds(i), {}, 1 - evno))
    /\ reads' = {} /\ last' = [NoEvent EXCEPT !.stmt = i, !.busy = TRUE] /\ evno' = 1 - evno
    /\ UNCHANGED schemavars

(* The handler returns.  The rows stay in the file and nothing here reads  *)
(* them again.                                                             *)
Return ==
    /\ last.busy /\ ~last.dies
    /\ last' = [last EXCEPT !.sec = {}, !.busy = FALSE]
    /\ rows' = << >> /\ reads' = {}
    /\ UNCHANGED <<schemavars, bound, evno>>

(* What happens to the daemon between two events; after a SIGSEGV in a     *)
(* handler the process ends.                                               *)
Daemon == (SchemaStep /\ ~last.busy) \/ (Exit /\ last.dies)

Next == \/ Daemon /\ Quiet(bound', rows', last', evno', reads')
        \/ \E d \in 1..Len(ras_ns_ev_dec_list) : \E sec \in Sections(d) :
               ras_non_standard_event_handler(d, sec)
        \/ \E i \in 1..NCore : ras_store(i)
        \/ Return

Spec == Init /\ [][Next]_vars

-----------------------------------------------------------------------------
(* What each column is meant for, from its name and the structure of the   *)
(* section.                                                                *)
SectionField(d, column) ==
    LET names == IF d = 5 THEN [sub_system_id |-> "subsystem_id", sub_module_id |-> "submodule_id"]
                 ELSE [subsystem |-> "subsystem_id", module |-> "module_id",
                       sub_module |-> "submodule_id", dev |-> "dev_id"]
    IN  IF column \in DOMAIN names THEN names[column] ELSE column
Optional(d) ==
    CASE d \in {2, 3} -> HISI_OEM_VALID
      [] d = 4 -> HISI_PCIE_LOCAL_VALID \ {"version"}
      [] d = 5 -> HISI_COMMON_VALID
      [] d \in 6..10 -> JM_COMMON_VALID
      [] d = 11 -> {"reg_data"}
      [] OTHER -> {}
Registers(d, sec) ==
    LET jm == <<jm_payload0_type_sec, jm_payload1_type_sec, jm_payload2_type_sec,
                jm_payload5_type_sec, jm_payload6_type_sec>>
    IN  CASE d = 2 -> ValidRegs(HISI_OEM_TYPE1_REGS, sec)
          [] d = 3 -> ValidRegs(HISI_OEM_TYPE2_REGS, sec)
          [] d = 4 -> ValidRegs(HISI_PCIE_LOCAL_REGS, sec)
          [] d = 5 -> ValidRegs(<<"reg_array_size">>, sec)
          [] d \in 6..10 -> jm[d - 5] \o ValidRegs(<<"reg_array_size">>, sec)
          [] OTHER -> <<"regs_dump">>
Meant(i, column, sec) ==
    LET d == i - NCore
    IN  IF IsCore(i) THEN <<FieldOf(Desc(i).name, column)>>
        ELSE IF column = "regs_dump" THEN Registers(d, sec)
        ELSE IF SectionField(d, column) \in Optional(d) \ sec THEN << >>
        ELSE <<SectionField(d, column)>>

(* What the code is known to do otherwise: JaguarMicro's version goes with *)
(* the bit of the SoC, its submodule_id is stored as the module_id; the    *)
(* dump of a HIP08 section without registers is an uninitialised buffer;   *)
(* the section type of the generic row is a blob of length -1, for which   *)
(* SQLite does not say what is stored.                                     *)
Excepted(i, column, sec) ==
    LET d == i - NCore
    IN  \/ i = NonStandardRecord /\ column = "sec_type"
        \/ d \in 6..10 /\ column \in {"version", "module_id", "submodule_id"}
        \/ d \in 2..4 /\ column = "regs_dump" /\ Registers(d, sec) = << >>

(* Every column of a row holds what it is meant for, from the event the    *)
(* row was added for, and is NULL exactly when that is not valid in the    *)
(* section: nothing of an earlier event is left in a statement, no         *)
(* parameter is skipped, shifted or out of range.                          *)
RowsOwn ==
    \A r \in RangeOf(rows) :
        /\ DOMAIN r.cells \subseteq 1..Len(Desc(r.stmt).fields) - 1
        /\ \A p \in 1..Len(Desc(r.stmt).fields) - 1 :
               LET column == Desc(r.stmt).fields[p + 1]
                   meant == Meant(r.stmt, column, last.sec)
               IN  \/ Excepted(r.stmt, column, last.sec)
                   \/ meant = << >> /\ p \notin DOMAIN r.cells
                   \/ /\ meant # << >> /\ p \in DOMAIN r.cells
                      /\ r.cells[p] = [src |-> meant, ev |-> evno]

(* A section that a vendor's decoder refuses, or whose vendor table cannot *)
(* be used, is still in the generic table, after the vendor's row if there *)
(* is one - but for JaguarMicro's: without a statement for its vendor      *)
(* table (it could not be created or prepared) the daemon dies in the      *)
(* decoder and the section is nowhere.                                     *)
SectionKept ==
    last.busy /\ last.stmt > NCore /\ stmt[NonStandardRecord] = "insert" =>
        IF last.stmt - NCore \in JaguarMicro /\ stmt[last.stmt] = "null"
        THEN last.dies /\ rows = << >>
        ELSE /\ ~last.dies
             /\ rows # << >> /\ rows[Len(rows)].stmt = NonStandardRecord
             /\ Len(rows) <= 2
             /\ Len(rows) = 2 => rows[1].stmt = last.stmt /\ stmt[last.stmt] = "insert"

(* The parser of Vera sections, which finds every length in the section    *)
(* itself, reads no byte past its end, neither when it parses nor when it  *)
(* prints the contexts it has accepted.                                    *)
VeraReadsInside ==
    last.busy /\ last.stmt = Vendor(12) => \A b \in reads : b.to <= last.sec.len

(* While the database is up a core statement is an INSERT over a table     *)
(* that has all its columns, or NULL because the table could not be        *)
(* created, never the SELECT of an upgrade; and the vendors' statements    *)
(* are usable up to the one that failed.                                   *)
OpenIsComplete ==
    pc = "up" =>
        /\ \A i \in Stmts : stmt[i] = "insert" => absent[Desc(i).name] = {}
        /\ \A i \in 1..NCore : stmt[i] # "select"
        /\ \A i, j \in NCore + 1..Len(ras_ns_ev_dec_list) + NCore :
               HasTable(i) /\ i < j /\ stmt[j] # "null" => stmt[i] = "insert"

(* Opening only fails when an SQL call did; otherwise, from any version of *)
(* the file and from whatever a daemon that was killed half way through an *)
(* upgrade left, every statement is usable.                                *)
UpgradeConverges ==
    ~faulty => /\ pc # "failed"
               /\ pc = "up" => \A i \in Stmts : HasTable(i) => stmt[i] = "insert"

(* The texts built for a table fit the buffer: with a longer one the       *)
(* pointer returned by snprintf would pass its end.  The longest type but  *)
(* the id's is INTEGER.                                                    *)
SumLen(list) == LET sum[k \in 0..Len(list)] == IF k = 0 THEN 0 ELSE sum[k - 1] + Len(list[k])
                IN  sum[Len(list)]
SqlFits ==
    pc \in {"create", "prepare"} =>
        LET n == Len(Desc(at).fields)
            names == SumLen(Desc(at).fields) + 2 * (n - 1) + Len(Table)
        IN  /\ 27 + 2 + names + n * (1 + 7) + 12 + 1 < SqlSize       \* CREATE TABLE
            /\ 12 + 2 + names + 17 + 3 * (n - 2) + 2 < SqlSize       \* INSERT INTO
=============================================================================
