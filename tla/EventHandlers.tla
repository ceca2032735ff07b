--------------------------- MODULE EventHandlers ---------------------------
(***************************************************************************)
(* The tracepoint handlers (ras-*-handler.c), as the poll loop calls them: *)
(* one record at a time, each handler a straight line of steps that may    *)
(* leave early.  What a handler formats is left out; what it does to the   *)
(* rest of the daemon, in which order, and what an early return skips, is  *)
(* kept.  A handler is the sequence of its steps:                          *)
(*                                                                         *)
(*   fields   the mandatory fields read here; one missing ends the handler *)
(*   raw      a raw field or an array entry that is used unchecked         *)
(*   filter   an event the user filter matches is dropped                  *)
(*   alloc    asprintf of a field, given back by free                      *)
(*   uuid     a uuid is formatted into the static buffer of uuid_be()      *)
(*   store    the call of ras_store_*_event with an open database          *)
(*   decode   the vendor decoder, which stores its own row                 *)
(*   stat     the corrected errors of the current second                   *)
(*   page, row, cpu, offline   the calls into the isolation policies       *)
(*   pei      the error information ARM kernels may export                 *)
(*   report   ras_report_*_event (module AbrtReport)                       *)
(*   amp_sel  the SEL entry of an Ampere build, with ipmitool              *)
(*   sel      the SEL entry of an OpenBMC build, with ipmitool             *)
(*   trigger  the user's script, waited for                                *)
(***************************************************************************)
EXTENDS AbrtReport, FiniteSets

CONSTANTS
    Counts,         \* error counts a mc_event may carry
    Seconds,        \* time stamps of mc_events, in seconds
    TriggerSets,    \* sets of triggers that may be configured
    MaxEvents       \* bound: records read

ASSUME HandlersAssumption ==
    /\ Counts \subseteq Nat /\ Seconds \subseteq Nat \ {0} /\ MaxEvents \in Nat
    /\ TriggerSets \subseteq SUBSET {"mc_ce", "mc_ue", "aer_ce", "aer_ue", "mf"}

VARIABLES
    record,     \* ras->record_events, with the database open
    trig,       \* the triggers set up
    ev,         \* the record being handled, or the last one
    pc,         \* the next step of its handler; 0: no handler runs
    done,       \* ghost: the effects of ev so far
    left,       \* ghost: why the handler left early, or "no"
    child,      \* the trigger's process: "none", "running", "exited"
    heap,       \* allocations not freed
    torn,       \* ghost: parse errors between an alloc and its free
    dumps,      \* ghost: register dumps of Yitian's DDR sections
    uuid,       \* what the static buffer of uuid_be() holds
    hdr_uuid,   \* ghost: what the row of ev has for its hdr_uuid
    cur, per_sec_ce_count,  \* the second being counted, and its count
    ces,        \* ghost: the corrected errors so far, <<second, count>>
    seen        \* records read

hvars == <<record, trig, ev, pc, done, left, child, heap, torn, dumps,
           uuid, hdr_uuid, cur, per_sec_ce_count, ces, seen>>
vars == <<abrtvars, hvars>>

-----------------------------------------------------------------------------
(* The handlers.                                                           *)
\* Mutant: the trigger, which may take any time, runs before the store.
ras_mc_event_handler_TriggerFirst ==
    <<"fields", "stat", "page", "trigger", "store", "row", "report">>
ras_mc_event_handler ==
    <<"fields", "store", "stat", "page", "row", "report", "trigger">>

ras_aer_event_handler ==
    <<"fields", "raw", "store", "report", "amp_sel", "sel", "trigger">>

ras_mce_event_handler == <<"fields", "store", "report">>

ras_extlog_mem_event_handler == <<"fields", "raw", "store">>

ras_non_standard_event_handler ==
    <<"fields", "raw", "fields", "decode", "store", "report">>

\* Mutant: the CPU is accounted before the vendor information is read.
ras_arm_event_handler_CpuEarly == <<"fields", "cpu", "pei", "store", "report">>
ras_arm_event_handler == <<"fields", "pei", "cpu", "store", "report">>

ras_reri_event_handler == <<"fields", "store", "cpu", "report">>

ras_devlink_event_handler == <<"filter", "fields", "store", "report">>

ras_net_xmit_timeout_handler == <<"fields", "alloc", "store", "report", "free">>

ras_diskerror_event_handler ==
    <<"fields", "alloc", "fields", "store", "report", "free">>

ras_memory_failure_event_handler == <<"fields", "store", "report", "trigger">>

ras_signal_event_handler == <<"fields", "raw", "store", "report">>

ras_cxl_poison_event_handler == <<"fields", "store", "report">>
ras_cxl_aer_ue_event_handler == <<"fields", "store", "report">>
ras_cxl_aer_ce_event_handler == <<"fields", "store", "report">>
ras_cxl_overflow_event_handler == <<"fields", "store", "report">>

handle_ras_cxl_common_hdr == <<"fields", "uuid_hdr", "fields">>

ras_cxl_generic_event_handler ==
    handle_ras_cxl_common_hdr \o <<"fields", "store", "report">>

ras_cxl_general_media_event_handler ==
    handle_ras_cxl_common_hdr \o <<"fields", "uuid_region", "fields", "store", "report">>

ras_cxl_dram_event_handler ==
    handle_ras_cxl_common_hdr
      \o <<"fields", "uuid_region", "fields", "offline", "fields", "store", "report">>

\* Mutant: a component id formatted like a uuid overwrites the header's.
ras_cxl_memory_module_event_handler_Uuid ==
    handle_ras_cxl_common_hdr \o <<"fields", "uuid_region", "store", "report">>
ras_cxl_memory_module_event_handler ==
    handle_ras_cxl_common_hdr \o <<"fields", "store", "report">>

ras_cxl_memory_sparing_event_handler == handle_ras_cxl_common_hdr \o <<"fields">>

Handler ==
    [mc |-> ras_mc_event_handler, aer |-> ras_aer_event_handler,
     mce |-> ras_mce_event_handler, extlog |-> ras_extlog_mem_event_handler,
     non_standard |-> ras_non_standard_event_handler, arm |-> ras_arm_event_handler,
     reri |-> ras_reri_event_handler, devlink |-> ras_devlink_event_handler,
     net_xmit |-> ras_net_xmit_timeout_handler, disk |-> ras_diskerror_event_handler,
     mf |-> ras_memory_failure_event_handler, signal |-> ras_signal_event_handler,
     cxl_poison |-> ras_cxl_poison_event_handler, cxl_ue |-> ras_cxl_aer_ue_event_handler,
     cxl_ce |-> ras_cxl_aer_ce_event_handler, cxl_overflow |-> ras_cxl_overflow_event_handler,
     cxl_generic |-> ras_cxl_generic_event_handler,
     cxl_media |-> ras_cxl_general_media_event_handler,
     cxl_dram |-> ras_cxl_dram_event_handler,
     cxl_module |-> ras_cxl_memory_module_event_handler,
     cxl_sparing |-> ras_cxl_memory_sparing_event_handler]

Types == DOMAIN Handler

(* What of a record the handlers tell apart.  sev: the severity, with      *)
(* "Uncorrected" for RERI's and GHES's recoverable.  flag: the TLP header  *)
(* is valid (aer), the kernel exports the error information (arm), a CPU   *)
(* whose hart is known is the source (reri), a vendor decoder knows the    *)
(* section (non_standard), the device's corrected error threshold is       *)
(* reached (cxl_dram), a SIGBUS has a code that signal_msg[] has not       *)
(* (signal).                                                               *)
Records ==
    {e \in [type : Types, sev : {"Corrected", "Uncorrected", "Fatal", "Info"},
            cnt : Counts \cup {1}, sec : Seconds, flag : BOOLEAN] :
        /\ e.sev # "Info" => e.type \in {"mc", "aer", "arm", "reri"}
        /\ e.flag => e.type \in {"aer", "arm", "reri", "non_standard", "cxl_dram", "signal"}
        /\ e.type = "mc" => e.cnt \in Counts
        /\ ~(e.type = "mc" /\ e.sev = "Corrected") =>
              e.cnt = 1 /\ \A t \in Seconds : e.sec <= t}

NoUuid == <<0, "none">>

Init ==
    /\ AbrtInit
    /\ record \in BOOLEAN /\ trig \in TriggerSets
    /\ ev \in {e \in Records : e.type = "mce"}
    /\ pc = 0 /\ done = {} /\ left = "unread" /\ child = "none"
    /\ heap = 0 /\ torn = 0 /\ dumps = 0 /\ uuid = NoUuid /\ hdr_uuid = NoUuid
    /\ cur = 0 /\ per_sec_ce_count = 0 /\ ces = << >> /\ seen = 0

TypeOK ==
    /\ AbrtTypeOK
    /\ record \in BOOLEAN /\ trig \in TriggerSets
    /\ ev.type \in Types /\ pc \in 0..Len(Handler[ev.type])
    /\ done \subseteq {"store", "decode", "stat", "page", "row", "cpu", "offline",
                   "report", "amp_sel", "sel", "trigger"}
    /\ left \in {"no", "unread", "parse", "filter", "memory", "sel"}
    /\ child \in {"none", "running", "exited"}
    /\ torn \in 0..MaxEvents /\ dumps \in 0..MaxEvents /\ heap \in 0..2 * MaxEvents
    /\ seen \in 0..MaxEvents
    /\ uuid \in (0..MaxEvents) \X {"none", "header", "region"}
    /\ hdr_uuid \in (0..MaxEvents) \X {"none", "header", "region"}
    /\ cur \in Seconds \cup {0} /\ per_sec_ce_count \in Nat

-----------------------------------------------------------------------------
At(step) == pc # 0 /\ death = "no" /\ Handler[ev.type][pc] = step

Advance == pc' = IF pc < Len(Handler[ev.type]) THEN pc + 1 ELSE 0

(* The handler returns before its end.                                     *)
Leave(why) == pc' = 0 /\ left' = why

Effect(e) == done' = done \cup {e}

(* Everything but these is as it was.                                      *)
KeepAbrt == UNCHANGED abrtvars
KeepStat == UNCHANGED <<cur, per_sec_ce_count, ces>>
KeepUuid == UNCHANGED <<uuid, hdr_uuid>>
KeepMem == UNCHANGED <<heap, torn, dumps>>
KeepConf == UNCHANGED <<record, trig, seen>>

(* parse_ras_data hands the next record to its handler.                    *)
Dispatch(e) ==
    /\ pc = 0 /\ death = "no" /\ seen < MaxEvents
    /\ ev' = e /\ pc' = 1 /\ done' = {} /\ left' = "no" /\ seen' = seen + 1
    /\ got' = Nothing /\ hdr_uuid' = NoUuid
    /\ UNCHANGED <<abrt, sock, part, sigpipe, death, record, trig, child, uuid>>
    /\ KeepStat /\ KeepMem

(* The mandatory fields are there ...                                      *)
Fields ==
    /\ At("fields") /\ Advance
    /\ UNCHANGED <<ev, done, left, child>> /\ KeepAbrt /\ KeepStat /\ KeepUuid /\ KeepMem /\ KeepConf

(* ... or one is not, or a vendor's parser refuses the record: the handler *)
(* returns, and what it allocated stays allocated.                         *)
FieldMissing ==
    /\ At("fields") /\ Leave("parse")
    /\ torn' = torn + (IF \E k \in 1..pc : Handler[ev.type][k] = "alloc" THEN 1 ELSE 0)
    /\ UNCHANGED <<ev, done, child, heap, dumps>> /\ KeepAbrt /\ KeepStat /\ KeepUuid /\ KeepConf

(* ARM: pei_len is optional; with it the error, context and vendor buffers *)
(* are mandatory.                                                          *)
PeiFields ==
    /\ At("pei")
    /\ \/ Advance /\ UNCHANGED left
       \/ ev.flag /\ Leave("parse")
    /\ UNCHANGED <<ev, done, child>> /\ KeepAbrt /\ KeepStat /\ KeepUuid /\ KeepMem /\ KeepConf

(* A raw field used without a look at the pointer: tlp_header when it is   *)
(* said to be valid, fru_id and data always.  signal_msg[] is indexed by   *)
(* the code of any SIGBUS.                                                 *)
RawField ==
    /\ At("raw")
    /\ \/ Advance /\ UNCHANGED death
       \/ /\ ev.type \in {"aer", "signal"} => ev.flag
          /\ death' = "segv" /\ UNCHANGED pc
    /\ UNCHANGED <<ev, done, left, child, abrt, sock, part, got, sigpipe>>
    /\ KeepStat /\ KeepUuid /\ KeepMem /\ KeepConf

(* devlink_health_report: tep_filter_match == FILTER_MATCH.                *)
Filter ==
    /\ At("filter")
    /\ \/ Advance /\ UNCHANGED left
       \/ Leave("filter")
    /\ UNCHANGED <<ev, done, child>> /\ KeepAbrt /\ KeepStat /\ KeepUuid /\ KeepMem /\ KeepConf

Alloc ==
    /\ At("alloc")
    /\ \/ Advance /\ heap' = heap + 1 /\ UNCHANGED left
       \/ Leave("memory") /\ UNCHANGED heap
    /\ UNCHANGED <<ev, done, child, torn, dumps>> /\ KeepAbrt /\ KeepStat /\ KeepUuid /\ KeepConf

Free ==
    /\ At("free") /\ Advance
    /\ heap' = heap - 1
    /\ UNCHANGED <<ev, done, left, child, torn, dumps>> /\ KeepAbrt /\ KeepStat /\ KeepUuid /\ KeepConf

(* ev.hdr.hdr_uuid, and later ev.region_uuid, point to the one static      *)
(* buffer; what they point to is what was formatted last.                  *)
uuid_be ==
    /\ \/ At("uuid_hdr") /\ uuid' = <<seen, "header">>
       \/ At("uuid_region") /\ uuid' = <<seen, "region">>
    /\ Advance
    /\ UNCHANGED <<ev, done, left, child, hdr_uuid>> /\ KeepAbrt /\ KeepStat /\ KeepMem /\ KeepConf

(* ras_store_*_event.  Without a database it returns 0.  "store" is the    *)
(* call with one: whether the row arrives is not decided here, since the   *)
(* handler does not look at the answer.  A table that could not be created *)
(* has no statement and a failed step is only logged, both of which        *)
(* RasEvents models, as RasRecord does what a step does to the row.        *)
Store ==
    /\ At("store") /\ Advance
    /\ done' = IF record THEN done \cup {"store"} ELSE done
    /\ hdr_uuid' = IF record THEN uuid ELSE hdr_uuid
    /\ UNCHANGED <<ev, left, child, uuid>> /\ KeepAbrt /\ KeepStat /\ KeepMem /\ KeepConf

(* The decoder of the section type, when one is registered.  Most leave    *)
(* nothing allocated; Yitian's keeps a copy of the registers of every DDR  *)
(* section, which nobody frees, and copies to NULL when there is no memory *)
(* for it.  JaguarMicro's dies on a table that could not be created        *)
(* (module NonStandard).                                                   *)
Decode ==
    /\ At("decode")
    /\ \/ ~ev.flag /\ Advance /\ UNCHANGED <<done, death, heap, dumps>>
       \/ ev.flag /\ Effect("decode") /\ Advance /\ UNCHANGED <<death, heap, dumps>>
       \/ ev.flag /\ Effect("decode") /\ Advance /\ heap' = heap + 1 /\ dumps' = dumps + 1
          /\ UNCHANGED death
       \/ ev.flag /\ death' = "segv" /\ UNCHANGED <<pc, done, heap, dumps>>
    /\ UNCHANGED <<ev, left, child, torn, abrt, sock, part, got, sigpipe>>
    /\ KeepStat /\ KeepUuid /\ KeepConf

\* Mutant: the count is not restarted in a new second.
ras_mc_event_stat_NoReset ==
    /\ At("stat") /\ Advance
    /\ IF ev.sev = "Corrected"
       THEN /\ Effect("stat")
            /\ cur' = ev.sec
            /\ per_sec_ce_count' = per_sec_ce_count + ev.cnt
            /\ ces' = Append(ces, <<ev.sec, ev.cnt>>)
       ELSE UNCHANGED done /\ KeepStat
    /\ UNCHANGED <<ev, left, child>> /\ KeepAbrt /\ KeepUuid /\ KeepMem /\ KeepConf

ras_mc_event_stat ==
    /\ At("stat") /\ Advance
    /\ IF ev.sev = "Corrected"
       THEN /\ Effect("stat")
            /\ cur' = ev.sec
            /\ per_sec_ce_count' = IF cur = ev.sec THEN per_sec_ce_count + ev.cnt ELSE ev.cnt
            /\ ces' = Append(ces, <<ev.sec, ev.cnt>>)
       ELSE UNCHANGED done /\ KeepStat
    /\ UNCHANGED <<ev, left, child>> /\ KeepAbrt /\ KeepUuid /\ KeepMem /\ KeepConf

(* ras_record_page_error, for corrected errors.                            *)
PageError ==
    /\ At("page") /\ Advance
    /\ IF ev.sev = "Corrected" THEN Effect("page") ELSE UNCHANGED done
    /\ UNCHANGED <<ev, left, child>> /\ KeepAbrt /\ KeepStat /\ KeepUuid /\ KeepMem /\ KeepConf

(* ras_record_row_error; a count of 0 becomes 1 from here on, after the    *)
(* row was stored and the page accounted with 0.                           *)
RowError ==
    /\ At("row") /\ Advance
    /\ ev' = [ev EXCEPT !.cnt = IF @ = 0 THEN 1 ELSE @]
    /\ IF ev.sev = "Corrected" THEN Effect("row") ELSE UNCHANGED done
    /\ UNCHANGED <<left, child>> /\ KeepAbrt /\ KeepStat /\ KeepUuid /\ KeepMem /\ KeepConf

(* ras_record_cpu_error.  ARM (ras_handle_cpu_error): the cpu or the       *)
(* severity may be missing or nothing be counted, which is only logged.    *)
CpuError ==
    /\ At("cpu") /\ Advance
    /\ \/ /\ ev.flag
          /\ ev.sev \in IF ev.type = "arm" THEN {"Corrected", "Uncorrected"} ELSE {"Uncorrected", "Fatal"}
          /\ Effect("cpu")
       \/ /\ ev.type = "arm" \/ ~ev.flag \/ ev.sev \notin {"Uncorrected", "Fatal"}
          /\ UNCHANGED done
    /\ UNCHANGED <<ev, left, child>> /\ KeepAbrt /\ KeepStat /\ KeepUuid /\ KeepMem /\ KeepConf

(* ras_hw_threshold_pageoffline.                                           *)
HwOffline ==
    /\ At("offline") /\ Advance
    /\ IF ev.flag THEN Effect("offline") ELSE UNCHANGED done
    /\ UNCHANGED <<ev, left, child>> /\ KeepAbrt /\ KeepStat /\ KeepUuid /\ KeepMem /\ KeepConf

-----------------------------------------------------------------------------
(* The report.  RERI events are reported when recording, and when severe.  *)
Reports == ev.type = "reri" => record /\ ev.sev \in {"Uncorrected", "Fatal"}

(* The types commit_report_backtrace has a case for.                       *)
HasBacktrace == ev.type # "reri"

KeepHandler ==
    /\ UNCHANGED <<ev, left, child>>
    /\ KeepStat /\ KeepUuid /\ KeepMem /\ KeepConf

NoReport == At("report") /\ ~Reports /\ Advance /\ KeepAbrt /\ UNCHANGED done /\ KeepHandler

ReportConnect ==
    /\ At("report") /\ Reports
    /\ Effect("report")
    /\ \/ setup_report_socket /\ UNCHANGED pc
       \/ setup_fails /\ Advance
    /\ KeepHandler

ReportWrite ==
    /\ At("report")
    /\ \/ IsBacktrace /\ ~HasBacktrace /\ backtrace_unknown
       \/ /\ IsBacktrace => HasBacktrace
          /\ write_whole \/ write_short \/ write_unterminated \/ write_fails \/ write_sigpipe
    /\ UNCHANGED <<pc, done>> /\ KeepHandler

\* Mutant: a report that did not get through is sent again, and again.
ReportClose_Retry ==
    /\ At("report") /\ report_close
    /\ IF got["REASON"] = "not" THEN UNCHANGED pc ELSE Advance
    /\ UNCHANGED done /\ KeepHandler

ReportClose == At("report") /\ report_close /\ Advance /\ UNCHANGED done /\ KeepHandler

-----------------------------------------------------------------------------
(* The Ampere branch runs ipmitool through system(), which waits for it,   *)
(* when the device's name has four numbers; a failure is only logged.      *)
AmpSel ==
    /\ At("amp_sel") /\ Advance
    /\ Effect("amp_sel") \/ UNCHANGED done
    /\ UNCHANGED <<ev, left, child>> /\ KeepAbrt /\ KeepStat /\ KeepUuid /\ KeepMem /\ KeepConf

(* openbmc_unified_sel_log; a failure returns from the handler, triggers   *)
(* and all.                                                                *)
Sel ==
    /\ At("sel")
    /\ \/ Effect("sel") /\ Advance /\ UNCHANGED left
       \/ Leave("sel") /\ UNCHANGED done
    /\ UNCHANGED <<ev, child>> /\ KeepAbrt /\ KeepStat /\ KeepUuid /\ KeepMem /\ KeepConf

\* Mutant: the name of the severity is compared as a whole for AER too.
TriggerOf_Exact(e) ==
    CASE e.type = "mc" /\ e.sev = "Corrected" -> "mc_ce"
      [] e.type = "mc" /\ e.sev = "Uncorrected" -> "mc_ue"
      [] e.type = "aer" /\ e.sev = "Corrected" -> "aer_ce"
      [] e.type = "aer" /\ e.sev = "Uncorrected" -> "aer_ue"
      [] e.type = "mf" -> "mf"
      [] OTHER -> "none"

(* The trigger an event asks for: "Uncorrected" in full for the memory     *)
(* controller, as a prefix, fatal ones included, for AER.                  *)
TriggerOf(e) ==
    CASE e.type = "mc" /\ e.sev = "Corrected" -> "mc_ce"
      [] e.type = "mc" /\ e.sev = "Uncorrected" -> "mc_ue"
      [] e.type = "aer" /\ e.sev = "Corrected" -> "aer_ce"
      [] e.type = "aer" /\ e.sev \in {"Uncorrected", "Fatal"} -> "aer_ue"
      [] e.type = "mf" -> "mf"
      [] OTHER -> "none"

NoTrigger ==
    /\ At("trigger") /\ TriggerOf(ev) \notin trig /\ Advance
    /\ KeepAbrt /\ UNCHANGED done /\ KeepHandler

(* run_*_trigger and run_trigger: without memory or a process nothing is   *)
(* run.                                                                    *)
run_trigger ==
    /\ At("trigger") /\ TriggerOf(ev) \in trig /\ child = "none"
    /\ Effect("trigger")
    /\ \/ child' = "running" /\ UNCHANGED pc
       \/ Advance /\ UNCHANGED child
    /\ UNCHANGED <<ev, left>> /\ KeepAbrt /\ KeepStat /\ KeepUuid /\ KeepMem /\ KeepConf

TriggerExits ==
    /\ child = "running" /\ child' = "exited"
    /\ UNCHANGED <<record, trig, ev, pc, done, left, uuid, hdr_uuid, seen>>
    /\ KeepAbrt /\ KeepStat /\ KeepMem

\* Mutant: waitpid with WNOHANG.
wait_trigger_NoHang ==
    /\ At("trigger") /\ child # "none" /\ Advance
    /\ child' = IF child = "exited" THEN "none" ELSE child
    /\ UNCHANGED <<ev, done, left>> /\ KeepAbrt /\ KeepStat /\ KeepUuid /\ KeepMem /\ KeepConf

(* waitpid(child, &status, 0).                                             *)
wait_trigger ==
    /\ At("trigger") /\ child = "exited" /\ Advance
    /\ child' = "none"
    /\ UNCHANGED <<ev, done, left>> /\ KeepAbrt /\ KeepStat /\ KeepUuid /\ KeepMem /\ KeepConf

-----------------------------------------------------------------------------
HandlerStep ==
    \/ Fields \/ FieldMissing \/ PeiFields \/ RawField \/ Filter \/ Alloc \/ Free
    \/ uuid_be \/ Store \/ Decode \/ ras_mc_event_stat
    \/ PageError \/ RowError \/ CpuError \/ HwOffline
    \/ NoReport \/ ReportConnect \/ ReportWrite \/ ReportClose
    \/ AmpSel \/ Sel \/ NoTrigger \/ run_trigger \/ wait_trigger

Abrtd == (AbrtDown \/ AbrtUp) /\ UNCHANGED hvars

Next ==
    \/ HandlerStep
    \/ \E e \in Records : Dispatch(e)
    \/ TriggerExits
    \/ Abrtd

(* The daemon runs, and the user's scripts end: waitpid has no timeout.    *)
Spec == Init /\ [][Next]_vars /\ WF_vars(HandlerStep) /\ WF_vars(TriggerExits)

-----------------------------------------------------------------------------
Idle == pc = 0 /\ death = "no"

(* Whatever waits for another process or dies of one comes after the call  *)
(* that stores the event: while a report is under way, while a trigger is  *)
(* waited for, and when SIGPIPE ended the daemon, that call was made.  (A  *)
(* field or a decoder that ends the daemon with SIGSEGV may come earlier.) *)
StoredBeforeRisk ==
    record /\ (part # 0 \/ child # "none" \/ death = "sigpipe") => "store" \in done

(* When a page, row or CPU was accounted or offlined for an event, the     *)
(* call that stores the event was made too by the end of the handler, for  *)
(* the operator to tell why; except for a CXL DRAM event, whose page is    *)
(* offlined before its last fields are read.                               *)
IsolationIsRecorded ==
    Idle /\ record /\ done \cap {"page", "row", "cpu", "offline"} # {} =>
        "store" \in done \/ ev.type = "cxl_dram"

(* What a record that has all its fields is due, type by type.             *)
Due ==
    {x \in {"store", "page", "row", "offline", "report", "trigger"} :
        \/ x = "store" /\ record /\ ev.type # "cxl_sparing"
        \/ x \in {"page", "row"} /\ ev.type = "mc" /\ ev.sev = "Corrected"
        \/ x = "offline" /\ ev.type = "cxl_dram" /\ ev.flag
        \/ x = "report" /\ ev.type \notin {"extlog", "cxl_sparing", "reri"}
        \/ x = "trigger" /\
             \/ ev.type = "mc" /\ ev.sev = "Corrected" /\ "mc_ce" \in trig
             \/ ev.type = "mc" /\ ev.sev = "Uncorrected" /\ "mc_ue" \in trig
             \/ ev.type = "aer" /\ ev.sev = "Corrected" /\ "aer_ce" \in trig
             \/ ev.type = "aer" /\ ev.sev \in {"Uncorrected", "Fatal"} /\ "aer_ue" \in trig
             \/ ev.type = "mf" /\ "mf" \in trig}

(* A handler that did not leave early did everything the record is due,    *)
(* whatever abrtd, fork and the other services answered on the way: a      *)
(* failed report does not cost the trigger.                                *)
CompleteIsHandled == Idle /\ left = "no" => Due \subseteq done

(* Between two records a handler leaves nothing behind, its socket closed, *)
(* its child reaped, what it allocated freed, with two exceptions: one     *)
(* name for each disk error that could not be parsed to the end, and one   *)
(* register dump for each DDR section that Yitian's decoder decoded.       *)
NothingLeftBehind ==
    Idle => sock = "closed" /\ child = "none" /\ heap = torn + dumps

(* The corrected errors of each record of the present second: of those     *)
(* since the time stamp last changed, in either direction.                 *)
OfThisSecond ==
    [n \in DOMAIN ces |-> IF \A k \in n..Len(ces) : ces[k][1] = cur THEN ces[n][2] ELSE 0]

\* Sum of the first n numbers of c.
SumTo(c, n) ==
    LET sum[m \in 0..n] == IF m = 0 THEN 0 ELSE sum[m-1] + c[m]
    IN  sum[n]

(* per_sec_ce_count is the number of corrected errors in the records of    *)
(* one second.  (ras_mc_event_stat)                                        *)
PerSecondCount == per_sec_ce_count = SumTo(OfThisSecond, Len(ces))

(* The header uuid in a CXL event's row is the one of that event's header, *)
(* except where the handler formats the region's uuid too: general media   *)
(* and DRAM rows have the region's in both columns.  (uuid_be)             *)
HeaderUuidStored ==
    "store" \in done /\ ev.type \in {"cxl_generic", "cxl_module", "cxl_media", "cxl_dram"} =>
        hdr_uuid = <<seen, IF ev.type \in {"cxl_media", "cxl_dram"} THEN "region" ELSE "header">>

(* Every handler returns, provided the trigger it runs ends.               *)
HandlerReturns == pc # 0 ~> pc = 0 \/ death # "no"
=============================================================================
