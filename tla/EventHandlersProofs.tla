------------------------ MODULE EventHandlersProofs ------------------------
(***************************************************************************)
(* The properties of the event handlers, for every sequence of records,    *)
(* every set of triggers, every answer of abrtd, fork and ipmitool.  The   *)
(* argument has two halves: what the order of the steps is in each of the  *)
(* 21 handlers (LineOK, the only place that looks at them), and an         *)
(* invariant that ties what a handler has done to how far it has come.     *)
(***************************************************************************)
EXTENDS EventHandlers, WellFoundedInduction, TLAPS

Steps(h) == 1..Len(h)
Has(h, s) == \E k \in Steps(h) : h[k] = s
Before(h, k, s) == \E j \in 1..k - 1 : h[j] = s
Isolating == {"page", "row", "cpu", "offline"}
CxlTypes == {"cxl_generic", "cxl_module", "cxl_media", "cxl_dram"}
RegionTypes == {"cxl_media", "cxl_dram"}

(* The order of the steps in the handler of records of type t.             *)
LineOK(t, h) ==
    /\ Len(h) \in Nat \ {0}
    \* What may hang or kill the daemon comes after the store.
    /\ \A k \in Steps(h) : h[k] \in {"report", "trigger"} => Before(h, k, "store")
    \* What is allocated is freed by the last step, and only a missing field skips that.
    /\ \A k \in Steps(h) : h[k] = "free" => k = Len(h) /\ Before(h, k, "alloc")
    /\ \A k \in Steps(h) : h[k] = "alloc" =>
          /\ h[Len(h)] = "free" /\ ~Before(h, k, "alloc")
          /\ \A j \in Steps(h) : h[j] \notin {"pei", "filter", "sel", "decode"}
    \* A section is decoded once.
    /\ \A k \in Steps(h) : h[k] = "decode" => ~Before(h, k, "decode")
    \* A header's uuid does not follow a region's, and is formatted before the store.
    /\ \A k \in Steps(h) : h[k] = "uuid_hdr" => ~Before(h, k, "uuid_region")
    /\ t \in CxlTypes => \A k \in Steps(h) : h[k] = "store" =>
          IF t \in RegionTypes THEN Before(h, k, "uuid_region")
          ELSE Before(h, k, "uuid_hdr") /\ ~Before(h, k, "uuid_region")
    \* The store is done, or is next, when something is isolated.
    /\ t # "cxl_dram" => \A k \in Steps(h) : h[k] \in Isolating =>
          Before(h, k, "store") \/ (k < Len(h) /\ h[k + 1] = "store")
    \* The steps a type has.
    /\ t # "cxl_sparing" => Has(h, "store")
    /\ t \notin {"extlog", "cxl_sparing"} => Has(h, "report")
    /\ t = "mc" => Has(h, "page") /\ Has(h, "row")
    /\ t = "cxl_dram" => Has(h, "offline")
    /\ t \in {"mc", "aer", "mf"} => Has(h, "trigger")

(* The 21 handlers.                                                        *)
LEMMA TypesAre ==
    Types = {"mc", "aer", "mce", "extlog", "non_standard", "arm", "reri", "devlink",
             "net_xmit", "disk", "mf", "signal", "cxl_poison", "cxl_ue", "cxl_ce",
             "cxl_overflow", "cxl_generic", "cxl_media", "cxl_dram", "cxl_module",
             "cxl_sparing"}
  BY DEF Types, Handler

(* Every handler has its steps in order.                                   *)
LEMMA Lines == \A t \in Types : LineOK(t, Handler[t])
<1> USE DEF LineOK, Steps, Has, Before, Isolating, CxlTypes, RegionTypes, Handler
<1>1. LineOK("mc", Handler["mc"])
  BY DEF ras_mc_event_handler
<1>2. LineOK("aer", Handler["aer"])
  BY DEF ras_aer_event_handler
<1>3. LineOK("mce", Handler["mce"])
  BY DEF ras_mce_event_handler
<1>4. LineOK("extlog", Handler["extlog"])
  BY DEF ras_extlog_mem_event_handler
<1>5. LineOK("non_standard", Handler["non_standard"])
  BY DEF ras_non_standard_event_handler
<1>6. LineOK("arm", Handler["arm"])
  BY DEF ras_arm_event_handler
<1>7. LineOK("reri", Handler["reri"])
  BY DEF ras_reri_event_handler
<1>8. LineOK("devlink", Handler["devlink"])
  BY DEF ras_devlink_event_handler
<1>9. LineOK("net_xmit", Handler["net_xmit"])
  BY DEF ras_net_xmit_timeout_handler
<1>10. LineOK("disk", Handler["disk"])
  BY DEF ras_diskerror_event_handler
<1>11. LineOK("mf", Handler["mf"])
  BY DEF ras_memory_failure_event_handler
<1>12. LineOK("signal", Handler["signal"])
  BY DEF ras_signal_event_handler
<1>13. LineOK("cxl_poison", Handler["cxl_poison"])
  BY DEF ras_cxl_poison_event_handler
<1>14. LineOK("cxl_ue", Handler["cxl_ue"])
  BY DEF ras_cxl_aer_ue_event_handler
<1>15. LineOK("cxl_ce", Handler["cxl_ce"])
  BY DEF ras_cxl_aer_ce_event_handler
<1>16. LineOK("cxl_overflow", Handler["cxl_overflow"])
  BY DEF ras_cxl_overflow_event_handler
<1>17. LineOK("cxl_generic", Handler["cxl_generic"])
  BY DEF ras_cxl_generic_event_handler, handle_ras_cxl_common_hdr
<1>18. LineOK("cxl_media", Handler["cxl_media"])
  BY DEF ras_cxl_general_media_event_handler, handle_ras_cxl_common_hdr
<1>19. LineOK("cxl_dram", Handler["cxl_dram"])
  BY DEF ras_cxl_dram_event_handler, handle_ras_cxl_common_hdr
<1>20. LineOK("cxl_module", Handler["cxl_module"])
  BY DEF ras_cxl_memory_module_event_handler, handle_ras_cxl_common_hdr
<1>21. LineOK("cxl_sparing", Handler["cxl_sparing"])
  BY DEF ras_cxl_memory_sparing_event_handler, handle_ras_cxl_common_hdr
<1> HIDE DEF LineOK, Steps, Has, Before, Isolating, CxlTypes, RegionTypes, Handler
<1> QED
  BY <1>1, <1>2, <1>3, <1>4, <1>5, <1>6, <1>7, <1>8, <1>9, <1>10, <1>11,
     <1>12, <1>13, <1>14, <1>15, <1>16, <1>17, <1>18, <1>19, <1>20, <1>21, TypesAre, Zenon

-----------------------------------------------------------------------------
(* The invariant.                                                          *)
Line == Handler[ev.type]
Step == Line[pc]
Effects == {"store", "decode", "stat", "page", "row", "cpu", "offline", "report",
            "amp_sel", "sel", "trigger"}
Event == [type : Types, sev : {"Corrected", "Uncorrected", "Fatal", "Info"}, cnt : Nat,
          sec : Seconds, flag : BOOLEAN]

ControlOK ==
    /\ record \in BOOLEAN /\ trig \in TriggerSets /\ ev \in Event
    /\ pc \in 0..Len(Line) /\ done \subseteq Effects
    /\ left \in {"no", "unread", "parse", "filter", "memory", "sel"}
    /\ child \in {"none", "running", "exited"}

DataOK ==
    /\ heap \in Nat /\ torn \in Nat /\ dumps \in Nat /\ seen \in 0..MaxEvents
    /\ uuid \in (0..MaxEvents) \X {"none", "header", "region"}
    /\ hdr_uuid \in (0..MaxEvents) \X {"none", "header", "region"}
    /\ cur \in Seconds \cup {0} /\ per_sec_ce_count \in Nat

(* A report, and so its socket, lives in one step of a handler.            *)
ReportOK ==
    /\ part # 0 <=> sock # "closed"
    /\ part # 0 => pc # 0 /\ Step = "report" /\ Reports /\ "report" \in done
    /\ death = "sigpipe" => part # 0

(* So does a child.                                                        *)
ChildOK ==
    child # "none" => /\ pc # 0 /\ Step = "trigger"
                      /\ TriggerOf(ev) \in trig /\ "trigger" \in done

(* What abrtd got, in the order of the parts.                              *)
GotOK ==
    /\ part \in 1..7 => got["REASON"] = "not"
    /\ part \in 6..7 => got["BACKTRACE"] \in {"whole", "unterminated"}

(* What a step that was passed has done, if it was due.                    *)
Passed(s) ==
    /\ s = "store" /\ record => "store" \in done
    /\ s = "page" /\ ev.sev = "Corrected" => "page" \in done
    /\ s = "row" /\ ev.sev = "Corrected" => "row" \in done
    /\ s = "offline" /\ ev.flag => "offline" \in done
    /\ s = "report" /\ Reports => "report" \in done
    /\ s = "trigger" /\ TriggerOf(ev) \in trig => "trigger" \in done

(* Everything before the step the handler is at was passed, and everything *)
(* at all when it is done and did not leave early.                         *)
PassedOK ==
    /\ pc # 0 => \A k \in 1..pc - 1 : Passed(Line[k])
    /\ pc = 0 /\ left = "no" => \A k \in Steps(Line) : Passed(Line[k])

(* Between the isolation and the row there is no way out.                  *)
IsolationOK ==
    record /\ done \cap Isolating # {} /\ ev.type # "cxl_dram" =>
        "store" \in done \/ (pc # 0 /\ Step = "store")

Holding == pc # 0 /\ Before(Line, pc, "alloc")
HeapOK ==
    /\ heap = torn + dumps + (IF Holding THEN 1 ELSE 0)
    /\ torn <= seen /\ (pc # 0 => torn < seen)
DumpsOK == dumps <= seen /\ (pc # 0 /\ ~Before(Line, pc, "decode") => dumps < seen)

UuidOK ==
    pc # 0 => /\ Before(Line, pc, "uuid_region") => uuid = <<seen, "region">>
              /\ Before(Line, pc, "uuid_hdr") /\ ~Before(Line, pc, "uuid_region") =>
                     uuid = <<seen, "header">>

HandlerInv ==
    /\ AbrtTypeOK /\ ControlOK /\ DataOK
    /\ ReportOK /\ ChildOK /\ GotOK /\ FiledIsWhole
    /\ PassedOK /\ IsolationOK /\ HeapOK /\ DumpsOK /\ UuidOK /\ HeaderUuidStored

-----------------------------------------------------------------------------
(* Where a step of a handler leads.                                        *)
Same ==
    /\ ev'.type = ev.type /\ ev'.sev = ev.sev /\ ev'.flag = ev.flag
    /\ record' = record /\ trig' = trig /\ seen' = seen
Goes == Advance /\ left' = left
Leaves ==
    /\ pc' = 0 /\ left' \in {"parse", "filter", "memory", "sel"}
    /\ Step \in {"fields", "pei", "filter", "alloc", "sel"}
Stays == pc' = pc /\ left' = left /\ Step \in {"raw", "decode", "report", "trigger"}

(* What every step of a handler has in common: it belongs to the step the  *)
(* handler is at, it touches what that step is about and nothing else.     *)
Flow ==
    /\ pc # 0 /\ death = "no" /\ Same /\ ev' \in Event
    /\ Goes \/ Leaves \/ Stays
    /\ done' = done \/ (Step \in Effects /\ done' = done \cup {Step})
    /\ Step # "report" => UNCHANGED <<abrt, sock, part, got, sigpipe>> /\ death' \in {"no", "segv"}
    /\ Step # "trigger" => child' = child
    /\ Step \notin {"alloc", "free", "fields", "decode"} => heap' = heap /\ torn' = torn
    /\ Step # "decode" => dumps' = dumps
    /\ Step \notin {"uuid_hdr", "uuid_region"} => uuid' = uuid
    /\ Step # "store" => hdr_uuid' = hdr_uuid
    /\ Step # "stat" => cur' = cur /\ per_sec_ce_count' = per_sec_ce_count

(* Every one of the 24 kinds of step does.                                 *)
LEMMA FlowOfSteps == ControlOK /\ HandlerStep => Flow
<1> SUFFICES ASSUME ControlOK, HandlerStep PROVE Flow
  OBVIOUS
<1> USE DEF Flow, Same, Goes, Leaves, Stays, Step, Line, At, Leave, Effect, Effects,
        KeepAbrt, abrtvars, KeepStat, KeepUuid, KeepMem, KeepConf, KeepHandler
<1>0. ev \in Event
  BY DEF ControlOK
<1>1. CASE Fields
  BY <1>0, <1>1 DEF Fields
<1>2. CASE FieldMissing
  BY <1>0, <1>2 DEF FieldMissing
<1>3. CASE PeiFields
  BY <1>0, <1>3 DEF PeiFields
<1>4. CASE RawField
  BY <1>0, <1>4 DEF RawField
<1>5. CASE Filter
  BY <1>0, <1>5 DEF Filter
<1>6. CASE Alloc
  BY <1>0, <1>6 DEF Alloc
<1>7. CASE Free
  BY <1>0, <1>7 DEF Free
<1>8. CASE uuid_be
  BY <1>0, <1>8 DEF uuid_be
<1>9. CASE Store
  BY <1>0, <1>9 DEF Store
<1>10. CASE Decode
  BY <1>0, <1>10 DEF Decode
<1>11. CASE ras_mc_event_stat
  BY <1>0, <1>11 DEF ras_mc_event_stat
<1>12. CASE PageError
  BY <1>0, <1>12 DEF PageError
<1>13. CASE RowError
  <2>1. /\ ev' = [ev EXCEPT !.cnt = IF ev.cnt = 0 THEN 1 ELSE ev.cnt]
        /\ ev' \in Event
    BY <1>0, <1>13 DEF RowError, Event
  <2>2. ev'.type = ev.type /\ ev'.sev = ev.sev /\ ev'.flag = ev.flag
    BY <1>0, <2>1 DEF Event
  <2> QED
    BY <1>13, <2>1, <2>2 DEF RowError
<1>14. CASE CpuError
  BY <1>0, <1>14 DEF CpuError
<1>15. CASE HwOffline
  BY <1>0, <1>15 DEF HwOffline
<1>16. CASE NoReport
  BY <1>0, <1>16 DEF NoReport
<1>17. CASE ReportConnect
  BY <1>0, <1>17 DEF ReportConnect
<1>18. CASE ReportWrite
  BY <1>0, <1>18 DEF ReportWrite
<1>19. CASE ReportClose
  BY <1>0, <1>19 DEF ReportClose
<1>20. CASE Sel
  BY <1>0, <1>20 DEF Sel
<1>21. CASE NoTrigger
  BY <1>0, <1>21 DEF NoTrigger
<1>22. CASE run_trigger
  BY <1>0, <1>22 DEF run_trigger
<1>23. CASE wait_trigger
  BY <1>0, <1>23 DEF wait_trigger
<1>24. CASE AmpSel
  BY <1>0, <1>24 DEF AmpSel
<1> QED
  BY <1>1, <1>2, <1>3, <1>4, <1>5, <1>6, <1>7, <1>8, <1>9, <1>10, <1>11, <1>12, <1>13,
     <1>14, <1>15, <1>16, <1>17, <1>18, <1>19, <1>20, <1>21, <1>22, <1>23, <1>24 DEF HandlerStep

(* Which steps are taken where.                                            *)
LEMMA StepsAt ==
    ASSUME HandlerStep
    PROVE  /\ Step = "report" => NoReport \/ ReportConnect \/ ReportWrite \/ ReportClose
           /\ Step = "trigger" => NoTrigger \/ run_trigger \/ wait_trigger
           /\ Step = "alloc" => Alloc
           /\ Step = "free" => Free
           /\ Step = "decode" => Decode
           /\ Step = "fields" => Fields \/ FieldMissing
           /\ Step = "store" => Store
           /\ Step \in {"uuid_hdr", "uuid_region"} => uuid_be
           /\ Step = "stat" => ras_mc_event_stat
           /\ Step = "page" => PageError
           /\ Step = "row" => RowError
           /\ Step = "offline" => HwOffline
  BY DEF HandlerStep, At, Step, Line, Fields, FieldMissing, PeiFields, RawField, Filter, Alloc,
     Free, uuid_be, Store, Decode, ras_mc_event_stat, PageError, RowError, CpuError, HwOffline,
     NoReport, ReportConnect, ReportWrite, ReportClose, AmpSel, Sel, NoTrigger, run_trigger, wait_trigger

-----------------------------------------------------------------------------
(* The report to abrtd.                                                    *)

(* The moves of abrtd and of a report keep its types and what abrtd got.   *)
ReportMove ==
    \/ setup_report_socket \/ setup_fails \/ write_whole \/ write_short \/ write_unterminated
    \/ write_fails \/ write_sigpipe \/ backtrace_unknown \/ report_close \/ AbrtDown \/ AbrtUp

(* The parts by number.                                                    *)
LEMMA PartsAre ==
    /\ Len(Parts) = 7 /\ Fail = 8
    /\ \A k \in 1..7 : Parts[k] = "BACKTRACE" <=> k = 5
    /\ \A k \in 1..7 : Parts[k] = "REASON" <=> k = 7
  BY DEF Parts, Fail

(* What a write leaves with abrtd.                                         *)
LEMMA Reached ==
    ASSUME AbrtTypeOK, part \in 1..7, NEW how \in {"whole", "unterminated", "cut"}, Reach(how)
    PROVE  /\ got' \in [{"BACKTRACE", "REASON"} -> {"not", "whole", "unterminated", "cut"}]
           /\ got'["BACKTRACE"] = IF part = 5 THEN how ELSE got["BACKTRACE"]
           /\ got'["REASON"] = IF part = 7 THEN how ELSE got["REASON"]
<1>1. DOMAIN got = {"BACKTRACE", "REASON"}
  BY DEF AbrtTypeOK
<1>2. CASE part = 5
  BY <1>1, <1>2, PartsAre DEF AbrtTypeOK, Reach
<1>3. CASE part = 7
  BY <1>1, <1>3, PartsAre DEF AbrtTypeOK, Reach
<1>4. CASE part \notin {5, 7}
  BY <1>1, <1>4, PartsAre DEF AbrtTypeOK, Reach
<1> QED
  BY <1>2, <1>3, <1>4

(* A report that lost its backtrace stops before its last part.            *)
LEMMA ReportMoves ==
    ASSUME AbrtTypeOK, GotOK, FiledIsWhole, ReportMove
    PROVE  AbrtTypeOK' /\ GotOK' /\ FiledIsWhole'
<1> USE DEF GotOK, FiledIsWhole
<1>0. /\ part \in 0..8 /\ sock \in {"closed", "open", "hungup"} /\ abrt \in {"up", "down"}
      /\ got \in [{"BACKTRACE", "REASON"} -> {"not", "whole", "unterminated", "cut"}]
      /\ sigpipe \in {"default", "ignored"} /\ death \in {"no", "sigpipe", "segv"}
  BY PartsAre DEF AbrtTypeOK
<1>n. /\ Nothing \in [{"BACKTRACE", "REASON"} -> {"not", "whole", "unterminated", "cut"}]
      /\ Nothing["REASON"] = "not"
  BY DEF Nothing
<1>b. IsBacktrace <=> part = 5
  BY <1>0, PartsAre DEF IsBacktrace
<1>1. CASE setup_report_socket \/ setup_fails
  <2>1. /\ got' = Nothing /\ part' \in {0, 1} /\ sock' \in {"open", sock}
        /\ UNCHANGED <<abrt, sigpipe, death>>
    BY <1>0, <1>1 DEF setup_report_socket, setup_fails
  <2> QED
    BY <1>0, <1>n, <2>1, PartsAre DEF AbrtTypeOK
<1>2. CASE write_whole
  <2>1. /\ part \in 1..7 /\ Reach("whole") /\ part' = part + 1
        /\ UNCHANGED <<abrt, sock, sigpipe, death>>
    BY <1>2, PartsAre DEF write_whole
  <2>2. /\ got' \in [{"BACKTRACE", "REASON"} -> {"not", "whole", "unterminated", "cut"}]
        /\ got'["BACKTRACE"] = IF part = 5 THEN "whole" ELSE got["BACKTRACE"]
        /\ got'["REASON"] = IF part = 7 THEN "whole" ELSE got["REASON"]
    BY <2>1, Reached
  <2>3. AbrtTypeOK'
    BY <1>0, <2>1, <2>2, PartsAre DEF AbrtTypeOK
  <2> QED
    BY <2>1, <2>2, <2>3
<1>3. CASE write_short
  <2>1. /\ part \in 1..7 /\ Reach("cut") /\ part' = 8
        /\ UNCHANGED <<abrt, sock, sigpipe, death>>
    BY <1>3, PartsAre DEF write_short
  <2>2. /\ got' \in [{"BACKTRACE", "REASON"} -> {"not", "whole", "unterminated", "cut"}]
        /\ got'["BACKTRACE"] = IF part = 5 THEN "cut" ELSE got["BACKTRACE"]
        /\ got'["REASON"] = IF part = 7 THEN "cut" ELSE got["REASON"]
    BY <2>1, Reached
  <2>3. AbrtTypeOK'
    BY <1>0, <2>1, <2>2, PartsAre DEF AbrtTypeOK
  <2> QED
    BY <2>1, <2>2, <2>3
<1>4. CASE write_unterminated
  <2>1. /\ part \in 1..7 /\ Reach("unterminated") /\ part' = IF part = 5 THEN 6 ELSE 8
        /\ UNCHANGED <<abrt, sock, sigpipe, death>>
    BY <1>0, <1>4, <1>b, PartsAre DEF write_unterminated
  <2>2. /\ got' \in [{"BACKTRACE", "REASON"} -> {"not", "whole", "unterminated", "cut"}]
        /\ got'["BACKTRACE"] = IF part = 5 THEN "unterminated" ELSE got["BACKTRACE"]
        /\ got'["REASON"] = IF part = 7 THEN "unterminated" ELSE got["REASON"]
    BY <2>1, Reached
  <2>3. AbrtTypeOK'
    BY <1>0, <2>1, <2>2, PartsAre DEF AbrtTypeOK
  <2> QED
    BY <2>1, <2>2, <2>3
<1>5. CASE write_fails
  <2>1. /\ part \in 1..7 /\ part' = IF part = 5 THEN 8 ELSE part + 1
        /\ UNCHANGED <<abrt, sock, got, sigpipe, death>>
    BY <1>0, <1>5, <1>b, PartsAre DEF write_fails
  <2> QED
    BY <1>0, <2>1, PartsAre DEF AbrtTypeOK
<1>6. CASE write_sigpipe
  BY <1>0, <1>6, PartsAre DEF write_sigpipe, AbrtTypeOK
<1>7. CASE backtrace_unknown
  BY <1>0, <1>7, PartsAre DEF backtrace_unknown, AbrtTypeOK
<1>8. CASE report_close
  BY <1>0, <1>8, PartsAre DEF report_close, AbrtTypeOK
<1>9. CASE AbrtDown \/ AbrtUp
  BY <1>0, <1>9, PartsAre DEF AbrtDown, AbrtUp, AbrtTypeOK
<1> QED
  BY <1>1, <1>2, <1>3, <1>4, <1>5, <1>6, <1>7, <1>8, <1>9 DEF ReportMove

-----------------------------------------------------------------------------
(* The conjuncts of the invariant, under the steps of a handler.           *)

(* The handler of the current record.                                      *)
LEMMA CurrentLine ==
    ASSUME ControlOK
    PROVE  /\ ev.type \in Types /\ LineOK(ev.type, Line) /\ Len(Line) \in Nat \ {0}
           /\ pc \in 0..Len(Line) /\ (pc # 0 => pc \in Steps(Line))
  BY Lines DEF ControlOK, Event, Line, LineOK, Steps

(* What Flow says of the next step's place.                                *)
LEMMA NextPlace ==
    ASSUME ControlOK, Flow
    PROVE  /\ Line' = Line /\ pc \in Steps(Line)
           /\ Goes => \/ pc < Len(Line) /\ pc' = pc + 1 /\ pc' \in Steps(Line)
                      \/ pc = Len(Line) /\ pc' = 0
           /\ pc' \in 0..Len(Line)
<1>1. Line' = Line
  BY DEF Flow, Same, Line
<1>2. pc \in Steps(Line) /\ Len(Line) \in Nat \ {0}
  BY CurrentLine DEF Flow
<1>3. ASSUME Goes PROVE (pc < Len(Line) /\ pc' = pc + 1) \/ (pc = Len(Line) /\ pc' = 0)
  BY <1>2, <1>3 DEF Goes, Advance, Line, Steps
<1> QED
  BY <1>1, <1>2, <1>3 DEF Flow, Leaves, Stays, Steps

(* Types of the control state.                                             *)
LEMMA ControlKept == ControlOK /\ Flow /\ HandlerStep => ControlOK'
<1> SUFFICES ASSUME ControlOK, Flow, HandlerStep PROVE ControlOK'
  OBVIOUS
<1>1. record' \in BOOLEAN /\ trig' \in TriggerSets /\ ev' \in Event
  BY DEF ControlOK, Flow, Same
<1>2. pc' \in 0..Len(Line')
  BY NextPlace
<1>3. done' \subseteq Effects
  BY DEF ControlOK, Flow
<1>4. left' \in {"no", "unread", "parse", "filter", "memory", "sel"}
  BY DEF ControlOK, Flow, Goes, Leaves, Stays
<1>5. child' \in {"none", "running", "exited"}
  <2>1. CASE Step = "trigger"
    BY <2>1, StepsAt DEF ControlOK, NoTrigger, run_trigger, wait_trigger, KeepHandler
  <2> QED
    BY <2>1 DEF ControlOK, Flow
<1> QED
  BY <1>1, <1>2, <1>3, <1>4, <1>5 DEF ControlOK

(* Types of the data.                                                      *)
LEMMA DataKept == HandlerInv /\ Flow /\ HandlerStep => DataOK'
<1> SUFFICES ASSUME HandlerInv, Flow, HandlerStep PROVE DataOK'
  OBVIOUS
<1>0. DataOK /\ ControlOK
  BY DEF HandlerInv
<1>1. seen' \in 0..MaxEvents
  BY <1>0 DEF DataOK, Flow, Same
<1>2. heap' \in Nat /\ torn' \in Nat /\ dumps' \in Nat
  <2>1. CASE Step = "alloc"
    BY <1>0, <2>1, StepsAt DEF Alloc, DataOK
  <2>2. CASE Step = "free"
    <3>1. Holding
      BY <1>0, <2>2, CurrentLine DEF Flow, LineOK, Holding, Step
    <3>2. heap = torn + dumps + 1
      BY <3>1 DEF HandlerInv, HeapOK
    <3>3. heap' = heap - 1 /\ torn' = torn /\ dumps' = dumps
      BY <2>2, StepsAt DEF Free
    <3> QED
      BY <1>0, <3>2, <3>3 DEF DataOK
  <2>3. CASE Step = "fields"
    BY <1>0, <2>3, StepsAt DEF Fields, FieldMissing, KeepMem, DataOK
  <2>4. CASE Step = "decode"
    BY <1>0, <2>4, StepsAt DEF Decode, DataOK
  <2> QED
    BY <1>0, <2>1, <2>2, <2>3, <2>4 DEF Flow, DataOK
<1>3. uuid' \in (0..MaxEvents) \X {"none", "header", "region"}
  <2>1. CASE Step \in {"uuid_hdr", "uuid_region"}
    BY <1>0, <2>1, StepsAt DEF uuid_be, DataOK
  <2> QED
    BY <1>0, <2>1 DEF Flow, DataOK
<1>4. hdr_uuid' \in (0..MaxEvents) \X {"none", "header", "region"}
  <2>1. CASE Step = "store"
    BY <1>0, <2>1, StepsAt DEF Store, DataOK
  <2> QED
    BY <1>0, <2>1 DEF Flow, DataOK
<1>5. cur' \in Seconds \cup {0} /\ per_sec_ce_count' \in Nat
  <2>1. CASE Step = "stat"
    BY <1>0, <2>1, StepsAt DEF ras_mc_event_stat, KeepStat, DataOK, ControlOK, Event
  <2> QED
    BY <1>0, <2>1 DEF Flow, DataOK
<1> QED
  BY <1>1, <1>2, <1>3, <1>4, <1>5 DEF DataOK

(* The socket is open in the step of the report only.                      *)
LEMMA ReportKept == HandlerInv /\ Flow /\ HandlerStep => ReportOK'
<1> SUFFICES ASSUME HandlerInv, Flow, HandlerStep PROVE ReportOK'
  OBVIOUS
<1>0. ReportOK /\ ControlOK /\ AbrtTypeOK
  BY DEF HandlerInv
<1>r. Reports' <=> Reports
  BY DEF Flow, Same, Reports
<1>s. ASSUME pc' = pc PROVE Step' = Step
  BY <1>0, <1>s, NextPlace DEF Step
<1>d. done \subseteq done'
  BY DEF Flow
<1>1. CASE Step # "report"
  <2>1. part = 0 /\ sock = "closed"
    BY <1>0, <1>1 DEF ReportOK
  <2>2. part' = 0 /\ sock' = "closed" /\ death' # "sigpipe"
    BY <1>1, <2>1 DEF Flow
  <2> QED
    BY <2>2 DEF ReportOK
<1>2. CASE Step = "report" /\ NoReport
  <2>1. part' = part /\ sock' = sock /\ death' = "no" /\ ~Reports
    BY <1>2 DEF NoReport, KeepAbrt, abrtvars, Flow
  <2> QED
    BY <1>0, <2>1 DEF ReportOK
<1>3. CASE Step = "report" /\ ReportConnect
  <2>1. Reports /\ "report" \in done'
    BY <1>3 DEF ReportConnect, Effect
  <2>2. CASE setup_report_socket /\ UNCHANGED pc
    BY <1>0, <1>3, <1>r, <1>s, <2>1, <2>2 DEF setup_report_socket, Flow, ReportOK
  <2>3. CASE setup_fails
    BY <1>0, <1>3, <2>3 DEF setup_fails, Flow, ReportOK
  <2> QED
    BY <1>3, <2>2, <2>3 DEF ReportConnect
<1>4. CASE Step = "report" /\ ReportWrite
  <2>1. part # 0 /\ part' # 0 /\ sock' = sock /\ pc' = pc
    BY <1>0, <1>4, PartsAre DEF ReportWrite, write_whole, write_short, write_unterminated,
       write_fails, write_sigpipe, backtrace_unknown, IsBacktrace, AbrtTypeOK
  <2> QED
    BY <1>0, <1>4, <1>r, <1>s, <1>d, <2>1 DEF ReportOK, Flow
<1>5. CASE Step = "report" /\ ReportClose
  BY <1>5 DEF ReportClose, report_close, ReportOK, Flow
<1> QED
  BY <1>1, <1>2, <1>3, <1>4, <1>5, StepsAt

(* A child lives in the step of the trigger only: it is waited for.        *)
LEMMA ChildKept == HandlerInv /\ Flow /\ HandlerStep => ChildOK'
<1> SUFFICES ASSUME HandlerInv, Flow, HandlerStep PROVE ChildOK'
  OBVIOUS
<1>0. ChildOK /\ ControlOK
  BY DEF HandlerInv
<1>t. TriggerOf(ev)' = TriggerOf(ev) /\ trig' = trig
  BY DEF Flow, Same, TriggerOf
<1>s. ASSUME pc' = pc PROVE Step' = Step
  BY <1>0, <1>s, NextPlace DEF Step
<1>1. CASE Step # "trigger"
  BY <1>0, <1>1 DEF ChildOK, Flow
<1>2. CASE Step = "trigger" /\ NoTrigger
  BY <1>0, <1>2 DEF NoTrigger, KeepHandler, ChildOK
<1>3. CASE Step = "trigger" /\ run_trigger
  <2>1. TriggerOf(ev) \in trig /\ child = "none" /\ "trigger" \in done'
    BY <1>3 DEF run_trigger, Effect
  <2>2. CASE child' = "running" /\ UNCHANGED pc
    BY <1>3, <1>t, <1>s, <2>1, <2>2 DEF ChildOK, Flow
  <2>3. CASE UNCHANGED child
    BY <2>1, <2>3 DEF ChildOK
  <2> QED
    BY <1>3, <2>2, <2>3 DEF run_trigger
<1>4. CASE Step = "trigger" /\ wait_trigger
  BY <1>4 DEF wait_trigger, ChildOK
<1> QED
  BY <1>1, <1>2, <1>3, <1>4, StepsAt

(* The types of the report and what abrtd got.                             *)
LEMMA GotKept == HandlerInv /\ Flow /\ HandlerStep => AbrtTypeOK' /\ GotOK' /\ FiledIsWhole'
<1> SUFFICES ASSUME HandlerInv, Flow, HandlerStep PROVE AbrtTypeOK' /\ GotOK' /\ FiledIsWhole'
  OBVIOUS
<1>0. AbrtTypeOK /\ GotOK /\ FiledIsWhole
  BY DEF HandlerInv
<1>1. CASE UNCHANGED <<abrt, sock, part, got, sigpipe>> /\ death' \in {"no", "segv"}
  BY <1>0, <1>1 DEF AbrtTypeOK, GotOK, FiledIsWhole
<1>2. CASE ReportMove
  BY <1>0, <1>2, ReportMoves
<1>3. CASE Step = "report"
  <2>1. UNCHANGED abrtvars \/ ReportMove
    BY <1>3, StepsAt DEF NoReport, ReportConnect, ReportWrite, ReportClose, KeepAbrt, ReportMove
  <2> QED
    BY <1>1, <1>2, <2>1 DEF abrtvars, Flow
<1> QED
  BY <1>1, <1>3 DEF Flow

(* A step that is passed has done what was due.                            *)
LEMMA PassedStep ==
    ASSUME HandlerInv, Flow, HandlerStep, Goes
    PROVE  \A s : s = Step => Passed(s)'
<1> SUFFICES ASSUME NEW s, s = Step PROVE Passed(s)'
  OBVIOUS
<1>0. ReportOK /\ ChildOK /\ ControlOK
  BY DEF HandlerInv
<1>r. Reports' <=> Reports
  BY DEF Flow, Same, Reports
<1>t. TriggerOf(ev)' = TriggerOf(ev) /\ trig' = trig
  BY DEF Flow, Same, TriggerOf
<1>g. pc' # pc
  BY <1>0, NextPlace DEF Steps
<1>1. s = "store" /\ record' => "store" \in done'
  BY StepsAt DEF Store, KeepConf
<1>2. s = "page" /\ ev'.sev = "Corrected" => "page" \in done'
  BY StepsAt DEF PageError, Effect, Flow, Same
<1>3. s = "row" /\ ev'.sev = "Corrected" => "row" \in done'
  BY StepsAt DEF RowError, Effect, Flow, Same
<1>4. s = "offline" /\ ev'.flag => "offline" \in done'
  BY StepsAt DEF HwOffline, Effect, Flow, Same
<1>5. s = "report" /\ Reports' => "report" \in done'
  <2> SUFFICES ASSUME s = "report", Reports PROVE "report" \in done'
    BY <1>r
  <2>1. CASE ReportConnect
    BY <2>1 DEF ReportConnect, Effect
  <2>2. CASE ReportWrite
    BY <1>g, <2>2 DEF ReportWrite
  <2>3. CASE ReportClose
    <3>1. part # 0
      BY <2>3, PartsAre DEF ReportClose, report_close
    <3> QED
      BY <1>0, <3>1 DEF ReportOK, Flow
  <2> QED
    BY <2>1, <2>2, <2>3, StepsAt DEF NoReport
<1>6. s = "trigger" /\ TriggerOf(ev)' \in trig' => "trigger" \in done'
  <2> SUFFICES ASSUME s = "trigger", TriggerOf(ev) \in trig PROVE "trigger" \in done'
    BY <1>t
  <2>1. CASE run_trigger
    BY <2>1 DEF run_trigger, Effect
  <2>2. CASE wait_trigger
    BY <1>0, <2>2 DEF wait_trigger, ChildOK, Flow
  <2> QED
    BY <2>1, <2>2, StepsAt DEF NoTrigger
<1> QED
  BY <1>1, <1>2, <1>3, <1>4, <1>5, <1>6 DEF Passed

(* What was passed stays passed.                                           *)
LEMMA PassedStays == ASSUME Flow, NEW s, Passed(s) PROVE Passed(s)'
<1>1. /\ Reports' <=> Reports
      /\ TriggerOf(ev)' = TriggerOf(ev)
      /\ trig' = trig /\ record' = record /\ ev'.sev = ev.sev /\ ev'.flag = ev.flag
      /\ done \subseteq done'
  BY DEF Flow, Same, Reports, TriggerOf
<1> QED
  BY <1>1 DEF Passed

(* A handler does its steps one after the other.                           *)
LEMMA PassedKept == HandlerInv /\ Flow /\ HandlerStep => PassedOK'
<1> SUFFICES ASSUME HandlerInv, Flow, HandlerStep PROVE PassedOK'
  OBVIOUS
<1>0. /\ PassedOK /\ ControlOK /\ Line' = Line /\ pc # 0 /\ pc \in Steps(Line)
      /\ Len(Line) \in Nat \ {0}
  BY NextPlace, CurrentLine DEF HandlerInv, Flow
<1>1. \A k \in 1..pc - 1 : Passed(Line[k])'
  <2> SUFFICES ASSUME NEW k \in 1..pc - 1 PROVE Passed(Line[k])'
    OBVIOUS
  <2>1. Passed(Line[k])
    BY <1>0 DEF PassedOK
  <2>2. \A s : Passed(s) => Passed(s)'
    BY PassedStays
  <2>3. Line[k]' = Line[k]
    BY <1>0
  <2> QED
    BY <2>1, <2>2, <2>3 DEF Passed
<1>2. CASE Goes
  <2>1. ASSUME NEW k \in 1..pc PROVE Passed(Line[k])'
    <3>1. CASE k = pc
      <4>1. Line[k]' = Step
        BY <1>0, <3>1 DEF Step
      <4>2. \A s : s = Step => Passed(s)'
        BY <1>2, PassedStep
      <4> QED
        BY <4>1, <4>2 DEF Passed
    <3>2. CASE k # pc
      BY <1>0, <1>1, <3>2 DEF Steps
    <3> QED
      BY <3>1, <3>2
  <2>2. CASE pc < Len(Line) /\ pc' = pc + 1
    <3>1. pc' # 0 /\ 1..pc' - 1 = 1..pc
      BY <1>0, <2>2 DEF Steps
    <3> QED
      BY <2>1, <3>1 DEF PassedOK
  <2>3. CASE pc = Len(Line) /\ pc' = 0
    <3>1. Steps(Line)' = 1..pc
      BY <1>0, <2>3 DEF Steps
    <3> QED
      BY <2>1, <2>3, <3>1 DEF PassedOK
  <2> QED
    BY <1>0, <1>2, <2>2, <2>3, NextPlace
<1>3. CASE Leaves
  BY <1>3 DEF Leaves, PassedOK
<1>4. CASE Stays
  <2>1. pc' = pc
    BY <1>4 DEF Stays
  <2> QED
    BY <1>0, <1>1, <2>1 DEF PassedOK
<1> QED
  BY <1>2, <1>3, <1>4 DEF Flow

(* Nothing is isolated without the row, or without the row being next.     *)
LEMMA IsolationKept == HandlerInv /\ Flow /\ HandlerStep => IsolationOK'
<1> SUFFICES ASSUME HandlerInv, Flow, HandlerStep,
                    record, done' \cap Isolating # {}, ev.type # "cxl_dram"
             PROVE  "store" \in done' \/ (pc' # 0 /\ Step' = "store")
  BY DEF IsolationOK, Flow, Same
<1>0. /\ IsolationOK /\ PassedOK /\ ControlOK /\ Line' = Line /\ pc # 0 /\ pc \in Steps(Line)
      /\ LineOK(ev.type, Line)
  BY NextPlace, CurrentLine DEF HandlerInv, Flow
<1>d. done \subseteq done'
  BY DEF Flow
<1>1. CASE done \cap Isolating # {}
  <2>1. "store" \in done \/ Step = "store"
    BY <1>0, <1>1 DEF IsolationOK
  <2>2. Step = "store" => "store" \in done'
    BY StepsAt DEF Store
  <2> QED
    BY <1>d, <2>1, <2>2
<1>2. CASE done \cap Isolating = {}
  <2>1. Step \in Isolating
    BY <1>2 DEF Flow
  <2>2. Line[pc] \in Isolating
    BY <2>1 DEF Step
  <2>3. Before(Line, pc, "store") \/ (pc < Len(Line) /\ Line[pc + 1] = "store")
    BY <1>0, <2>2 DEF LineOK
  <2>4. CASE Before(Line, pc, "store")
    <3>1. PICK j \in 1..pc - 1 : Line[j] = "store"
      BY <2>4 DEF Before
    <3>2. Passed(Line[j])
      BY <1>0 DEF PassedOK
    <3>3. "store" \in done
      BY <3>1, <3>2 DEF Passed
    <3> QED
      BY <1>d, <3>3
  <2>5. CASE pc < Len(Line) /\ Line[pc + 1] = "store"
    <3>1. Goes
      BY <2>1 DEF Flow, Leaves, Stays, Isolating
    <3>2. pc' = pc + 1
      BY <1>0, <2>5, <3>1, NextPlace DEF Steps
    <3>3. Step' = "store"
      BY <1>0, <2>5, <3>2 DEF Step
    <3> QED
      BY <1>0, <3>2, <3>3 DEF Steps
  <2> QED
    BY <2>3, <2>4, <2>5
<1> QED
  BY <1>1, <1>2

(* How Before grows when the handler goes on.                              *)
LEMMA BeforeNext ==
    ASSUME NEW h, NEW k \in Nat \ {0}, NEW s
    PROVE  Before(h, k + 1, s) <=> Before(h, k, s) \/ h[k] = s
<1>1. 1..(k + 1) - 1 = (1..k - 1) \cup {k}
  OBVIOUS
<1> QED
  BY <1>1 DEF Before

(* What is allocated is freed or torn.                                     *)
LEMMA HeapKept == HandlerInv /\ Flow /\ HandlerStep => HeapOK'
<1> SUFFICES ASSUME HandlerInv, Flow, HandlerStep PROVE HeapOK'
  OBVIOUS
<1>0. /\ HeapOK /\ ControlOK /\ DataOK /\ Line' = Line /\ pc # 0 /\ pc \in Steps(Line)
      /\ LineOK(ev.type, Line) /\ seen' = seen /\ Len(Line) \in Nat
  BY NextPlace, CurrentLine DEF HandlerInv, Flow, Same
<1>h. Holding <=> Before(Line, pc, "alloc")
  BY <1>0 DEF Holding
<1>n. heap \in Nat /\ torn \in Nat /\ dumps \in Nat /\ seen \in Nat /\ torn < seen
  BY <1>0, HandlersAssumption DEF HeapOK, DataOK
<1>g. ASSUME pc' = pc + 1 PROVE Holding' <=> Holding \/ Step = "alloc"
  BY <1>0, <1>h, <1>g, BeforeNext DEF Holding, Step, Steps
<1>d. Step # "decode" => dumps' = dumps
  BY DEF Flow
<1>1. CASE Step = "alloc"
  <2>1. Line[Len(Line)] = "free" /\ ~Holding
    BY <1>0, <1>1, <1>h DEF LineOK, Step
  <2>2. pc # Len(Line)
    BY <1>1, <2>1 DEF Step
  <2>3. torn' = torn
    BY <1>1, StepsAt DEF Alloc
  <2>4. CASE Leaves
    <3>1. heap' = heap /\ pc' = 0
      BY <1>0, <1>1, <2>2, <2>4, StepsAt DEF Alloc, Leaves, Advance, Steps, Line
    <3> QED
      BY <1>0, <1>1, <1>d, <1>n, <2>1, <2>3, <3>1 DEF HeapOK, Holding
  <2>5. CASE Goes
    <3>1. pc' = pc + 1
      BY <1>0, <2>2, <2>5, NextPlace
    <3>2. heap' = heap + 1
      BY <1>1, <3>1, <1>0, StepsAt DEF Alloc, Leave, Steps
    <3> QED
      BY <1>0, <1>1, <1>d, <1>g, <1>n, <2>1, <2>3, <3>1, <3>2 DEF HeapOK
  <2> QED
    BY <1>1, <2>4, <2>5 DEF Flow, Stays
<1>2. CASE Step = "free"
  <2>1. pc = Len(Line) /\ Holding
    BY <1>0, <1>2, <1>h DEF LineOK, Step
  <2>2. heap' = heap - 1 /\ torn' = torn /\ pc' = 0
    BY <1>2, <2>1, StepsAt DEF Free, Advance, Line
  <2> QED
    BY <1>0, <1>2, <1>d, <1>n, <2>1, <2>2 DEF HeapOK, Holding
<1>3. CASE Step = "fields" /\ FieldMissing
  <2>1. heap' = heap /\ pc' = 0 /\
        torn' = torn + (IF \E k \in 1..pc : Line[k] = "alloc" THEN 1 ELSE 0)
    BY <1>3 DEF FieldMissing, Leave, Line
  <2>2. (\E k \in 1..pc : Line[k] = "alloc") <=> Holding
    BY <1>0, <1>3, <1>h DEF Before, Step, Steps
  <2> QED
    BY <1>0, <1>3, <1>d, <1>n, <2>1, <2>2 DEF HeapOK, Holding
<1>4. CASE heap' = heap /\ torn' = torn /\ Step \notin {"alloc", "free", "decode"} /\ (Goes \/ Stays)
  <2>1. CASE pc' = pc
    BY <1>0, <1>4, <1>d, <2>1 DEF HeapOK, Holding
  <2>2. CASE pc' = pc + 1
    BY <1>0, <1>4, <1>d, <1>g, <1>n, <2>2 DEF HeapOK
  <2>3. CASE pc = Len(Line) /\ pc' = 0
    <3>1. ~Holding
      BY <1>0, <1>4, <1>h, <2>3 DEF LineOK, Before, Step, Steps
    <3> QED
      BY <1>0, <1>4, <1>d, <1>n, <2>3, <3>1 DEF HeapOK, Holding
  <2> QED
    BY <1>0, <1>4, <2>1, <2>2, <2>3, NextPlace DEF Flow, Stays
<1>5. CASE Leaves /\ Step \notin {"alloc", "fields"}
  <2>1. ~Holding
    BY <1>0, <1>5, <1>h DEF Leaves, LineOK, Before, Step, Steps
  <2>2. heap' = heap /\ torn' = torn /\ dumps' = dumps /\ pc' = 0
    BY <1>5 DEF Flow, Leaves
  <2> QED
    BY <1>0, <1>5, <1>d, <1>n, <2>1, <2>2 DEF HeapOK, Holding
<1>6. CASE Step = "fields" /\ Fields
  <2>1. heap' = heap /\ torn' = torn
    BY <1>6 DEF Fields, KeepMem
  <2>2. Goes
    BY <1>6 DEF Fields, Goes
  <2> QED
    BY <1>4, <1>6, <2>1, <2>2
<1>7. CASE Step = "decode"
  <2>1. ~Holding
    BY <1>0, <1>7, <1>h DEF LineOK, Before, Step, Steps
  <2>2. /\ torn' = torn
        /\ \/ heap' = heap /\ dumps' = dumps
           \/ heap' = heap + 1 /\ dumps' = dumps + 1
    <3>1. Decode
      BY <1>7, StepsAt
    <3> QED
      BY <3>1 DEF Decode
  <2>3. ~Holding'
    <3>1. CASE pc' = pc
      BY <1>0, <2>1, <3>1 DEF Holding
    <3>2. CASE pc' = pc + 1
      BY <1>7, <1>g, <2>1, <3>2
    <3>3. CASE pc' = 0
      BY <3>3 DEF Holding
    <3> QED
      BY <3>1, <3>2, <3>3, NextPlace, <1>0 DEF Flow, Leaves, Stays
  <2> QED
    BY <1>0, <1>n, <2>1, <2>2, <2>3 DEF HeapOK
<1> QED
  BY <1>1, <1>2, <1>3, <1>4, <1>5, <1>6, <1>7, StepsAt DEF Flow

(* No record has more than one register dump.                              *)
LEMMA DumpsKept == HandlerInv /\ Flow /\ HandlerStep => DumpsOK'
<1> SUFFICES ASSUME HandlerInv, Flow, HandlerStep PROVE DumpsOK'
  OBVIOUS
<1>0. /\ DumpsOK /\ ControlOK /\ DataOK /\ Line' = Line /\ pc # 0 /\ pc \in Steps(Line)
      /\ LineOK(ev.type, Line) /\ seen' = seen /\ Len(Line) \in Nat
  BY NextPlace, CurrentLine DEF HandlerInv, Flow, Same
<1>n. dumps \in Nat /\ seen \in Nat
  BY <1>0, HandlersAssumption DEF DataOK
<1>g. ASSUME pc' = pc + 1 PROVE Before(Line', pc', "decode") <=> Before(Line, pc, "decode") \/ Step = "decode"
  BY <1>0, <1>g, BeforeNext DEF Step, Steps
<1>p. pc' = pc \/ pc' = pc + 1 \/ pc' = 0
  BY <1>0, NextPlace DEF Flow, Leaves, Stays
<1>1. CASE dumps' = dumps
  <2>1. CASE pc' = pc
    BY <1>0, <1>1, <2>1 DEF DumpsOK
  <2>2. CASE pc' = pc + 1
    BY <1>0, <1>1, <1>g, <2>2 DEF DumpsOK
  <2>3. CASE pc' = 0
    BY <1>0, <1>1, <2>3 DEF DumpsOK
  <2> QED
    BY <1>p, <2>1, <2>2, <2>3
<1>2. CASE dumps' # dumps
  <2>1. Step = "decode" /\ Decode
    BY <1>2, StepsAt DEF Flow
  <2>2. dumps' = dumps + 1 /\ Advance
    BY <1>2, <2>1 DEF Decode
  <2>3. dumps < seen
    BY <1>0, <2>1 DEF DumpsOK, LineOK, Step
  <2>4. dumps' <= seen
    BY <1>n, <2>2, <2>3
  <2>5. pc' = pc + 1 \/ pc' = 0
    BY <2>2 DEF Advance
  <2> QED
    BY <1>0, <1>g, <2>1, <2>4, <2>5 DEF DumpsOK
<1> QED
  BY <1>1, <1>2

(* The static buffer holds what was formatted last.                        *)
LEMMA UuidKept == HandlerInv /\ Flow /\ HandlerStep => UuidOK'
<1> SUFFICES ASSUME HandlerInv, Flow, HandlerStep PROVE UuidOK'
  OBVIOUS
<1>0. /\ UuidOK /\ ControlOK /\ Line' = Line /\ pc # 0 /\ pc \in Steps(Line)
      /\ LineOK(ev.type, Line) /\ seen' = seen
  BY NextPlace, CurrentLine DEF HandlerInv, Flow, Same
<1>1. CASE pc' = 0
  BY <1>1 DEF UuidOK
<1>2. CASE pc' = pc
  <2>1. uuid' = uuid
    BY <1>0, <1>2, NextPlace DEF Flow, Stays, Leaves, Steps
  <2> QED
    BY <1>0, <1>2, <2>1 DEF UuidOK
<1>3. CASE pc' = pc + 1
  <2>1. \A s : Before(Line', pc', s) <=> Before(Line, pc, s) \/ Step = s
    BY <1>0, <1>3, BeforeNext DEF Step, Steps
  <2>2. CASE Step = "uuid_hdr"
    <3>1. ~Before(Line, pc, "uuid_region")
      BY <1>0, <2>2 DEF LineOK, Step
    <3>2. uuid' = <<seen, "header">>
      BY <2>2, StepsAt DEF uuid_be, At, Step, Line
    <3> QED
      BY <1>0, <2>1, <2>2, <3>1, <3>2 DEF UuidOK
  <2>3. CASE Step = "uuid_region"
    <3>1. uuid' = <<seen, "region">>
      BY <2>3, StepsAt DEF uuid_be, At, Step, Line
    <3> QED
      BY <1>0, <2>1, <2>3, <3>1 DEF UuidOK
  <2>4. CASE Step \notin {"uuid_hdr", "uuid_region"}
    <3>1. uuid' = uuid
      BY <2>4 DEF Flow
    <3> QED
      BY <1>0, <2>1, <2>4, <3>1 DEF UuidOK
  <2> QED
    BY <2>2, <2>3, <2>4
<1> QED
  BY <1>0, <1>1, <1>2, <1>3, NextPlace DEF Flow, Leaves, Stays

(* The row takes the uuid that the buffer holds.                           *)
LEMMA HeaderKept == HandlerInv /\ Flow /\ HandlerStep => HeaderUuidStored'
<1> SUFFICES ASSUME HandlerInv, Flow, HandlerStep, "store" \in done', ev.type \in CxlTypes
             PROVE  hdr_uuid' = <<seen, IF ev.type \in RegionTypes THEN "region" ELSE "header">>
  BY DEF HeaderUuidStored, CxlTypes, RegionTypes, Flow, Same
<1>0. /\ UuidOK /\ HeaderUuidStored /\ ControlOK /\ pc # 0 /\ pc \in Steps(Line)
      /\ LineOK(ev.type, Line)
  BY NextPlace, CurrentLine DEF HandlerInv, Flow
<1>1. ASSUME "store" \in done, hdr_uuid' = hdr_uuid
      PROVE  hdr_uuid' = <<seen, IF ev.type \in RegionTypes THEN "region" ELSE "header">>
  BY <1>0, <1>1 DEF HeaderUuidStored, CxlTypes, RegionTypes
<1>2. CASE Step # "store"
  BY <1>1, <1>2 DEF Flow
<1>3. CASE Step = "store"
  <2>1. Line[pc] = "store"
    BY <1>3 DEF Step
  <2>2. IF ev.type \in RegionTypes THEN Before(Line, pc, "uuid_region")
        ELSE Before(Line, pc, "uuid_hdr") /\ ~Before(Line, pc, "uuid_region")
    BY <1>0, <2>1 DEF LineOK
  <2>3. uuid = <<seen, IF ev.type \in RegionTypes THEN "region" ELSE "header">>
    BY <1>0, <2>2 DEF UuidOK
  <2> QED
    BY <1>1, <1>3, <2>3, StepsAt DEF Store
<1> QED
  BY <1>2, <1>3

-----------------------------------------------------------------------------
(* The steps of a handler keep the invariant.                              *)
LEMMA HandlerStepKeeps == HandlerInv /\ HandlerStep => HandlerInv'
<1> SUFFICES ASSUME HandlerInv, HandlerStep PROVE HandlerInv'
  OBVIOUS
<1>1. Flow
  BY FlowOfSteps DEF HandlerInv
<1>2. ControlOK'
  BY <1>1, ControlKept DEF HandlerInv
<1>3. DataOK' /\ ReportOK' /\ ChildOK'
  BY <1>1, DataKept, ReportKept, ChildKept
<1>4. AbrtTypeOK' /\ GotOK' /\ FiledIsWhole'
  BY <1>1, GotKept
<1>5. PassedOK' /\ IsolationOK'
  BY <1>1, PassedKept, IsolationKept
<1>6. HeapOK' /\ DumpsOK' /\ UuidOK' /\ HeaderUuidStored'
  BY <1>1, HeapKept, DumpsKept, UuidKept, HeaderKept
<1> QED
  BY <1>2, <1>3, <1>4, <1>5, <1>6 DEF HandlerInv

(* A record that comes is an event.                                        *)
LEMMA RecordsAreEvents == Records \subseteq Event
<1> SUFFICES ASSUME NEW e \in Records PROVE e \in Event
  OBVIOUS
<1>1. e \in [type : Types, sev : {"Corrected", "Uncorrected", "Fatal", "Info"},
             cnt : Counts \cup {1}, sec : Seconds, flag : BOOLEAN]
  BY DEF Records
<1>2. Counts \cup {1} \subseteq Nat
  BY HandlersAssumption
<1> QED
  BY <1>1, <1>2 DEF Event

(* The next record begins with nothing done, nothing open, nothing held.   *)
LEMMA DispatchKeeps == ASSUME HandlerInv, NEW e \in Records, Dispatch(e) PROVE HandlerInv'
<1> USE DEF HandlerInv
<1>1. /\ pc = 0 /\ death = "no" /\ seen < MaxEvents
      /\ ev' = e /\ pc' = 1 /\ done' = {} /\ left' = "no" /\ seen' = seen + 1
      /\ got' = Nothing /\ hdr_uuid' = NoUuid
      /\ UNCHANGED <<abrt, sock, part, sigpipe, death, record, trig, child, heap, torn, dumps,
                     uuid, cur, per_sec_ce_count>>
  BY DEF Dispatch, KeepStat, KeepMem
<1>2. e \in Event
  BY RecordsAreEvents
<1>3. part = 0 /\ child = "none" /\ sock = "closed" /\ heap = torn + dumps
      /\ torn <= seen /\ dumps <= seen
  BY <1>1 DEF ReportOK, ChildOK, HeapOK, DumpsOK, DataOK, Holding
<1>4. Line' = Handler[e.type] /\ Len(Line') \in Nat \ {0}
  BY <1>1, <1>2, Lines DEF Line, Event, LineOK
<1>5. ControlOK'
  BY <1>1, <1>2, <1>4 DEF ControlOK
<1>6. DataOK'
  BY <1>1, HandlersAssumption DEF DataOK, NoUuid
<1>7. AbrtTypeOK' /\ GotOK' /\ FiledIsWhole'
  BY <1>1, <1>3, PartsAre DEF AbrtTypeOK, GotOK, FiledIsWhole, Nothing
<1>8. ReportOK' /\ ChildOK'
  BY <1>1, <1>3 DEF ReportOK, ChildOK
<1>9. \A s : ~Before(Line', pc', s)
  BY <1>1 DEF Before
<1>10. PassedOK'
  BY <1>1 DEF PassedOK
<1>11. IsolationOK' /\ HeaderUuidStored'
  BY <1>1 DEF IsolationOK, HeaderUuidStored
<1>12. UuidOK'
  BY <1>9 DEF UuidOK
<1>13. HeapOK' /\ DumpsOK'
  BY <1>1, <1>3, <1>9, HandlersAssumption DEF HeapOK, DumpsOK, Holding, DataOK
<1> QED
  BY <1>5, <1>6, <1>7, <1>8, <1>10, <1>11, <1>12, <1>13

(* The user's script ends.                                                 *)
LEMMA ExitKeeps == ASSUME HandlerInv, TriggerExits PROVE HandlerInv'
<1> USE DEF HandlerInv
<1>1. /\ child = "running" /\ child' = "exited"
      /\ UNCHANGED <<record, trig, ev, pc, done, left, heap, torn, dumps, uuid, hdr_uuid, seen,
                     cur, per_sec_ce_count, abrt, sock, part, got, sigpipe, death>>
  BY DEF TriggerExits, KeepAbrt, KeepStat, KeepMem, abrtvars
<1>2. Line' = Line /\ Step' = Step /\ (Reports' <=> Reports) /\ TriggerOf(ev)' = TriggerOf(ev)
  BY <1>1 DEF Line, Step, Reports, TriggerOf
<1>3. ControlOK' /\ DataOK'
  BY <1>1, <1>2 DEF ControlOK, DataOK
<1>4. AbrtTypeOK' /\ GotOK' /\ FiledIsWhole'
  BY <1>1 DEF AbrtTypeOK, GotOK, FiledIsWhole
<1>5. ReportOK' /\ ChildOK'
  BY <1>1, <1>2 DEF ReportOK, ChildOK
<1>6. PassedOK'
  BY <1>1, <1>2 DEF PassedOK, Passed
<1>7. IsolationOK' /\ HeaderUuidStored'
  BY <1>1, <1>2 DEF IsolationOK, HeaderUuidStored
<1>8. HeapOK' /\ DumpsOK' /\ UuidOK'
  BY <1>1, <1>2 DEF HeapOK, DumpsOK, UuidOK, Holding
<1> QED
  BY <1>3, <1>4, <1>5, <1>6, <1>7, <1>8

(* abrtd comes and goes; nothing else does.                                *)
LEMMA AbrtdKeeps == ASSUME HandlerInv, Abrtd \/ UNCHANGED vars PROVE HandlerInv'
<1> USE DEF HandlerInv
<1>1. /\ UNCHANGED <<record, trig, ev, pc, done, left, child, heap, torn, dumps, uuid, hdr_uuid, seen,
                     cur, per_sec_ce_count, part, death>>
      /\ sock' = "closed" <=> sock = "closed"
  BY DEF Abrtd, AbrtDown, AbrtUp, hvars, vars, abrtvars, AbrtTypeOK
<1>2. Line' = Line /\ Step' = Step /\ (Reports' <=> Reports) /\ TriggerOf(ev)' = TriggerOf(ev)
  BY <1>1 DEF Line, Step, Reports, TriggerOf
<1>3. ControlOK' /\ DataOK'
  BY <1>1, <1>2 DEF ControlOK, DataOK
<1>4. AbrtTypeOK' /\ GotOK' /\ FiledIsWhole'
  <2>1. CASE Abrtd
    BY <2>1, ReportMoves DEF Abrtd, ReportMove
  <2>2. CASE UNCHANGED vars
    BY <2>2 DEF vars, abrtvars, AbrtTypeOK, GotOK, FiledIsWhole
  <2> QED
    BY <2>1, <2>2
<1>5. ReportOK' /\ ChildOK'
  BY <1>1, <1>2 DEF ReportOK, ChildOK
<1>6. PassedOK'
  BY <1>1, <1>2 DEF PassedOK, Passed
<1>7. IsolationOK' /\ HeaderUuidStored'
  BY <1>1, <1>2 DEF IsolationOK, HeaderUuidStored
<1>8. HeapOK' /\ DumpsOK' /\ UuidOK'
  BY <1>1, <1>2 DEF HeapOK, DumpsOK, UuidOK, Holding
<1> QED
  BY <1>3, <1>4, <1>5, <1>6, <1>7, <1>8

(* The daemon begins with nothing read.                                    *)
LEMMA InitHandlers == Init => HandlerInv
<1> SUFFICES ASSUME Init PROVE HandlerInv
  OBVIOUS
<1>1. /\ record \in BOOLEAN /\ trig \in TriggerSets /\ ev \in Records
      /\ pc = 0 /\ done = {} /\ left = "unread" /\ child = "none"
      /\ heap = 0 /\ torn = 0 /\ dumps = 0 /\ uuid = NoUuid /\ hdr_uuid = NoUuid
      /\ cur = 0 /\ per_sec_ce_count = 0 /\ seen = 0
      /\ sock = "closed" /\ part = 0 /\ got = Nothing /\ death = "no"
      /\ abrt \in {"up", "down"} /\ sigpipe \in {"default", "ignored"}
  BY DEF Init, AbrtInit
<1>2. ev \in Event /\ Len(Line) \in Nat
  BY <1>1, RecordsAreEvents, Lines DEF Line, Event, LineOK
<1>3. ControlOK
  BY <1>1, <1>2 DEF ControlOK
<1>4. DataOK /\ HeapOK /\ DumpsOK
  BY <1>1, HandlersAssumption DEF DataOK, HeapOK, DumpsOK, Holding, NoUuid
<1>5. AbrtTypeOK /\ GotOK /\ FiledIsWhole
  BY <1>1, PartsAre DEF AbrtTypeOK, GotOK, FiledIsWhole, Nothing
<1>6. ReportOK /\ ChildOK /\ PassedOK /\ IsolationOK /\ UuidOK /\ HeaderUuidStored
  BY <1>1 DEF ReportOK, ChildOK, PassedOK, IsolationOK, UuidOK, HeaderUuidStored
<1> QED
  BY <1>3, <1>4, <1>5, <1>6 DEF HandlerInv

(* The invariant holds throughout.                                         *)
LEMMA HandlersAlways == Spec => []HandlerInv
<1>1. HandlerInv /\ [Next]_vars => HandlerInv'
  BY HandlerStepKeeps, DispatchKeeps, ExitKeeps, AbrtdKeeps DEF Next
<1> QED
  BY <1>1, InitHandlers, PTL DEF Spec

-----------------------------------------------------------------------------
(* The variables of the handlers keep their types; in particular no        *)
(* handler runs past its last step and no record ever leaves more than one *)
(* name and one register dump allocated.                                   *)
THEOREM HandlerTypes == Spec => []TypeOK
<1>1. HandlerInv => TypeOK
  <2> SUFFICES ASSUME HandlerInv PROVE TypeOK
    OBVIOUS
  <2>1. AbrtTypeOK /\ ControlOK /\ DataOK /\ HeapOK /\ DumpsOK
    BY DEF HandlerInv
  <2>2. torn \in 0..MaxEvents /\ dumps \in 0..MaxEvents
    BY <2>1, HandlersAssumption DEF HeapOK, DumpsOK, DataOK
  <2>4. heap \in 0..2 * MaxEvents
    <3>1. heap = torn + dumps + 1 => torn + 1 <= seen
      BY <2>1, HandlersAssumption DEF HeapOK, DataOK, Holding
    <3> QED
      BY <2>1, <3>1, HandlersAssumption DEF HeapOK, DumpsOK, DataOK
  <2>3. ev.type \in Types
    BY <2>1 DEF ControlOK, Event
  <2> QED
    BY <2>1, <2>2, <2>3, <2>4 DEF TypeOK, ControlOK, DataOK, Effects, Line
<1> QED
  BY <1>1, HandlersAlways, PTL

(* A problem abrtd has the REASON of carries the text of the event's       *)
(* backtrace, whichever writes are cut short, fail or lose their NUL, and  *)
(* whenever abrtd hangs up.  (commit_report_backtrace ends a report whose  *)
(* backtrace did not get through)                                          *)
THEOREM FiledProblemsAreWhole == Spec => []FiledIsWhole
<1>1. HandlerInv => FiledIsWhole
  BY DEF HandlerInv
<1> QED
  BY <1>1, HandlersAlways, PTL

(* While a report is under way, while a trigger is waited for, and when    *)
(* SIGPIPE ended the daemon, the call that stores the event was made.      *)
(* (every handler stores before it reports and triggers)                   *)
THEOREM RiskComesAfterTheStore == Spec => []StoredBeforeRisk
<1>1. HandlerInv => StoredBeforeRisk
  <2> SUFFICES ASSUME HandlerInv, record, part # 0 \/ child # "none" \/ death = "sigpipe"
               PROVE  "store" \in done
    BY DEF StoredBeforeRisk
  <2>1. pc # 0 /\ Step \in {"report", "trigger"}
    BY DEF HandlerInv, ReportOK, ChildOK
  <2>2. Before(Line, pc, "store")
    BY <2>1, CurrentLine DEF HandlerInv, LineOK, Step
  <2>3. PICK j \in 1..pc - 1 : Line[j] = "store"
    BY <2>2 DEF Before
  <2>4. Passed(Line[j])
    BY <2>1 DEF HandlerInv, PassedOK
  <2> QED
    BY <2>3, <2>4 DEF Passed
<1> QED
  BY <1>1, HandlersAlways, PTL

(* When a page, row or CPU was accounted or offlined for an event, the     *)
(* call that stores the event was made too by the end of the handler,      *)
(* except for CXL DRAM events, whose page is offlined before the last      *)
(* fields are read.                                                        *)
THEOREM IsolationsAreRecorded == Spec => []IsolationIsRecorded
<1>1. HandlerInv => IsolationIsRecorded
  BY DEF HandlerInv, IsolationOK, IsolationIsRecorded, Idle, Isolating
<1> QED
  BY <1>1, HandlersAlways, PTL

(* A handler that did not leave early did everything the record is due,    *)
(* whatever abrtd, fork and the other services answered on the way.        *)
THEOREM CompleteRecordsAreHandled == Spec => []CompleteIsHandled
<1>1. HandlerInv => CompleteIsHandled
  <2> SUFFICES ASSUME HandlerInv, Idle, left = "no", NEW x \in Due PROVE x \in done
    BY DEF CompleteIsHandled
  <2>0. ControlOK /\ LineOK(ev.type, Line) /\ \A k \in Steps(Line) : Passed(Line[k])
    BY CurrentLine DEF HandlerInv, PassedOK, Idle
  <2>1. \A s : Has(Line, s) => Passed(s)
    BY <2>0 DEF Has
  <2>2. CASE x = "store"
    <3>1. record /\ Has(Line, "store")
      BY <2>0, <2>2 DEF Due, LineOK
    <3> QED
      BY <2>1, <2>2, <3>1 DEF Passed
  <2>3. CASE x \in {"page", "row"}
    <3>1. ev.sev = "Corrected" /\ Has(Line, "page") /\ Has(Line, "row")
      BY <2>0, <2>3 DEF Due, LineOK
    <3> QED
      BY <2>1, <2>3, <3>1 DEF Passed
  <2>4. CASE x = "offline"
    <3>1. ev.flag /\ Has(Line, "offline")
      BY <2>0, <2>4 DEF Due, LineOK
    <3> QED
      BY <2>1, <2>4, <3>1 DEF Passed
  <2>5. CASE x = "report"
    <3>1. Reports /\ Has(Line, "report")
      BY <2>0, <2>5 DEF Due, LineOK, Reports
    <3> QED
      BY <2>1, <2>5, <3>1 DEF Passed
  <2>6. CASE x = "trigger"
    <3>1. TriggerOf(ev) \in trig /\ ev.type \in {"mc", "aer", "mf"}
      BY <2>6 DEF Due, TriggerOf
    <3>2. Has(Line, "trigger")
      BY <2>0, <3>1 DEF LineOK
    <3> QED
      BY <2>1, <2>6, <3>1, <3>2 DEF Passed
  <2> QED
    BY <2>2, <2>3, <2>4, <2>5, <2>6 DEF Due
<1> QED
  BY <1>1, HandlersAlways, PTL

(* Between two records the socket is closed, the child reaped, and what    *)
(* was allocated freed but for one name of each disk error that could not  *)
(* be parsed to the end and one register dump of each DDR section that     *)
(* Yitian's decoder decoded.                                               *)
THEOREM HandlersCleanUp == Spec => []NothingLeftBehind
<1>1. HandlerInv => NothingLeftBehind
  <2> SUFFICES ASSUME HandlerInv, pc = 0
               PROVE  sock = "closed" /\ child = "none" /\ heap = torn + dumps
    BY DEF NothingLeftBehind, Idle
  <2>1. sock = "closed" /\ child = "none"
    BY DEF HandlerInv, ReportOK, ChildOK
  <2>2. heap = torn + dumps + 0 /\ torn \in Nat /\ dumps \in Nat
    BY DEF HandlerInv, HeapOK, Holding, DataOK
  <2> QED
    BY <2>1, <2>2
<1> QED
  BY <1>1, HandlersAlways, PTL

(* The header uuid in a CXL event's row is the one of that event's header, *)
(* except where the handler formats the region's uuid into the same static *)
(* buffer.  (uuid_be)                                                      *)
THEOREM HeaderUuidsAreTheirs == Spec => []HeaderUuidStored
<1>1. HandlerInv => HeaderUuidStored
  BY DEF HandlerInv
<1> QED
  BY <1>1, HandlersAlways, PTL

-----------------------------------------------------------------------------
(* The way to the end of a handler.                                        *)

(* How far a handler is from its end: the steps left, less what the report *)
(* or the trigger under way has behind it.                                 *)
Behind == CASE child = "running" -> 1 [] child = "exited" -> 2 [] OTHER -> part
ToGo == IF pc = 0 \/ death # "no" THEN 0 ELSE 10 * (Len(Handler[ev.type]) + 1 - pc) - Behind

(* Each step of a handler and the end of its trigger bring it nearer to    *)
(* its end, and what abrtd does meanwhile takes nothing back: no call is   *)
(* made again because of a failure, and a handler takes at most ten steps  *)
(* for each of its calls.                                                  *)
HandlerAdvances ==
    [][pc # 0 /\ death = "no" => ToGo' < ToGo \/ (Abrtd /\ ToGo' = ToGo)]_vars

(* What is behind never makes up for a whole step.                         *)
LEMMA ToGoIs ==
    ASSUME HandlerInv, pc # 0, death = "no"
    PROVE  /\ Behind \in 0..8 /\ Len(Line) \in Nat /\ pc \in 1..Len(Line)
           /\ ToGo = 10 * (Len(Line) + 1 - pc) - Behind
           /\ ToGo > 0
<1>1. part \in 0..8 /\ Len(Line) \in Nat /\ pc \in 1..Len(Line)
  BY CurrentLine, PartsAre DEF HandlerInv, AbrtTypeOK, Steps
<1>2. Behind \in 0..8
  <2>1. CASE child = "running"
    BY <2>1 DEF Behind
  <2>2. CASE child = "exited"
    BY <2>2 DEF Behind
  <2>3. CASE child \notin {"running", "exited"}
    BY <1>1, <2>3 DEF Behind
  <2> QED
    BY <2>1, <2>2, <2>3
<1>3. ToGo = 10 * (Len(Line) + 1 - pc) - Behind
  BY DEF ToGo, Line
<1> QED
  BY <1>1, <1>2, <1>3

(* The same after a step.                                                  *)
LEMMA ToGoNext ==
    ASSUME HandlerInv', Line' = Line, pc' # 0, death' = "no"
    PROVE  Behind' \in 0..8 /\ ToGo' = 10 * (Len(Line) + 1 - pc') - Behind'
<1>1. part' \in 0..8
  BY PartsAre DEF HandlerInv, AbrtTypeOK
<1>2. Behind' \in 0..8
  <2>1. CASE child' = "running"
    BY <2>1 DEF Behind
  <2>2. CASE child' = "exited"
    BY <2>2 DEF Behind
  <2>3. CASE child' \notin {"running", "exited"}
    BY <1>1, <2>3 DEF Behind
  <2> QED
    BY <2>1, <2>2, <2>3
<1>3. ToGo' = 10 * (Len(Line') + 1 - pc') - Behind'
  BY DEF ToGo, Line
<1> QED
  BY <1>2, <1>3

(* A step that stays where it is has the next part or the child behind it. *)
LEMMA StaysAdvances ==
    ASSUME HandlerInv, Flow, HandlerStep, pc' = pc, death' = "no"
    PROVE  Behind' > Behind
<1>1. ControlOK /\ ChildOK /\ ReportOK /\ pc \in Nat /\ part \in 0..8
  BY CurrentLine, PartsAre DEF HandlerInv, AbrtTypeOK
<1>2. ~Advance
  <2>1. Advance => pc' = pc + 1 \/ pc' = 0
    BY DEF Advance
  <2> QED
    BY <1>1, <2>1 DEF Flow
<1>3. pc # 0
  BY DEF Flow
<1>4. Step \in {"raw", "decode", "report", "trigger"}
  BY <1>2, <1>3 DEF Flow, Goes, Leaves, Stays
<1>5. CASE Step = "raw"
  <2>1. RawField
    BY <1>5 DEF HandlerStep, At, Step, Line, Fields, FieldMissing, PeiFields, Filter, Alloc,
       Free, uuid_be, Store, Decode, ras_mc_event_stat, PageError, RowError, CpuError, HwOffline,
       NoReport, ReportConnect, ReportWrite, ReportClose, AmpSel, Sel, NoTrigger, run_trigger, wait_trigger
  <2> QED
    BY <1>2, <2>1 DEF RawField
<1>8. CASE Step = "decode"
  BY <1>2, <1>8, StepsAt DEF Decode
<1>6. CASE Step = "report"
  <2>1. child = "none" /\ child' = "none"
    BY <1>1, <1>6 DEF ChildOK, Flow
  <2>2. Behind = part /\ Behind' = part'
    BY <2>1 DEF Behind
  <2>3. ReportConnect \/ ReportWrite
    BY <1>2, <1>6, StepsAt DEF NoReport, ReportClose
  <2>4. part' > part
    <3>1. CASE ReportConnect
      BY <1>2, <3>1 DEF ReportConnect, setup_report_socket
    <3>2. CASE ReportWrite
      <4>1. \/ backtrace_unknown \/ write_whole \/ write_short \/ write_unterminated
            \/ write_fails \/ write_sigpipe
        BY <3>2 DEF ReportWrite
      <4>2. ~write_sigpipe
        BY DEF write_sigpipe
      <4>3. part \in 1..7
        BY <4>1, <4>2, PartsAre DEF backtrace_unknown, IsBacktrace, write_whole, write_short,
           write_unterminated, write_fails
      <4>4. part' = part + 1 \/ part' = 8
        BY <4>1, <4>2, PartsAre DEF backtrace_unknown, write_whole, write_short,
           write_unterminated, write_fails
      <4> QED
        BY <4>3, <4>4
    <3> QED
      BY <2>3, <3>1, <3>2
  <2> QED
    BY <2>2, <2>4
<1>7. CASE Step = "trigger"
  <2>1. part = 0
    BY <1>1, <1>7 DEF ReportOK
  <2>2. child = "none" /\ child' = "running"
    BY <1>2, <1>7, StepsAt DEF NoTrigger, run_trigger, wait_trigger
  <2>3. Behind = 0 /\ Behind' = 1
    BY <2>1, <2>2 DEF Behind
  <2> QED
    BY <2>3
<1> QED
  BY <1>4, <1>5, <1>6, <1>7, <1>8

(* Every step of a handler.                                                *)
LEMMA StepAdvances == ASSUME HandlerInv, HandlerStep PROVE ToGo' < ToGo
<1>1. Flow /\ HandlerInv' /\ ControlOK
  BY FlowOfSteps, HandlerStepKeeps DEF HandlerInv
<1>2. pc # 0 /\ death = "no" /\ Line' = Line
  BY <1>1, NextPlace DEF Flow
<1>3. /\ Behind \in 0..8 /\ Len(Line) \in Nat /\ pc \in 1..Len(Line)
      /\ ToGo = 10 * (Len(Line) + 1 - pc) - Behind /\ ToGo > 0
  BY <1>2, ToGoIs
<1>4. CASE pc' = 0 \/ death' # "no"
  <2>1. ToGo' = 0
    BY <1>4 DEF ToGo
  <2> QED
    BY <1>3, <2>1
<1>5. CASE pc' # 0 /\ death' = "no"
  <2>1. Behind' \in 0..8 /\ ToGo' = 10 * (Len(Line) + 1 - pc') - Behind'
    BY <1>1, <1>2, <1>5, ToGoNext
  <2>2. CASE pc' = pc
    <3>1. Behind' > Behind
      BY <1>1, <1>5, <2>2, StaysAdvances
    <3> QED
      BY <1>3, <2>1, <2>2, <3>1
  <2>3. CASE pc' # pc
    <3>1. pc' = pc + 1
      BY <1>1, <1>5, <2>3, NextPlace DEF Flow, Leaves, Stays
    <3> QED
      BY <1>3, <2>1, <3>1
  <2> QED
    BY <2>2, <2>3
<1> QED
  BY <1>4, <1>5

(* The user's script ends.                                                 *)
LEMMA ExitAdvances ==
    ASSUME HandlerInv, TriggerExits, pc # 0, death = "no" PROVE ToGo' < ToGo
<1>1. /\ pc' = pc /\ ev' = ev /\ death' = death /\ child = "running" /\ child' = "exited"
  BY DEF TriggerExits, KeepAbrt, abrtvars
<1>2. Behind = 1 /\ Behind' = 2
  BY <1>1 DEF Behind
<1>3. ToGo' = 10 * (Len(Line) + 1 - pc) - Behind'
  BY <1>1 DEF ToGo, Line
<1>4. /\ Len(Line) \in Nat /\ pc \in 1..Len(Line)
      /\ ToGo = 10 * (Len(Line) + 1 - pc) - Behind
  BY ToGoIs
<1> QED
  BY <1>2, <1>3, <1>4

(* Each step of a handler and the end of its trigger bring it nearer to    *)
(* its end, whatever abrtd, fork and the other services answer; what abrtd *)
(* does takes nothing back.  A handler so takes at most ten steps for each *)
(* of its calls: none is made again because of a failure.  (the            *)
(* ras_*_event_handler functions, ras_report_*_event, run_trigger)         *)
THEOREM HandlersAdvance == Spec => HandlerAdvances
<1>1. HandlerInv /\ [Next]_vars =>
          [pc # 0 /\ death = "no" => ToGo' < ToGo \/ (Abrtd /\ ToGo' = ToGo)]_vars
  <2> SUFFICES ASSUME HandlerInv, Next, pc # 0, death = "no"
               PROVE  ToGo' < ToGo \/ (Abrtd /\ ToGo' = ToGo)
    OBVIOUS
  <2>1. CASE HandlerStep
    BY <2>1, StepAdvances
  <2>2. ASSUME NEW e \in Records, Dispatch(e) PROVE FALSE
    BY <2>2 DEF Dispatch
  <2>3. CASE TriggerExits
    BY <2>3, ExitAdvances
  <2>4. CASE Abrtd
    <3>1. UNCHANGED <<pc, death, ev, child, part>>
      BY <2>4 DEF Abrtd, AbrtDown, AbrtUp, hvars
    <3>2. ToGo' = ToGo
      BY <3>1 DEF ToGo, Behind
    <3> QED
      BY <2>4, <3>2
  <2> QED
    BY <2>1, <2>2, <2>3, <2>4 DEF Next
<1> QED
  BY <1>1, HandlersAlways, PTL DEF Spec, HandlerAdvances

-----------------------------------------------------------------------------
(* The count of the second.  Sums are proved about by induction on their   *)
(* length, in the form of a smallest counterexample.                       *)

(* A set of numbers has a smallest one.                                    *)
LEMMA Smallest == ASSUME NEW S \in SUBSET Nat, S # {} PROVE \E x \in S : \A y \in S : x <= y
<1>1. PICK x \in S : \A y \in S : ~(<<y, x>> \in OpToRel(<, Nat))
  BY NatLessThanWellFounded, WFMin
<1>2. \A y \in S : ~(y < x)
  BY <1>1 DEF OpToRel
<1> QED
  BY <1>2

(* Induction up to L, over a set that stands for the predicate.            *)
LEMMA Induction ==
    ASSUME NEW L \in Nat, NEW S, 0 \in S, \A n \in 0..L : n \in S /\ n < L => n + 1 \in S
    PROVE  \A n \in 0..L : n \in S
<1> DEFINE out == (0..L) \ S
<1> SUFFICES ASSUME out # {} PROVE FALSE
  OBVIOUS
<1>1. out \in SUBSET Nat
  OBVIOUS
<1>2. PICK x \in out : \A y \in out : x <= y
  BY <1>1, Smallest
<1>3. x # 0 /\ x - 1 \in 0..L /\ x \in 0..L
  BY <1>2
<1>4. x - 1 \in S
  BY <1>2, <1>3
<1>5. (x - 1) + 1 \in S
  BY <1>3, <1>4
<1> QED
  BY <1>2, <1>3, <1>5

(* The function f has the sums of the first L numbers of c.                *)
Sums(f, L, c) ==
    /\ f \in [0..L -> Nat] /\ f[0] = 0
    /\ \A n \in 1..L : c[n] \in Nat /\ f[n] = f[n - 1] + c[n]

(* There is such a function.                                               *)
LEMMA SumsExist ==
    ASSUME NEW L \in Nat, NEW c \in [1..L -> Nat]
    PROVE  \E f : Sums(f, L, c)
<1> DEFINE S == {m \in 0..L : \E f : Sums(f, m, c)}
<1>1. 0 \in S
  <2>1. Sums([n \in 0..0 |-> 0], 0, c)
    BY DEF Sums
  <2> QED
    BY <2>1
<1>2. ASSUME NEW m \in 0..L, m \in S, m < L PROVE m + 1 \in S
  <2>1. PICK f : Sums(f, m, c)
    BY <1>2
  <2> DEFINE g == [n \in 0..(m + 1) |-> IF n = m + 1 THEN f[m] + c[m + 1] ELSE f[n]]
  <2>2. c[m + 1] \in Nat /\ f[m] \in Nat /\ f[0] = 0 /\ m \in Nat
    BY <1>2, <2>1 DEF Sums
  <2>3. g \in [0..(m + 1) -> Nat]
    BY <1>2, <2>1, <2>2 DEF Sums
  <2>4. g[0] = 0
    BY <2>2
  <2>5. ASSUME NEW n \in 1..(m + 1) PROVE c[n] \in Nat /\ g[n] = g[n - 1] + c[n]
    <3>1. CASE n = m + 1
      BY <2>2, <3>1
    <3>2. CASE n # m + 1
      <4>1. n \in 1..m /\ n \in 0..(m + 1) /\ n - 1 \in 0..(m + 1) /\ n - 1 # m + 1
        BY <2>2, <3>2
      <4>2. f[n] = f[n - 1] + c[n] /\ c[n] \in Nat
        BY <2>1, <4>1 DEF Sums
      <4> QED
        BY <3>2, <4>1, <4>2
    <3> QED
      BY <3>1, <3>2
  <2> HIDE DEF g
  <2>6. Sums(g, m + 1, c)
    BY <2>3, <2>4, <2>5 DEF Sums
  <2> QED
    BY <1>2, <2>6
<1> HIDE DEF S
<1>3. \A n \in 0..L : n \in S
  BY <1>1, <1>2, Induction
<1> QED
  BY <1>3 DEF S

(* It is the one that SumTo chooses.                                       *)
LEMMA SumToIs ==
    ASSUME NEW L \in Nat, NEW c \in [1..L -> Nat]
    PROVE  \E f : Sums(f, L, c) /\ SumTo(c, L) = f[L]
<1> DEFINE R(f) == f = [m \in 0..L |-> IF m = 0 THEN 0 ELSE f[m-1] + c[m]]
           s == CHOOSE f : R(f)
<1>1. PICK g : Sums(g, L, c)
  BY SumsExist
<1>2. R(g)
  BY <1>1 DEF Sums
<1>3. R(s)
  BY <1>2
<1>4. SumTo(c, L) = s[L]
  BY DEF SumTo
<1> HIDE DEF s
<1>5. s[0] = 0 /\ \A n \in 1..L : s[n] = s[n - 1] + c[n]
  BY <1>3
<1> DEFINE S == {n \in 0..L : s[n] = g[n] /\ s[n] \in Nat}
<1>6. 0 \in S
  BY <1>1, <1>5 DEF Sums
<1>7. ASSUME NEW n \in 0..L, n \in S, n < L PROVE n + 1 \in S
  <2>1. n + 1 \in 1..L /\ (n + 1) - 1 = n
    BY <1>7
  <2>2. s[n + 1] = s[n] + c[n + 1] /\ g[n + 1] = g[n] + c[n + 1] /\ g[n + 1] \in Nat
    BY <1>1, <1>5, <2>1 DEF Sums
  <2> QED
    BY <1>7, <2>1, <2>2
<1> HIDE DEF S
<1>8. \A n \in 0..L : n \in S
  BY <1>6, <1>7, Induction
<1>9. s[L] = g[L]
  BY <1>8 DEF S
<1> QED
  BY <1>1, <1>4, <1>9

(* One number more.                                                        *)
LEMMA SumGrows ==
    ASSUME NEW L \in Nat, NEW c \in [1..L -> Nat], NEW d \in [1..(L + 1) -> Nat],
           \A n \in 1..L : d[n] = c[n]
    PROVE  SumTo(d, L + 1) = SumTo(c, L) + d[L + 1]
<1>1. PICK f : Sums(f, L, c) /\ SumTo(c, L) = f[L]
  BY SumToIs
<1>2. PICK g : Sums(g, L + 1, d) /\ SumTo(d, L + 1) = g[L + 1]
  BY SumToIs
<1> DEFINE S == {n \in 0..L : f[n] = g[n]}
<1>3. 0 \in S
  BY <1>1, <1>2 DEF Sums
<1>4. ASSUME NEW n \in 0..L, n \in S, n < L PROVE n + 1 \in S
  <2>1. n + 1 \in 1..L /\ n + 1 \in 1..(L + 1) /\ (n + 1) - 1 = n
    BY <1>4
  <2>2. f[n + 1] = f[n] + c[n + 1] /\ g[n + 1] = g[n] + d[n + 1]
    BY <1>1, <1>2, <2>1 DEF Sums
  <2> QED
    BY <1>4, <2>1, <2>2
<1> HIDE DEF S
<1>5. \A n \in 0..L : n \in S
  BY <1>3, <1>4, Induction
<1>6. f[L] = g[L]
  BY <1>5 DEF S
<1>7. g[L + 1] = g[L] + d[L + 1]
  BY <1>2 DEF Sums
<1> QED
  BY <1>1, <1>2, <1>6, <1>7

(* Nothing but zeros.                                                      *)
LEMMA SumOfZeros ==
    ASSUME NEW L \in Nat, NEW c \in [1..L -> Nat], \A n \in 1..L : c[n] = 0
    PROVE  SumTo(c, L) = 0
<1>1. PICK f : Sums(f, L, c) /\ SumTo(c, L) = f[L]
  BY SumToIs
<1> DEFINE S == {n \in 0..L : f[n] = 0}
<1>2. 0 \in S
  BY <1>1 DEF Sums
<1>3. ASSUME NEW n \in 0..L, n \in S, n < L PROVE n + 1 \in S
  <2>1. n + 1 \in 1..L /\ (n + 1) - 1 = n
    BY <1>3
  <2>2. f[n + 1] = f[n] + c[n + 1]
    BY <1>1, <2>1 DEF Sums
  <2> QED
    BY <1>3, <2>1, <2>2
<1> HIDE DEF S
<1>4. \A n \in 0..L : n \in S
  BY <1>2, <1>3, Induction
<1>5. f[L] = 0
  BY <1>4 DEF S
<1> QED
  BY <1>1, <1>5

(* The last corrected error came in the present second, and they are       *)
(* counted from the first of that second on.                               *)
StatInv ==
    /\ ces \in Seq(Seconds \X Nat)
    /\ Len(ces) > 0 => ces[Len(ces)][1] = cur
    /\ PerSecondCount

(* An error in the present second is added, any other starts a new count.  *)
LEMMA StatKept == HandlerInv /\ StatInv /\ ras_mc_event_stat => StatInv'
<1> SUFFICES ASSUME HandlerInv, StatInv, ras_mc_event_stat PROVE StatInv'
  OBVIOUS
<1>1. CASE ev.sev # "Corrected"
  BY <1>1 DEF ras_mc_event_stat, KeepStat, StatInv, PerSecondCount, OfThisSecond
<1>2. CASE ev.sev = "Corrected"
  <2> DEFINE L == Len(ces)
             c == OfThisSecond
             d == OfThisSecond'
             z == [n \in 1..L |-> 0]
  <2>1. ev.sec \in Seconds /\ ev.cnt \in Nat /\ per_sec_ce_count \in Nat
    BY DEF HandlerInv, ControlOK, DataOK, Event
  <2>2. /\ cur' = ev.sec /\ ces' = Append(ces, <<ev.sec, ev.cnt>>)
        /\ per_sec_ce_count' = IF cur = ev.sec THEN per_sec_ce_count + ev.cnt ELSE ev.cnt
    BY <1>2 DEF ras_mc_event_stat
  <2>3. ces \in Seq(Seconds \X Nat) /\ L \in Nat /\ DOMAIN ces = 1..L
    BY DEF StatInv
  <2>4. /\ ces' \in Seq(Seconds \X Nat) /\ Len(ces') = L + 1 /\ DOMAIN ces' = 1..(L + 1)
        /\ ces'[L + 1] = <<ev.sec, ev.cnt>> /\ \A n \in 1..L : ces'[n] = ces[n]
    BY <2>1, <2>2, <2>3
  <2>5. c \in [1..L -> Nat]
    BY <2>3 DEF OfThisSecond
  <2>9. ASSUME NEW n \in 1..L
        PROVE  c[n] = IF \A k \in n..L : ces[k][1] = cur THEN ces[n][2] ELSE 0
    BY <2>3 DEF OfThisSecond
  <2>10. ASSUME NEW n \in 1..L
         PROVE  d[n] = IF \A k \in n..(L + 1) : ces'[k][1] = ev.sec THEN ces[n][2] ELSE 0
    <3>1. n \in DOMAIN ces' /\ ces'[n] = ces[n]
      BY <2>3, <2>4
    <3>2. d[n] = IF \A k \in n..Len(ces') : ces'[k][1] = cur' THEN ces'[n][2] ELSE 0
      BY <3>1 DEF OfThisSecond
    <3>3. cur' = ev.sec /\ Len(ces') = L + 1
      BY <2>2, <2>4
    <3> HIDE DEF d
    <3> QED
      BY <3>1, <3>2, <3>3
  <2>6. d \in [1..(L + 1) -> Nat] /\ d[L + 1] = ev.cnt
    BY <2>1, <2>2, <2>3, <2>4 DEF OfThisSecond
  <2>7. CASE cur = ev.sec
    <3>1. ASSUME NEW n \in 1..L PROVE d[n] = c[n]
      <4>1. (\A k \in n..(L + 1) : ces'[k][1] = ev.sec) <=> (\A k \in n..L : ces[k][1] = cur)
        <5>1. ASSUME NEW k \in n..L PROVE k \in 1..L /\ k \in n..(L + 1) /\ ces'[k] = ces[k]
          BY <2>3, <2>4
        <5>2. ASSUME NEW k \in n..(L + 1) PROVE k = L + 1 \/ k \in n..L
          BY <2>3
        <5>3. ces'[L + 1][1] = ev.sec
          BY <2>4
        <5>4. ASSUME \A k \in n..(L + 1) : ces'[k][1] = ev.sec, NEW k \in n..L
              PROVE  ces[k][1] = cur
          BY <2>7, <5>1, <5>4
        <5>5. ASSUME \A k \in n..L : ces[k][1] = cur, NEW k \in n..(L + 1)
              PROVE  ces'[k][1] = ev.sec
          BY <2>7, <5>1, <5>2, <5>3, <5>5
        <5> QED
          BY <5>4, <5>5
      <4> QED
        BY <2>9, <2>10, <4>1
    <3>2. SumTo(d, L + 1) = SumTo(c, L) + ev.cnt
      BY <2>3, <2>5, <2>6, <3>1, SumGrows
    <3>3. per_sec_ce_count = SumTo(c, L)
      BY DEF StatInv, PerSecondCount
    <3>4. PerSecondCount'
      BY <2>2, <2>4, <2>7, <3>2, <3>3 DEF PerSecondCount
    <3> QED
      BY <2>2, <2>3, <2>4, <3>4 DEF StatInv
  <2>8. CASE cur # ev.sec
    <3>1. ASSUME NEW n \in 1..L PROVE d[n] = z[n]
      <4>1. L > 0 /\ L \in 1..L /\ L \in n..(L + 1)
        BY <2>3
      <4>2. ces'[L][1] = cur
        BY <2>4, <4>1 DEF StatInv
      <4>3. ~(\A k \in n..(L + 1) : ces'[k][1] = ev.sec)
        BY <2>8, <4>1, <4>2
      <4> QED
        BY <2>10, <4>3
    <3>2. z \in [1..L -> Nat] /\ SumTo(z, L) = 0
      BY <2>3, SumOfZeros
    <3>3. SumTo(d, L + 1) = SumTo(z, L) + ev.cnt
      BY <2>3, <2>6, <3>1, <3>2, SumGrows
    <3>4. PerSecondCount'
      BY <2>1, <2>2, <2>4, <2>8, <3>2, <3>3 DEF PerSecondCount
    <3> QED
      BY <2>2, <2>3, <2>4, <3>4 DEF StatInv
  <2> QED
    BY <2>7, <2>8
<1> QED
  BY <1>1, <1>2

(* per_sec_ce_count is the number of corrected errors in the records of    *)
(* one second, whatever order the time stamps come in.                     *)
THEOREM SecondsAreCounted == Spec => []PerSecondCount
<1>1. Init => StatInv
  <2> SUFFICES ASSUME Init PROVE StatInv
    OBVIOUS
  <2>1. ces = << >> /\ per_sec_ce_count = 0
    BY DEF Init
  <2>2. Len(ces) = 0 /\ DOMAIN ces = 1..0 /\ ces \in Seq(Seconds \X Nat)
    BY <2>1
  <2>3. OfThisSecond \in [1..0 -> Nat]
    BY <2>2 DEF OfThisSecond
  <2>4. SumTo(OfThisSecond, 0) = 0
    <3>1. 0 \in Nat /\ \A n \in 1..0 : OfThisSecond[n] = 0
      OBVIOUS
    <3> HIDE DEF OfThisSecond
    <3> QED
      BY <2>3, <3>1, SumOfZeros
  <2> QED
    BY <2>1, <2>2, <2>4 DEF StatInv, PerSecondCount
<1>2. HandlerInv /\ StatInv /\ [Next]_vars => StatInv'
  <2> SUFFICES ASSUME HandlerInv, StatInv, [Next]_vars PROVE StatInv'
    OBVIOUS
  <2>1. CASE ras_mc_event_stat
    BY <2>1, StatKept
  <2>2. CASE ~ras_mc_event_stat
    <3>1. UNCHANGED <<cur, per_sec_ce_count, ces>>
      <4>1. CASE HandlerStep
        BY <2>2, <4>1 DEF HandlerStep, KeepStat,
           Fields, FieldMissing, PeiFields, RawField, Filter, Alloc, Free, uuid_be, Store, Decode,
           PageError, RowError, CpuError, HwOffline, NoReport, ReportConnect, ReportWrite,
           ReportClose, AmpSel, Sel, NoTrigger, run_trigger, wait_trigger, KeepHandler
      <4>2. CASE \E e \in Records : Dispatch(e)
        BY <4>2 DEF Dispatch, KeepStat
      <4>3. CASE TriggerExits \/ Abrtd \/ UNCHANGED vars
        BY <4>3 DEF TriggerExits, Abrtd, KeepStat, vars, hvars
      <4> QED
        BY <4>1, <4>2, <4>3 DEF Next
    <3> QED
      BY <3>1 DEF StatInv, PerSecondCount, OfThisSecond
  <2> QED
    BY <2>1, <2>2
<1>3. StatInv => PerSecondCount
  BY DEF StatInv
<1> QED
  BY <1>1, <1>2, <1>3, HandlersAlways, PTL DEF Spec
=============================================================================
