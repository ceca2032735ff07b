------------------------------ MODULE Startup ------------------------------
(***************************************************************************)
(* Starting and stopping the daemon (rasdaemon.c, the first part of        *)
(* handle_ras_events and the toggling of ras-events.c, ras-erst.c): the    *)
(* machine checks that the firmware kept over a reset are reported, then   *)
(* each event is looked up, given a handler and switched on in the trace   *)
(* instance.  The instance and the firmware's records outlive the daemon,  *)
(* which may be killed at any point; `rasdaemon --enable' and `--disable'  *)
(* are processes of their own that write to the same instance.             *)
(*                                                                         *)
(* The settings of the memory policies are read on the way                 *)
(* (IsolationEnv) and the CPU is recognised (MceCpu); little here depends   *)
(* on them, so where they vary widely the daemon is not started.           *)
(***************************************************************************)
EXTENDS IsolationEnv, MceCpu, Sequences

CONSTANTS
    Modelled,       \* bound: the events among those below that are looked at
    Absent,         \* bound: the sets of them that the kernel may not have
    Disables,       \* bound: the values of DISABLE, as sets of names
    Records,        \* the files in the ERST directory at first
    Cpus,           \* bound: the CPUs the daemon runs on
    CpuInfos,       \* bound: the CPUs that are only looked at
    MaxRuns,        \* bound: times the daemon is started
    MaxCommands,    \* bound: times rasdaemon is run to toggle
    MaxFaults       \* bound: calls that fail

ASSUME StartAssumption == MaxRuns \in Nat /\ MaxCommands \in Nat /\ MaxFaults \in Nat
ASSUME CpuAssumption == Cpus # {} /\ \A c \in Cpus \cup CpuInfos : c.family \in Int

(* The positions of a list of events from k on, those of them that are     *)
(* looked at; the code goes through the list from the first to the last.   *)
From(list, k) == {j \in k..Len(list) : list[j] \in Modelled}
IsFirst(j, positions) == j \in positions /\ \A k \in positions : j <= k

(* The calls of add_event_handler in handle_ras_events, with all features  *)
(* built in.                                                               *)
HandlerEvents == <<"mc_event", "aer_event", "non_standard_event", "arm_event",
    "mce_record", "extlog_mem_event", "net_dev_xmit_timeout", "devlink_health_report",
    "block_rq_error", "memory_failure_event", "cxl_poison", "cxl_aer_uncorrectable_error",
    "cxl_aer_correctable_error", "cxl_overflow", "cxl_generic_event", "cxl_general_media",
    "cxl_dram", "cxl_memory_module", "cxl_memory_sparing", "signal_generate", "reri_event">>

\* Mutant: an event was added to the daemon and not to --enable and --disable.
ToggleEvents_Forgotten == <<"mc_event", "aer_event", "mce_record", "extlog_mem_event",
    "non_standard_event", "arm_event", "devlink_health_report", "block_rq_error",
    "memory_failure_event", "cxl_poison", "cxl_aer_uncorrectable_error",
    "cxl_aer_correctable_error", "cxl_overflow", "cxl_generic_event", "cxl_general_media",
    "cxl_dram", "cxl_memory_module", "cxl_memory_sparing", "reri_event">>

(* Those of __toggle_ras_mc_event in toggle_ras_mc_event.                  *)
ToggleEvents == <<"mc_event", "aer_event", "mce_record", "extlog_mem_event",
    "non_standard_event", "arm_event", "devlink_health_report", "block_rq_error",
    "memory_failure_event", "cxl_poison", "cxl_aer_uncorrectable_error",
    "cxl_aer_correctable_error", "cxl_overflow", "cxl_generic_event", "cxl_general_media",
    "cxl_dram", "cxl_memory_module", "cxl_memory_sparing", "signal_generate", "reri_event">>

VARIABLES
    cpu,        \* /proc/cpuinfo
    exist,      \* the events of this kernel
    set_event,  \* the events switched on in the trace instance
    filter,     \* its filter of signal_generate: SIGBUS of a hardware error only
    raw,        \* a signal that the filter excludes is or was in its buffers
    erst,       \* the files in the ERST directory
    daemon,     \* "down", "erst", "report", "setup", "register", "listen" or "err"
    at,         \* the next call of add_event_handler
    disabled,   \* choices_disable
    erst_delete,
    todo,       \* the directory entries still to be read
    cur,        \* the record being reported: [file, read]
    registered, \* events with a handler in ras->pevent
    counted,    \* events counted in num_events
    cmd,        \* the toggling process
    reported,   \* ghost: records that were reported
    cut,        \* ghost: records removed by a daemon killed before it reported them
    off,        \* ghost: events a command switched off since the daemon was started
    early,      \* ghost: `--enable' switched signal_generate on before a daemon set the filter
    faults, runs, commands
procvars == <<daemon, at, disabled, erst_delete, todo, cur, registered, counted>>
ghosts == <<reported, cut, off, early>>
instance == <<set_event, filter, raw>>
startvars == <<cpu, exist, instance, erst, procvars, cmd, ghosts, faults, runs, commands>>

NoRecord == [file |-> "", read |-> FALSE, rejected |-> FALSE]
\* clean: nothing failed, and nothing was switched on, since the command began
NoCommand == [op |-> "none", at |-> 1, disabled |-> {}, clean |-> TRUE]

Unset ==
    /\ kind = "threshold" /\ env = [set |-> FALSE, value |-> 0, unit |-> "none"]
    /\ val = 0 /\ overflow = FALSE /\ parsed = FALSE

(* Either the daemon is started, or only a setting is read, or only the    *)
(* CPU is looked at.                                                       *)
StartInit ==
    /\ \/ /\ Unset /\ runs = 0 /\ commands = 0
          /\ cpu \in Cpus /\ exist \in {Modelled \ a : a \in Absent}
       \/ /\ \/ Init /\ cpu = CHOOSE c \in Cpus : TRUE
             \/ Unset /\ cpu \in CpuInfos
          /\ runs = MaxRuns /\ commands = MaxCommands /\ exist = Modelled
    /\ set_event = {} /\ filter = FALSE /\ raw = FALSE /\ erst = Records
    /\ daemon = "down" /\ at = 1 /\ disabled = {} /\ erst_delete = FALSE
    /\ todo = {} /\ cur = NoRecord /\ registered = {} /\ counted = {}
    /\ cmd = NoCommand /\ reported = {} /\ cut = {} /\ off = {} /\ early = FALSE
    /\ faults = 0

Fault == faults < MaxFaults /\ faults' = faults + 1
NoFault == UNCHANGED faults

-----------------------------------------------------------------------------
(* main up to handle_erst: the options and DISABLE are read; the records   *)
(* are skipped when `ras:erst' is disabled, the CPU is not recognised or   *)
(* their directory cannot be opened.  ERST_DELETE is 0 or 1.               *)
Start ==
    /\ daemon = "down" /\ runs < MaxRuns
    /\ runs' = runs + 1
    /\ \E d \in Disables, del \in BOOLEAN :
        LET skipped == "erst" \in d \/ detect_cpu(cpu).rc # "ok"
        IN  /\ disabled' = d /\ erst_delete' = del
            /\ \/ skipped /\ daemon' = "setup" /\ todo' = {} /\ NoFault
               \/ ~skipped /\ daemon' = "erst" /\ todo' = erst /\ NoFault
               \/ ~skipped /\ daemon' = "setup" /\ todo' = {} /\ Fault
    /\ off' = {}
    /\ UNCHANGED <<cpu, exist, instance, erst, at, cur, registered, counted, cmd,
                   reported, cut, early, commands>>

\* Mutant: the file is removed whether it could be read or not.
handle_erst_mce_file_RemoveFirst(f) ==
    /\ daemon = "erst" /\ f \in todo
    /\ erst' = IF erst_delete THEN erst \ {f} ELSE erst
    /\ \/ cur' = [file |-> f, read |-> TRUE, rejected |-> FALSE] /\ NoFault
       \/ cur' = [file |-> f, read |-> FALSE, rejected |-> FALSE] /\ Fault
    /\ todo' = todo \ {f} /\ daemon' = "report"
    /\ UNCHANGED <<cpu, exist, instance, at, disabled, erst_delete, registered, counted,
                   cmd, ghosts, runs, commands>>

(* parse_amd_k8_event has no message for the errors of the GART and        *)
(* returns an error; no other parser does.                                 *)
Rejects(gart) == gart /\ erst_parser(detect_cpu(cpu).cputype) = "parse_amd_k8_event"

(* handle_erst_mce_file: a file that cannot be opened or read leaves the   *)
(* event zeroed; one that was read is removed if so configured, and the    *)
(* removal may fail.                                                       *)
handle_erst_mce_file(f) ==
    /\ daemon = "erst" /\ f \in todo
    /\ \E read, gart \in BOOLEAN :
        /\ gart => read
        /\ \/ read /\ NoFault /\ erst' = IF erst_delete THEN erst \ {f} ELSE erst
           \/ read /\ erst_delete /\ Fault /\ erst' = erst
           \/ ~read /\ Fault /\ erst' = erst
        /\ cur' = [file |-> f, read |-> read, rejected |-> Rejects(gart)]
    /\ todo' = todo \ {f} /\ daemon' = "report"
    /\ UNCHANGED <<cpu, exist, instance, at, disabled, erst_delete, registered, counted,
                   cmd, ghosts, runs, commands>>

(* ras_erst_mce_handler: the parser may reject the record; else it is      *)
(* printed, also when the file could not be read.                          *)
ras_erst_mce_handler ==
    /\ daemon = "report"
    /\ reported' = IF cur.read /\ ~cur.rejected THEN reported \cup {cur.file} ELSE reported
    /\ cut' = IF cur.rejected THEN cut \cup {cur.file} ELSE cut
    /\ cur' = NoRecord /\ daemon' = "erst"
    /\ UNCHANGED <<cpu, exist, instance, erst, at, disabled, erst_delete, todo, registered,
                   counted, cmd, off, early, faults, runs, commands>>

ErstDone ==
    /\ daemon = "erst" /\ todo = {}
    /\ daemon' = "setup"
    /\ UNCHANGED <<cpu, exist, instance, erst, at, disabled, erst_delete, todo, cur,
                   registered, counted, cmd, ghosts, faults, runs, commands>>

-----------------------------------------------------------------------------
(* handle_ras_events: the trace instance is looked up and created.  The    *)
(* clock and the page size have defaults, so they never stop the start.    *)
get_tracing_dir ==
    /\ daemon = "setup"
    /\ \/ daemon' = "register" /\ at' = 1 /\ NoFault
       \/ daemon' = "err" /\ at' = 1 /\ Fault
    /\ UNCHANGED <<cpu, exist, instance, erst, disabled, erst_delete, todo, cur,
                   registered, counted, cmd, ghosts, runs, commands>>

\* mce_record is only asked for when the CPU was recognised.
Wanted(e) == e \in exist /\ (e = "mce_record" => detect_cpu(cpu).rc = "ok")
\* net_dev_xmit_timeout only decides on the filter of devlink_health_report.
Counts(e) == e # "net_dev_xmit_timeout"

(* A write to set_event by __toggle_ras_mc_event, as seen by a command.    *)
Tainted == [cmd EXCEPT !.clean = FALSE]

\* Mutant: an event that could not be switched on is counted as well.
add_event_handler_CountsAll(e) ==
    /\ registered' = registered \cup {e}
    /\ IF e \in disabled THEN UNCHANGED <<counted, set_event, cmd, faults>>
       ELSE /\ counted' = IF Counts(e) THEN counted \cup {e} ELSE counted
            /\ \/ set_event' = set_event \cup {e} /\ cmd' = Tainted /\ NoFault
               \/ UNCHANGED <<set_event, cmd>> /\ Fault

(* add_event_handler for an event that exists: its format may not be read; *)
(* it gets its handler, and unless it is disabled it is switched on, which *)
(* may fail.  A disabled event is left as it is.                           *)
add_event_handler(e) ==
    \/ Fault /\ UNCHANGED <<registered, counted, set_event, cmd>>
    \/ /\ registered' = registered \cup {e}
       /\ \/ e \in disabled /\ UNCHANGED <<counted, set_event, cmd, faults>>
          \/ /\ e \notin disabled
             /\ set_event' = set_event \cup {e} /\ cmd' = Tainted /\ NoFault
             /\ counted' = IF Counts(e) THEN counted \cup {e} ELSE counted
          \/ e \notin disabled /\ Fault /\ UNCHANGED <<counted, set_event, cmd>>

\* Mutant: the filter is not set.
filter_ras_mc_event_Missing == UNCHANGED filter

(* filter_ras_mc_event: the filter stays in the instance.                  *)
filter_ras_mc_event == filter' = TRUE

(* One event of the list.  Signals are only asked for once the filter is   *)
(* set, which may fail.                                                    *)
Register ==
    /\ daemon = "register"
    /\ \E k \in From(HandlerEvents, at) :
        LET e == HandlerEvents[k]
        IN  /\ IsFirst(k, From(HandlerEvents, at)) /\ at' = k + 1
            /\ \/ ~Wanted(e) /\ UNCHANGED <<registered, counted, set_event, filter, cmd, faults>>
               \/ /\ Wanted(e) /\ add_event_handler(e)
                  /\ IF e = "signal_generate" THEN filter_ras_mc_event ELSE UNCHANGED filter
               \/ /\ Wanted(e) /\ e = "signal_generate"
                  /\ Fault /\ UNCHANGED <<registered, counted, set_event, filter, cmd>>
    /\ off' = off \ (set_event' \ set_event)
    /\ UNCHANGED <<cpu, exist, raw, erst, daemon, disabled, erst_delete, todo, cur, reported,
                   cut, early, runs, commands>>

(* Without any event the daemon gives up.                                  *)
Registered ==
    /\ daemon = "register" /\ From(HandlerEvents, at) = {}
    /\ daemon' = (IF counted = {} THEN "err" ELSE "listen") /\ at' = 1
    /\ UNCHANGED <<cpu, exist, instance, erst, disabled, erst_delete, todo, cur, registered,
                   counted, cmd, ghosts, faults, runs, commands>>

(* The process ends, on its own or killed at any point.                    *)
Stop ==
    /\ daemon # "down"
    /\ daemon' = "down" /\ at' = 1 /\ todo' = {} /\ cur' = NoRecord
    /\ disabled' = {} /\ erst_delete' = FALSE /\ registered' = {} /\ counted' = {}
    /\ cut' = IF daemon = "report" /\ cur.file \notin erst THEN cut \cup {cur.file} ELSE cut
    /\ UNCHANGED <<cpu, exist, instance, erst, cmd, reported, off, early, faults, runs, commands>>

-----------------------------------------------------------------------------
(* toggle_ras_mc_event, run by `rasdaemon --enable' and by `--disable',    *)
(* which is also what systemd runs to stop the service.  Without a trace   *)
(* instance nothing is done.                                               *)
Command ==
    /\ cmd.op \in {"none", "disabled"} /\ commands < MaxCommands
    /\ commands' = commands + 1
    /\ \/ \E op \in {"enable", "disable"}, d \in Disables :
              /\ cmd' = [op |-> op, at |-> 1, disabled |-> d, clean |-> TRUE]
              /\ NoFault
       \/ Fault /\ UNCHANGED cmd
    /\ UNCHANGED <<cpu, exist, instance, erst, procvars, ghosts, runs>>

(* One call of __toggle_ras_mc_event: a disabled event is switched off by  *)
(* --enable too.  An event the kernel does not have makes the write fail.  *)
Toggle ==
    /\ cmd.op \in {"enable", "disable"}
    /\ \E k \in From(ToggleEvents, cmd.at) :
        LET e == ToggleEvents[k]
            on == cmd.op = "enable" /\ e \notin cmd.disabled
        IN  /\ IsFirst(k, From(ToggleEvents, cmd.at))
            /\ \/ /\ e \in exist /\ NoFault
                  /\ set_event' = IF on THEN set_event \cup {e} ELSE set_event \ {e}
                  /\ off' = IF on THEN off \ {e} ELSE off \cup {e}
                  /\ early' = (early \/ (on /\ e = "signal_generate" /\ ~filter))
                  /\ cmd' = [cmd EXCEPT !.at = k + 1]
               \/ /\ UNCHANGED <<set_event, off, early>>
                  /\ IF e \in exist THEN Fault /\ cmd' = [cmd EXCEPT !.at = k + 1, !.clean = FALSE]
                     ELSE NoFault /\ cmd' = [cmd EXCEPT !.at = k + 1]
    /\ UNCHANGED <<cpu, exist, filter, raw, erst, procvars, reported, cut, runs, commands>>

CommandDone ==
    /\ cmd.op \in {"enable", "disable"} /\ From(ToggleEvents, cmd.at) = {}
    /\ cmd' = IF cmd.op = "disable" THEN [cmd EXCEPT !.op = "disabled"] ELSE NoCommand
    /\ UNCHANGED <<cpu, exist, instance, erst, procvars, ghosts, faults, runs, commands>>

(* Some process gets a signal that is no hardware error: the kernel traces *)
(* it when the event is on and not filtered.                               *)
OtherSignal ==
    /\ "signal_generate" \in set_event /\ ~filter /\ ~raw
    /\ raw' = TRUE
    /\ UNCHANGED <<cpu, exist, set_event, filter, erst, procvars, cmd, ghosts, faults, runs,
                   commands>>

StartNext ==
    \/ /\ \/ Start \/ (\E f \in Records : handle_erst_mce_file(f)) \/ ras_erst_mce_handler
          \/ ErstDone \/ get_tracing_dir \/ Register \/ Registered \/ Stop
          \/ Command \/ Toggle \/ CommandDone \/ OtherSignal
       /\ UNCHANGED vars
    \/ parse_isolation_env /\ UNCHANGED startvars

StartSpec == StartInit /\ [][StartNext]_<<vars, startvars>>

-----------------------------------------------------------------------------
(* While the daemon listens, every event it counts has a handler and is    *)
(* switched on in the instance, unless a command switched it off after the *)
(* daemon switched it on: the daemon never waits for an event that it      *)
(* failed to ask for.                                                      *)
CountedIsHeard ==
    daemon = "listen" => counted # {} /\ counted \subseteq registered \cap (set_event \cup off)

(* After `rasdaemon --disable', if no write failed and no daemon switched  *)
(* an event on meanwhile, nothing is left on from any earlier run, whatever *)
(* DISABLE says, except net_dev_xmit_timeout, which is not in its list.    *)
DisableStops ==
    cmd.op = "disabled" /\ cmd.clean => set_event \subseteq {"net_dev_xmit_timeout"}

(* A record of a machine check that is gone from ERST has been reported,   *)
(* or is about to be; otherwise the daemon was killed between removing it  *)
(* and reporting it, or its parser rejected it.  A file that could not be  *)
(* read stays for the next start.                                          *)
ErstNotLost == \A f \in Records \ erst : f \in reported \cup cut \/ (cur.file = f /\ cur.read)

(* The handler of signals indexes its texts by the code of any SIGBUS, so  *)
(* signals other than the hardware errors it is meant for may never reach  *)
(* the buffers, in any order of starts, stops, failures and commands: only *)
(* `rasdaemon --enable' before the first start, which sets no filter, lets *)
(* them in.                                                                *)
SignalsFiltered == raw => early

\* Accepted CPUs that the code has no parser for: they keep CPU_GENERIC.
WithoutParser(c) ==
    \/ c.vendor = "AuthenticAMD" /\ ~c.smca /\ c.family # 15
    \/ c.vendor = "HygonGenuine" /\ c.family # 24
    \/ c.vendor = "GenuineIntel" /\ c.family < 6

(* A CPU that detect_cpu accepts has no parser just in three cases: AMD    *)
(* without SMCA but for K8, Hygon but for Dhyana, Intel before family 6.   *)
(* Every other one has a parser of its own vendor, and the same one for    *)
(* the records kept in ERST, Zhaoxin apart; every AMD CPU with SMCA is     *)
(* accepted, whatever its family; and where the extended log of memory     *)
(* errors is switched on, there is a decoder of the model that reads it.   *)
CpuTypeDecoded ==
    LET d == detect_cpu(cpu)
        parser == event_parser(d.cputype)
    IN  /\ d.rc = "ok" =>
             /\ parser = "none" <=> WithoutParser(cpu)
             /\ parser = "parse_intel_event" => cpu.vendor = "GenuineIntel"
             /\ parser \in {"parse_amd_k8_event", "parse_amd_smca_event"} =>
                    cpu.vendor \in {"AuthenticAMD", "HygonGenuine"}
             /\ parser = "parse_zhaoxin_event" => cpu.vendor \in {"CentaurHauls", "  Shanghai  "}
             /\ parser # "parse_zhaoxin_event" => erst_parser(d.cputype) = parser
             /\ d.cputype \in ImcLogTypes => parse_intel_event(d.cputype) # "none"
        /\ cpu.seen = "all" /\ cpu.vendor = "AuthenticAMD" /\ cpu.smca =>
               d.rc = "ok" /\ parser = "parse_amd_smca_event"
=============================================================================
