---------------------------- MODULE CpuIsolation ----------------------------
(***************************************************************************)
(* Online fault isolation of CPUs (ras-cpu-isolation.c, queue.c) and the   *)
(* event handlers that feed it: an ARM processor event is counted by       *)
(* count_errors and recorded by ras_record_cpu_error; a CPU with           *)
(* CPU_CE_THRESHOLD corrected errors in CPU_ISOLATION_CYCLE, or with an    *)
(* uncorrected one, is taken offline unless CPU_ISOLATION_LIMIT CPUs are   *)
(* offline already.                                                        *)
(*                                                                         *)
(* The daemon handles one error at a time, but every look at               *)
(* /sys/devices/system/cpu is a step of its own: the comment in            *)
(* ras_record_cpu_error expects users to change CPU states meanwhile.      *)
(***************************************************************************)
EXTENDS Integers, Sequences, FiniteSets

CONSTANTS
    CPUs,           \* the configured CPUs
    ConfLimit,      \* CPU_ISOLATION_LIMIT
    Threshold,      \* threshold.value
    Cycle,          \* cycle.value
    Reports,        \* the error information of ARM events: sequences of PEI
    MaxToggles,     \* bound on the changes users make to CPU states
    MaxTime,        \* bound on event times
    MaxEvents       \* bound on the number of events

NCORES == Cardinality(CPUs)

\* GHES severities: `err_type' is the severity, so 1 is CE and 2 is UCE.
CE == 1
UCE == 2

\* One processor error information structure of an ARM event.
PEI == [countValid : BOOLEAN,   \* ARM_ERR_VALID_ERROR_COUNT
        multiple_error : Nat,   \* the field of that name
        core : BOOLEAN]         \* is_core_failure()

ASSUME CpuConstants ==
    /\ IsFiniteSet(CPUs) /\ CPUs # {}
    /\ ConfLimit \in Nat /\ Threshold \in Nat \ {0} /\ Cycle \in Nat
    /\ \A rep \in Reports : rep \in Seq(PEI)
    /\ MaxToggles \in Nat /\ MaxTime \in Nat /\ MaxEvents \in Nat

VARIABLES
    online,     \* online[c]: the kernel's cpu<c>/online
    info,       \* info[c]: struct cpu_info
    pc,         \* where the handler is
    cur,        \* the CPU and type of the error being handled
    now,        \* the newest event time
    events,     \* number of events so far
    toggles,    \* ghost: CPUs offline at the start, and changes by users since
    ordered,    \* ghost: no event was older than one handled before it
    history     \* ghost: history[c]: CE events since cpu c was last isolated

vars == <<online, info, pc, cur, now, events, toggles, ordered, history>>

CpuStates == {"CPU_OFFLINE", "CPU_ONLINE", "CPU_OFFLINE_FAILED", "CPU_UNKNOWN"}
Node == [time : Nat, value : Nat]
CpuInfo == [state : CpuStates, ce_nums : Nat, uce_nums : Nat, ce_queue : Seq(Node)]

Status(c) == IF online[c] THEN "CPU_ONLINE" ELSE "CPU_OFFLINE"
Offline == {c \in CPUs : ~online[c]}

\* Mutant: the configured limit is taken as it is.
check_config_NoCheck(value, limit) == value

(* check_config: a value above the limit is cut to the limit.              *)
check_config(value, limit) == IF value > limit THEN limit ELSE value

(* init_cpu_info: at least one CPU may not be isolated.                    *)
cpu_limit == check_config(ConfLimit, NCORES - 1)

\* init_cpu_info; the state that it reads is read again before every use.
Init ==
    /\ online \in [CPUs -> BOOLEAN]
    /\ toggles = Cardinality(Offline) /\ toggles <= MaxToggles
    /\ info = [c \in CPUs |-> [state |-> Status(c), ce_nums |-> 0, uce_nums |-> 0,
                               ce_queue |-> << >>]]
    /\ pc = "idle" /\ cur = [cpu |-> CHOOSE c \in CPUs : TRUE, type |-> CE]
    /\ now = 0 /\ events = 0 /\ ordered = TRUE
    /\ history = [c \in CPUs |-> << >>]

-----------------------------------------------------------------------------
\* Sum of the first n numbers of c.
SumTo(c, n) ==
    LET sum[m \in 0..n] == IF m = 0 THEN 0 ELSE sum[m-1] + c[m]
    IN  sum[n]

(* count_errors of ras-arm-handler.c.                                      *)
PeiCount(pei, sev) ==
    IF sev = UCE /\ ~pei.core THEN 0
    ELSE IF pei.countValid THEN pei.multiple_error + 1 ELSE 1

count_errors(rep, sev) == SumTo([n \in DOMAIN rep |-> PeiCount(rep[n], sev)], Len(rep))

(* get_cpu_status: a file that cannot be read gives CPU_UNKNOWN.           *)
get_cpu_status(c) == {Status(c), "CPU_UNKNOWN"}

(* record_error_info, for a CE of nums errors.                             *)
record_ce(ci, t, nums) ==
    [ci EXCEPT !.ce_queue = Append(@, [time |-> t, value |-> nums]), !.ce_nums = @ + nums]

(* ras_handle_cpu_error and the first part of ras_record_cpu_error.        *)
ras_record_cpu_error(c, sev, rep, t) ==
    /\ pc = "idle" /\ events < MaxEvents
    /\ events' = events + 1
    /\ now' = IF t > now THEN t ELSE now
    /\ ordered' = (ordered /\ t >= now)
    /\ LET nums == count_errors(rep, sev)
       IN  IF nums = 0 THEN UNCHANGED <<info, pc, cur, history>>
           ELSE \E s \in get_cpu_status(c) :
                  LET ci == [info[c] EXCEPT !.state = s]
                  IN  IF s # "CPU_ONLINE"
                      THEN info' = [info EXCEPT ![c] = ci] /\ UNCHANGED <<pc, cur, history>>
                      ELSE /\ info' = [info EXCEPT ![c] =
                                 IF sev = CE THEN record_ce(ci, t, nums)
                                 ELSE [ci EXCEPT !.uce_nums = @ + 1]]
                           /\ history' = IF sev # CE THEN history
                                         ELSE [history EXCEPT ![c] = Append(@, [time |-> t, value |-> nums])]
                           /\ pc' = "limit" /\ cur' = [cpu |-> c, type |-> sev]
    /\ UNCHANGED <<online, toggles>>

(* ras_reri_event_handler: ras_record_cpu_error(NULL, hart_id) for a fatal *)
(* or recoverable error of a hart; record_error_info reads err_info.       *)
RecordReriError(c) ==
    /\ pc = "idle" /\ events < MaxEvents
    /\ events' = events + 1
    /\ \E s \in get_cpu_status(c) :
          /\ info' = [info EXCEPT ![c].state = s]
          /\ pc' = IF s = "CPU_ONLINE" THEN "segfault" ELSE pc
    /\ UNCHANGED <<online, cur, now, toggles, ordered, history>>

\* Mutant: the limit itself may be exceeded by one.
CheckLimit_OffByOne ==
    /\ pc = "limit"
    /\ pc' = IF Cardinality(Offline) > cpu_limit THEN "idle" ELSE "handle"
    /\ UNCHANGED <<online, info, cur, now, events, toggles, ordered, history>>

(* `ncores - sysconf(_SC_NPROCESSORS_ONLN) >= cpu_limit.value'             *)
CheckLimit ==
    /\ pc = "limit"
    /\ pc' = IF Cardinality(Offline) >= cpu_limit THEN "idle" ELSE "handle"
    /\ UNCHANGED <<online, info, cur, now, events, toggles, ordered, history>>

\* The errors of each node of a queue.
Values(q) == [n \in DOMAIN q |-> q[n].value]

(* The loop of do_ce_handler pops nodes from the head while the span up to *)
(* the tail, an unsigned difference, exceeds the cycle.                    *)
Popped(ci) ==
    LET q == ci.ce_queue
        span(m) == q[Len(q)].time - q[m].time
        old == {n \in 1..Len(q) : \A m \in 1..n : span(m) < 0 \/ span(m) > Cycle}
    IN  [ci EXCEPT !.ce_queue = SubSeq(q, Cardinality(old) + 1, Len(q)),
                   !.ce_nums = @ - SumTo(Values(q), Cardinality(old))]

\* Mutant: errors are counted since the daemon began.
error_handler_NoPop ==
    /\ pc = "handle"
    /\ pc' = IF cur.type = UCE \/ info[cur.cpu].ce_nums >= Threshold THEN "write" ELSE "idle"
    /\ UNCHANGED <<online, info, cur, now, events, toggles, ordered, history>>

(* error_handler: do_ce_handler or do_uce_handler decides, and             *)
(* do_cpu_offline begins by assuming the worst.                            *)
error_handler ==
    /\ pc = "handle"
    /\ LET ci == IF cur.type = CE THEN Popped(info[cur.cpu]) ELSE info[cur.cpu]
           act == IF cur.type = CE THEN ci.ce_nums >= Threshold ELSE ci.uce_nums > 0
       IN  /\ info' = [info EXCEPT ![cur.cpu] =
                         IF act THEN [ci EXCEPT !.state = "CPU_OFFLINE_FAILED"] ELSE ci]
           /\ pc' = IF act THEN "write" ELSE "idle"
    /\ UNCHANGED <<online, cur, now, events, toggles, ordered, history>>

(* do_cpu_offline: the write of "0"; the kernel may refuse it.             *)
WriteOffline ==
    /\ pc = "write"
    /\ \/ online' = [online EXCEPT ![cur.cpu] = FALSE] /\ pc' = "verify"
       \/ UNCHANGED online /\ pc' = "idle"
    /\ UNCHANGED <<info, cur, now, events, toggles, ordered, history>>

(* The status is read back; only a confirmed isolation clears the counts.  *)
Verify ==
    /\ pc = "verify"
    /\ \E s \in get_cpu_status(cur.cpu) :
          IF s = "CPU_OFFLINE"
          THEN /\ info' = [info EXCEPT ![cur.cpu] =
                    [state |-> s, ce_nums |-> 0, uce_nums |-> 0, ce_queue |-> << >>]]
               /\ history' = [history EXCEPT ![cur.cpu] = << >>]
          ELSE info' = [info EXCEPT ![cur.cpu].state = s] /\ UNCHANGED history
    /\ pc' = "idle"
    /\ UNCHANGED <<online, cur, now, events, toggles, ordered>>

(* A user writes to cpu<c>/online.                                         *)
Toggle(c) ==
    /\ toggles < MaxToggles /\ toggles' = toggles + 1
    /\ online' = [online EXCEPT ![c] = ~@]
    /\ UNCHANGED <<info, pc, cur, now, events, ordered, history>>

Next ==
    \/ \E c \in CPUs, sev \in {CE, UCE}, rep \in Reports, t \in 0..MaxTime :
          ras_record_cpu_error(c, sev, rep, t)
    \/ \E c \in CPUs : RecordReriError(c) \/ Toggle(c)
    \/ CheckLimit \/ error_handler \/ WriteOffline \/ Verify

Spec == Init /\ [][Next]_vars

-----------------------------------------------------------------------------
(* The values the variables take.                                          *)
TypeOK ==
    /\ online \in [CPUs -> BOOLEAN]
    /\ info \in [CPUs -> CpuInfo]
    /\ pc \in {"idle", "limit", "handle", "write", "verify", "segfault"}
    /\ cur \in [cpu : CPUs, type : {CE, UCE}]
    /\ now \in 0..MaxTime /\ events \in 0..MaxEvents /\ toggles \in 0..MaxToggles

\* The errors of each event of a history that is in the cycle of the last.
Recent(h) ==
    [n \in DOMAIN h |-> IF h[Len(h)].time - h[n].time <= Cycle THEN h[n].value ELSE 0]

(* A CPU is isolated for its corrected errors exactly when those of the    *)
(* last cycle reach the threshold, counted since its last isolation - also *)
(* after events that were recorded while the limit kept the handler from   *)
(* looking at the queue.  (do_ce_handler)                                  *)
IsolationStep ==
    pc = "handle" /\ pc' # pc /\ cur.type = CE /\ ordered =>
        LET h == history[cur.cpu]
        IN  pc' = "write" <=> SumTo(Recent(h), Len(h)) >= Threshold
IsolatedOnWindow == [][IsolationStep]_vars

(* The daemon never has more than CPU_ISOLATION_LIMIT CPUs offline and     *)
(* always leaves one running, except for what users changed themselves,    *)
(* also between its check of the limit and its write.                      *)
LimitKept ==
    /\ Cardinality(Offline) <= ConfLimit + toggles
    /\ Cardinality(Offline) <= NCORES - 1 + toggles

(* ChangeLog:195 `Support cpu fault isolation for recoverable errors': an  *)
(* error of an online CPU is recorded and handled, not fatal to the        *)
(* daemon.                                                                 *)
NoSegfault == pc # "segfault"
=============================================================================
