---------------------------- MODULE PageIsolation ----------------------------
(***************************************************************************)
(* Corrected-error accounting of memory pages (ras-page-isolation.c, the   *)
(* "memory page CE threshold policy").  Every corrected mc_event adds its  *)
(* error count to the record of the page; a page whose count reaches       *)
(* PAGE_CE_THRESHOLD within PAGE_CE_REFRESH_CYCLE is taken offline through *)
(* /sys/devices/system/memory/{soft,hard}_offline_page.                    *)
(*                                                                         *)
(* One step is one call of ras_record_page_error or                        *)
(* ras_hw_threshold_pageoffline: the poll loop handles one event at a      *)
(* time.                                                                   *)
(***************************************************************************)
EXTENDS Integers, Sequences, FiniteSets

CONSTANTS
    Pages,      \* page addresses (addr & PAGE_MASK)
    Threshold,  \* threshold.val
    Cycle,      \* cycle.val, in seconds
    ULONG,      \* 2^64: unsigned long arithmetic wraps here
    UINT,       \* 2^32: the count argument is an unsigned int
    OutOfOrder, \* may an event carry an older time than the one before it?
    MaxTime,    \* bound on event times
    MaxTotal    \* bound on the errors reported for a page in one cycle

\* enum otype, in the order of the C enum.
OFFLINE_OFF == 0
OFFLINE_ACCOUNT == 1
OFFLINE_SOFT == 2
OFFLINE_HARD == 3
OFFLINE_SOFT_THEN_HARD == 4
OTypes == {OFFLINE_OFF, OFFLINE_ACCOUNT, OFFLINE_SOFT, OFFLINE_HARD, OFFLINE_SOFT_THEN_HARD}

\* enum pstate
PStates == {"PAGE_ONLINE", "PAGE_OFFLINE", "PAGE_OFFLINE_FAILED"}

ASSUME PageConstants ==
    /\ Threshold \in Nat \ {0}
    /\ Cycle \in Nat \ {0}
    /\ ULONG \in Nat /\ UINT \in Nat \ {0}
    /\ OutOfOrder \in BOOLEAN
    /\ MaxTime \in Nat /\ MaxTotal \in Nat
    /\ MaxTime < ULONG
    /\ Threshold + MaxTotal < ULONG
    /\ MaxTime * Threshold < ULONG

VARIABLES
    offline,    \* the PAGE_CE_ACTION in force
    records,    \* the rb tree page_records: page -> struct page_record
    known,      \* the pages that have a record in the tree
    now,        \* time of the newest event processed so far
    requests,   \* writes made by the last call: sequence of [page, type, ok]
    cycleCE,    \* ghost: errors reported for the page in its present cycle
    peakCE      \* ghost: the largest cycleCE the page ever had

vars == <<offline, records, known, now, requests, cycleCE, peakCE>>

PageRecord == [start : Nat, count : Nat, excess : Nat, offlined : PStates]

\* calloc() in page_lookup_insert
NewRecord == [start |-> 0, count |-> 0, excess |-> 0, offlined |-> "PAGE_ONLINE"]

Request == [page : Pages, type : {OFFLINE_SOFT, OFFLINE_HARD}, ok : BOOLEAN]

(* page_offline_init: the configured choice (`soft' when PAGE_CE_ACTION is *)
(* improper) falls back to accounting when the kernel has no offline file, *)
(* and the page policy is turned off when the row policy is on.            *)
page_offline_init(choice, supported, rowPolicy) ==
    IF rowPolicy THEN OFFLINE_OFF
    ELSE IF choice > OFFLINE_ACCOUNT /\ ~supported THEN OFFLINE_ACCOUNT
    ELSE choice

Init ==
    /\ \E choice \in OTypes, supported \in BOOLEAN, rowPolicy \in BOOLEAN :
          offline = page_offline_init(choice, supported, rowPolicy)
    /\ records = [p \in Pages |-> NewRecord]
    /\ known = {}
    /\ now = 0
    /\ requests = << >>
    /\ cycleCE = [p \in Pages |-> 0]
    /\ peakCE = [p \in Pages |-> 0]

-----------------------------------------------------------------------------
(* do_page_offline: one write to the kernel's file; the kernel decides.    *)
do_page_offline(p, type, ok) == [page |-> p, type |-> type, ok |-> ok]

\* Mutant: the offlined check is dropped.
page_offline_Again(p, pr) ==
    IF offline <= OFFLINE_ACCOUNT THEN {<< >>}
    ELSE {<<do_page_offline(p, OFFLINE_SOFT, ok)>> : ok \in BOOLEAN}

\* Mutant: soft-then-hard begins with the hard request.
page_offline_HardFirst(p, pr) ==
    IF offline <= OFFLINE_ACCOUNT \/ pr.offlined = "PAGE_OFFLINE" THEN {<< >>}
    ELSE {<<do_page_offline(p, OFFLINE_HARD, ok)>> : ok \in BOOLEAN}

\* Mutant: soft-then-hard is written as it is, to a file that does not exist.
page_offline_NoFallback(p, pr) ==
    IF offline <= OFFLINE_ACCOUNT \/ pr.offlined = "PAGE_OFFLINE" THEN {<< >>}
    ELSE {<<do_page_offline(p, offline, ok)>> : ok \in BOOLEAN}

(* The writes page_offline may make for page p, given its record.          *)
page_offline(p, pr) ==
    IF offline <= OFFLINE_ACCOUNT \/ pr.offlined = "PAGE_OFFLINE" THEN {<< >>}
    ELSE IF offline = OFFLINE_SOFT_THEN_HARD
    THEN {<<do_page_offline(p, OFFLINE_SOFT, TRUE)>>} \cup
         {<<do_page_offline(p, OFFLINE_SOFT, FALSE),
            do_page_offline(p, OFFLINE_HARD, ok)>> : ok \in BOOLEAN}
    ELSE {<<do_page_offline(p, offline, ok)>> : ok \in BOOLEAN}

(* pr->offlined after those writes: the outcome of the last one.           *)
OfflineState(pr, reqs) ==
    IF reqs = << >> THEN pr.offlined
    ELSE IF reqs[Len(reqs)].ok THEN "PAGE_OFFLINE" ELSE "PAGE_OFFLINE_FAILED"

(* time_t minus time_t stored in an unsigned long: negative spans wrap.    *)
Period(pr, t) == IF t >= pr.start THEN t - pr.start ELSE t - pr.start + ULONG

(* tolerate = (period / (double)cycle.val) * threshold.val.  A value that  *)
(* does not fit in an unsigned long is undefined behaviour: the conversion *)
(* gives 0 on x86-64 and the largest value on arm64.  The rounding of the  *)
(* double does not matter: period >= cycle makes the quotient at least 1.  *)
Tolerate(period) ==
    LET exact == (period * Threshold) \div Cycle
    IN  IF exact < ULONG THEN {exact} ELSE {0, ULONG - 1}

\* Mutant: the cycle is never refreshed.
Refreshed_Never(pr, t) == {pr}

\* Mutant: `excess' survives the refresh.
Refreshed_KeepExcess(pr, t) ==
    IF Period(pr, t) < Cycle THEN {pr} ELSE {[pr EXCEPT !.count = 0, !.start = t]}

(* The records that the refresh branch of page_record may leave.           *)
Refreshed(pr, t) ==
    IF Period(pr, t) < Cycle
    THEN {pr}
    ELSE {[pr EXCEPT !.count = @ - (IF tol > @ THEN @ ELSE tol),
                     !.start = t,
                     !.excess = 0] : tol \in Tolerate(Period(pr, t))}

(* The whole of page_record for page p, with the record pr that            *)
(* page_lookup_insert returned.                                            *)
page_record(p, pr, count, t) ==
    \E r \in Refreshed(pr, t) :
        LET sum == (r.count + count) % ULONG
            hot == [r EXCEPT !.excess = (@ + sum) % ULONG, !.count = 0]
        IN  IF sum >= Threshold
            THEN \E reqs \in page_offline(p, hot) :
                    /\ requests' = reqs
                    /\ records' = [records EXCEPT ![p] =
                                     [hot EXCEPT !.offlined = OfflineState(hot, reqs)]]
            ELSE /\ requests' = << >>
                 /\ records' = [records EXCEPT ![p] = [r EXCEPT !.count = sum]]

(* page_lookup_insert: the record of the page, a fresh one on first sight. *)
page_lookup_insert(p) == IF p \in known THEN records[p] ELSE NewRecord

\* Mutant: every event restarts the cycle.
Started_Always(pr, t) == [pr EXCEPT !.start = t]

(* `if (!pr->start) pr->start = time;'                                     *)
Started(pr, t) == IF pr.start = 0 THEN [pr EXCEPT !.start = t] ELSE pr

(* Ghost accounting: a page's cycle ends once Cycle seconds have really    *)
(* elapsed since it began.                                                 *)
Account(p, pr, count, t) ==
    LET c == IF t >= pr.start + Cycle THEN count ELSE cycleCE[p] + count
    IN  /\ c <= MaxTotal
        /\ cycleCE' = [cycleCE EXCEPT ![p] = c]
        /\ peakCE' = [peakCE EXCEPT ![p] = IF c > @ THEN c ELSE @]

(* The body of ras_record_page_error.                                      *)
RecordError(p, count, t) ==
    /\ offline # OFFLINE_OFF
    /\ LET pr == Started(page_lookup_insert(p), t)
       IN  /\ page_record(p, pr, count, t)
           /\ Account(p, pr, count, t)
    /\ known' = known \cup {p}
    /\ now' = IF t > now THEN t ELSE now
    /\ UNCHANGED offline

(* A corrected mc_event: ras_record_page_error(addr, count, time).         *)
ras_record_page_error(p, count, t) ==
    /\ OutOfOrder \/ t >= now
    /\ RecordError(p, count, t)

(* A CXL event whose device counted to its own threshold: the page is      *)
(* charged threshold.val errors, passed as an unsigned int, at the present *)
(* time.                                                                   *)
ras_hw_threshold_pageoffline(p, t) ==
    /\ t >= now
    /\ RecordError(p, Threshold % UINT, t)

Next ==
    \E p \in Pages, t \in 1..MaxTime :
        \/ \E count \in 0..MaxTotal : ras_record_page_error(p, count, t)
        \/ ras_hw_threshold_pageoffline(p, t)

Spec == Init /\ [][Next]_vars

-----------------------------------------------------------------------------
(* The values the variables take.                                          *)
TypeOK ==
    /\ offline \in OTypes
    /\ records \in [Pages -> PageRecord]
    /\ known \in SUBSET Pages
    /\ now \in 0..MaxTime
    /\ requests \in Seq(Request)
    /\ cycleCE \in [Pages -> Nat]
    /\ peakCE \in [Pages -> Nat]

(* Between two events no page is left with a full count: page_record       *)
(* always moves a count that reached the threshold into `excess'.  This is *)
(* why the subtraction of the refresh branch clears the count.             *)
CountBelowThreshold == \A p \in Pages : records[p].count < Threshold

(* When events arrive in time order, a page is isolated (or an attempt is  *)
(* on record) exactly when some refresh cycle brought it PAGE_CE_THRESHOLD *)
(* corrected errors: no page below the threshold is ever taken from the    *)
(* kernel, and no page that reached it is forgotten, however its errors    *)
(* were split into events.  With the choices off and account none ever is. *)
IsolatedIffHot ==
    ~OutOfOrder =>
        \A p \in Pages :
            records[p].offlined # "PAGE_ONLINE" <=>
                offline > OFFLINE_ACCOUNT /\ peakCE[p] >= Threshold

(* `excess' and `count' together hold every error of the present cycle.    *)
CycleConserved ==
    ~OutOfOrder => \A p \in Pages : records[p].count + records[p].excess = cycleCE[p]

(* Once the kernel confirmed that a page is offline, the daemon never      *)
(* writes its address again and never forgets the confirmation.            *)
OfflinedForGood ==
    [][\A p \in Pages :
          records[p].offlined = "PAGE_OFFLINE" =>
             /\ records'[p].offlined = "PAGE_OFFLINE"
             /\ \A i \in DOMAIN requests' : requests'[i].page # p]_vars

(* A page is hard-offlined, which may kill its processes, only with the    *)
(* choice `hard' or after the kernel refused the soft request for it.      *)
HardIsLastResort ==
    [][\A i \in DOMAIN requests' :
          requests'[i].type = OFFLINE_HARD =>
             \/ offline = OFFLINE_HARD
             \/ /\ i > 1
                /\ requests'[i-1] = do_page_offline(requests'[i].page, OFFLINE_SOFT, FALSE)
    ]_vars

(* The comment of the refresh branch (ras-page-isolation.c:368) says it is *)
(* for a period between two occurrences `longer than the pre-configured    *)
(* refresh cycle': a cycle that was begun is restarted only when that long *)
(* has elapsed.                                                            *)
RefreshOnlyAfterCycle ==
    [][\A p \in known :
          records'[p].start # records[p].start =>
             records'[p].start >= records[p].start + Cycle]_vars

=============================================================================
