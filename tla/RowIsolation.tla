---------------------------- MODULE RowIsolation ----------------------------
(***************************************************************************)
(* Corrected-error accounting of memory rows (ras-page-isolation.c, the    *)
(* "memory row CE threshold policy").  A row keeps one entry per corrected *)
(* event, oldest first; entries older than ROW_CE_REFRESH_CYCLE are purged *)
(* and, when the rest add up to ROW_CE_THRESHOLD, every page of the row is *)
(* offlined.                                                               *)
(*                                                                         *)
(* Times are CLOCK_MONOTONIC seconds taken when the event is handled, so   *)
(* they never decrease.  A step is one call of ras_record_row_error with a *)
(* driver_detail that parse_row_info understands; any other detail leaves  *)
(* the state alone.                                                        *)
(***************************************************************************)
EXTENDS Integers, Sequences, FiniteSets

CONSTANTS
    Rows,           \* the location fields that identify a row
    Pages,          \* page addresses
    Threshold,      \* row_threshold.val
    Cycle,          \* row_cycle.val
    AddrListMax,    \* SAME_PAGE_IN_ROW
    Counts,         \* error counts an event may report (0 is stored as 1)
    MaxTime,        \* bound on the clock
    MaxEvents       \* bound on the events of one row

OFFLINE_OFF == 0
OFFLINE_ACCOUNT == 1
OFFLINE_SOFT == 2
OFFLINE_HARD == 3
OFFLINE_SOFT_THEN_HARD == 4
OTypes == {OFFLINE_OFF, OFFLINE_ACCOUNT, OFFLINE_SOFT, OFFLINE_HARD, OFFLINE_SOFT_THEN_HARD}
PStates == {"PAGE_ONLINE", "PAGE_OFFLINE", "PAGE_OFFLINE_FAILED"}

ASSUME RowConstants ==
    /\ Threshold \in Nat \ {0} /\ Cycle \in Nat \ {0} /\ AddrListMax \in Nat
    /\ Counts \subseteq Nat
    /\ MaxTime \in Nat /\ MaxEvents \in Nat

VARIABLES
    row_offline_action, \* the ROW_CE_ACTION in force
    rows,       \* rows[r]: struct row_record, with page_head as a sequence
    now,        \* the clock
    tried,      \* pages the last call asked the kernel to offline
    history     \* ghost: history[r]: the <<time, count>> of every event of r

vars == <<row_offline_action, rows, now, tried, history>>

PageAddr == [addr : Pages, start : Nat, count : Nat, offlined : PStates]
RowRecord == [start : Nat, count : Nat, pages : Seq(PageAddr)]

\* A row without events has no record: its list is empty.
NoRecord == [start |-> 0, count |-> 0, pages |-> << >>]

(* row_offline_init: `off' unless ROW_CE_ACTION says otherwise, accounting *)
(* only when the kernel has no offline file.                               *)
row_offline_init(choice, supported) ==
    IF choice > OFFLINE_ACCOUNT /\ ~supported THEN OFFLINE_ACCOUNT ELSE choice

Init ==
    /\ \E choice \in OTypes, supported \in BOOLEAN :
          row_offline_action = row_offline_init(choice, supported)
    /\ rows = [r \in Rows |-> NoRecord]
    /\ now = 0
    /\ tried = {}
    /\ history = [r \in Rows |-> << >>]

-----------------------------------------------------------------------------
\* Mutant: a new entry goes to the head of the list.
row_lookup_insert_Head(rr, p, count, t) ==
    [start |-> IF rr.pages = << >> THEN t ELSE rr.start,
     count |-> rr.count + count,
     pages |-> <<[addr |-> p, start |-> t, count |-> count,
                  offlined |-> "PAGE_ONLINE"]>> \o rr.pages]

(* row_lookup_insert: the row's record, made on first sight, with a new    *)
(* entry at its tail.                                                      *)
row_lookup_insert(rr, p, count, t) ==
    [start |-> IF rr.pages = << >> THEN t ELSE rr.start,
     count |-> rr.count + count,
     pages |-> Append(rr.pages, [addr |-> p, start |-> t, count |-> count,
                                 offlined |-> "PAGE_ONLINE"])]

\* Sum of the counts of a list of entries.
Total(pages) ==
    LET sum[n \in 0..Len(pages)] == IF n = 0 THEN 0 ELSE sum[n-1] + pages[n].count
    IN  sum[Len(pages)]

(* The first half of row_record: entries are deleted from the head up to   *)
(* the first that is not too old, and only if the row began that long ago. *)
Purged(rr, t) ==
    LET old == {n \in 1..Len(rr.pages) : \A m \in 1..n : t - rr.pages[m].start > Cycle}
        rest == SubSeq(rr.pages, Cardinality(old) + 1, Len(rr.pages))
    IN  IF t - rr.start <= Cycle THEN rr
        ELSE [start |-> IF rest = << >> THEN t ELSE rest[1].start,
              count |-> rr.count - Total(SubSeq(rr.pages, 1, Cardinality(old))),
              pages |-> rest]

\* Mutant: the addresses known to be offline are not remembered.
RowWalk_NoList(pages, ok) ==
    [pages |-> [n \in DOMAIN pages |->
                  IF pages[n].offlined = "PAGE_OFFLINE" THEN pages[n]
                  ELSE [pages[n] EXCEPT !.offlined =
                          IF ok[n] THEN "PAGE_OFFLINE" ELSE "PAGE_OFFLINE_FAILED"]],
     addrs |-> {}, size |-> 0,
     tried |-> {pages[n].addr : n \in {m \in DOMAIN pages : pages[m].offlined # "PAGE_OFFLINE"}}]

(* One entry of row_offline's walk over the list.  `addrs' is addr_list,   *)
(* the pages seen to be offline, `size' its length with duplicates; ok is  *)
(* the kernel's answer if the entry comes to a request.                    *)
WalkEntry(w, e, ok) ==
    LET room == w.size < AddrListMax
        add(entry, asked) ==
          [pages |-> Append(w.pages, entry),
           addrs |-> IF entry.offlined = "PAGE_OFFLINE" /\ room
                     THEN w.addrs \cup {e.addr} ELSE w.addrs,
           size |-> IF entry.offlined = "PAGE_OFFLINE" /\ room THEN w.size + 1 ELSE w.size,
           tried |-> w.tried \cup asked]
    IN  IF e.offlined = "PAGE_OFFLINE" /\ room THEN add(e, {})
        ELSE IF e.addr \in w.addrs
        THEN [w EXCEPT !.pages = Append(@, [e EXCEPT !.offlined = "PAGE_OFFLINE"])]
        ELSE add([e EXCEPT !.offlined = IF ok THEN "PAGE_OFFLINE" ELSE "PAGE_OFFLINE_FAILED"],
                 {e.addr})

(* The walk; ok[n] is the answer for entry n.                              *)
WalkStart == [pages |-> << >>, addrs |-> {}, size |-> 0, tried |-> {}]
RowWalk(pages, ok) ==
    LET walk[n \in 0..Len(pages)] ==
          IF n = 0 THEN WalkStart ELSE WalkEntry(walk[n-1], pages[n], ok[n])
    IN  walk[Len(pages)]

\* Mutant: the threshold itself is still tolerated.
row_record_OffByOne(r, rr, t) ==
    LET pr == Purged(rr, t)
    IN  IF pr.count > Threshold /\ row_offline_action > OFFLINE_ACCOUNT
        THEN \E ok \in [DOMAIN pr.pages -> BOOLEAN] :
                LET w == RowWalk(pr.pages, ok)
                IN  /\ rows' = [rows EXCEPT ![r] = [pr EXCEPT !.pages = w.pages]]
                    /\ tried' = w.tried
        ELSE rows' = [rows EXCEPT ![r] = pr] /\ tried' = {}

(* row_record and row_offline.                                             *)
row_record(r, rr, t) ==
    LET pr == Purged(rr, t)
    IN  IF pr.count >= Threshold /\ row_offline_action > OFFLINE_ACCOUNT
        THEN \E ok \in [DOMAIN pr.pages -> BOOLEAN] :
                LET w == RowWalk(pr.pages, ok)
                IN  /\ rows' = [rows EXCEPT ![r] = [pr EXCEPT !.pages = w.pages]]
                    /\ tried' = w.tried
        ELSE rows' = [rows EXCEPT ![r] = pr] /\ tried' = {}

(* `if (ev.error_count == 0) ev.error_count = 1;' in ras_mc_event_handler. *)
ErrorCount(count) == IF count = 0 THEN 1 ELSE count

ras_record_row_error(r, p, reported, t) ==
    /\ row_offline_action # OFFLINE_OFF
    /\ Len(history[r]) < MaxEvents
    /\ t >= now
    /\ now' = t
    /\ LET count == ErrorCount(reported)
       IN  /\ row_record(r, row_lookup_insert(rows[r], p, count, t), t)
           /\ history' = [history EXCEPT ![r] = Append(@, [start |-> t, count |-> count])]
    /\ UNCHANGED row_offline_action

Next ==
    \E r \in Rows, p \in Pages, reported \in Counts, t \in 0..MaxTime :
        ras_record_row_error(r, p, reported, t)

Spec == Init /\ [][Next]_vars

-----------------------------------------------------------------------------
(* The values the variables take.                                          *)
TypeOK ==
    /\ row_offline_action \in OTypes
    /\ rows \in [Rows -> RowRecord]
    /\ now \in 0..MaxTime
    /\ tried \in SUBSET Pages

\* The time of the newest event of row r.
Last(r) == history[r][Len(history[r])].start

\* The events of row r, those older than its cycle with no errors.
Window(r) ==
    [n \in 1..Len(history[r]) |->
        [history[r][n] EXCEPT !.count = IF Last(r) - history[r][n].start <= Cycle THEN @ ELSE 0]]

(* The count of a row is exactly the number of errors reported for it in   *)
(* the last ROW_CE_REFRESH_CYCLE seconds before its newest event, although *)
(* the list is purged only when the row's `start' is old enough.           *)
SlidingWindow ==
    \A r \in Rows : history[r] # << >> => rows[r].count = Total(Window(r))

(* The row an event was accounted to by this step.                         *)
Touched(r) == history'[r] # history[r]

(* After an event the pages of a row that is over the threshold have all   *)
(* been offlined or tried, and below the threshold none is touched.        *)
HotRowStep ==
    \A r \in Rows : Touched(r) =>
        IF rows'[r].count >= Threshold /\ row_offline_action > OFFLINE_ACCOUNT
        THEN \A n \in DOMAIN rows'[r].pages : rows'[r].pages[n].offlined # "PAGE_ONLINE"
        ELSE tried' = {}
HotRowsAreOfflined == [][HotRowStep]_vars

\* The entries of page p in row r.
Entries(r, p) == {n \in DOMAIN rows[r].pages : rows[r].pages[n].addr = p}

(* A page that is recorded as offline in every entry it has in the row is  *)
(* not offlined again by a new event, as long as the row's entries fit in  *)
(* addr_list.                                                              *)
RememberedStep ==
    \A r \in Rows : \A p \in tried' :
        Touched(r) /\ Len(rows'[r].pages) <= AddrListMax =>
           \/ Entries(r, p) = {}
           \/ \E n \in Entries(r, p) :
                 \/ rows[r].pages[n].offlined # "PAGE_OFFLINE"
                 \/ now' - rows[r].pages[n].start > Cycle
OfflinedIsRemembered == [][RememberedStep]_vars
=============================================================================
