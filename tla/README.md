# A TLA+ verification project for rasdaemon

rasdaemon listens to the RAS tracepoints of the Linux kernel (memory, PCIe,
CPU, CXL, disk and network errors), prints them, records them in an SQLite
database, and takes failing pages, memory rows and CPUs out of service. This
directory models the parts of it that keep state and decide, checks the models
with TLC on small instances, and proves the most important facts with TLAPS
for every value of the constants.

File names without a directory are relative to the repository root.

## 1. The system

| Component | State | Operations | Hard behaviour |
|---|---|---|---|
| Event loop (`ras-events.c`) | poll descriptors, `count_nready`, signal mask, per-CPU threads, `db_lock` | open pipes, poll round, read a page, fall back to threads, create/cancel/join threads, free | interleaved threads, signals at any moment, failing calls, starvation |
| Database handle (`ras-record.c`, `ras-non-standard-handler.c`) | `db_ref_count`, `db_priv`, vendor statements and their `ref_count` | `ras_mc_event_opendb`, `ras_mc_event_closedb`, `ras_ns_add_vendor_tables`, `ras_ns_finalize_vendor_tables` | use without lock, failed open, order of closing |
| Schema (`ras-record.c`) | the tables of the file, one statement per table | create, prepare, alter column by column, prepare again | old files, a failure or a kill between any two calls |
| Storing (`ras-record.c`) | one prepared INSERT per table, with its bindings | bind columns, step, reset | shared by the fallback threads, failing step, bindings left by an earlier event |
| Page policy (`ras-page-isolation.c`) | one record per page: start, count, excess, offlined | `ras_record_page_error`, `ras_hw_threshold_pageoffline` | cycles without a timer, unsigned arithmetic, events out of order, refused requests |
| Row policy (`ras-page-isolation.c`) | one record per row with a list of entries | `ras_record_row_error` | purge that rewrites the start of the window, bounded list of known pages |
| Isolation settings (`ras-page-isolation.c`) | value and overflow flag per setting | `parse_isolation_env` | overflow, units |
| CPU policy (`ras-cpu-isolation.c`, `queue.c`, `ras-arm-handler.c`, `ras-reri-handler.c`) | per CPU: state, counters, queue of corrected errors | `ras_record_cpu_error` | users change CPU states between every two looks at sysfs, limit, refused writes |
| Event handlers (`ras-*-handler.c`) | count of corrected errors per second, static uuid buffers | parse, store, account, report, trigger | early returns between effects, unchecked fields |
| Vendor decoders (`ras-non-standard-handler.c`, `non-standard-*.c`) | the decoder list, a statement per decoder | find the decoder, bind what is valid, step, clear | fields marked valid by bits, lengths taken from the section |
| MCE decoders (`ras-mce-handler.c`, `mce-*.c`) | the CPU type | detect the CPU, choose a parser, registers to text | four tables of CPU types that must agree |
| Start (`rasdaemon.c`, `ras-events.c`) | the trace instance: events switched on, filter of signals | look up, register and switch on each event | each call may fail, the instance outlives the daemon |
| ABRT report (`ras-report.c`) | a socket | connect, seven writes, close | short and failed writes, a peer that hangs up, SIGPIPE |
| ERST (`ras-erst.c`) | files of the pstore | read, unlink, decode, print | crash between unlink and print, unreadable files |
| Triggers (`trigger.c`, `unified-sel.c`) | a child process | fork, exec, wait | a wait without a timeout |
| Toggling (`ras-events.c`, `rasdaemon.c`) | the trace instance | enable, disable | a process of its own beside the daemon |
| `ras-mc-ctl` (`util/ras-mc-ctl.in`) | none | queries | none |

The event loop reads pages of events and calls the handler of each event. A
handler stores the event through the database handle and hands it to the
policies; the policies write to sysfs. In poll mode all of this happens in the
main thread. When poll() does not work the main thread closes everything and
starts one thread per CPU; the threads share the database handle, the prepared
statements and the policies' records, and `db_lock` protects opening and
closing the handle only.

What makes each component correct:

* event loop: every event read is handled and, with `--record`, finds the
  database open; no buffer starves; a stop signal ends the daemon; nothing is
  freed under a running thread;
* database handle: nobody stores through a closed handle; what is not written or
  not closed is due to a call that SQLite failed, or to an altered table, and to
  nothing else; vendor statements are finalized before their database is closed;
* storing: a row is one whole event, rows are only appended;
* page policy: a page is isolated if and only if a cycle brought it the
  threshold; a confirmed page is left alone; hard requests are a last resort;
* row policy: the count is a sliding window; a hot row is offlined whole;
* settings: what wraps is flagged; units mean what the documentation says;
* CPU policy: a CPU is isolated exactly for the errors of the last cycle; the
  limit holds and one CPU stays online;
* handlers: an event with all its fields is stored, accounted, reported and
  triggered whatever the services answer; the report, the trigger and a death by
  SIGPIPE come after the call that stores; nothing is left open or unreaped, and
  of what is allocated only what the code forgets (two known leaks);
* ABRT report: a problem abrtd can file has the event's backtrace;
* schema: without a failing call every statement is usable, from any older file
  and from whatever a killed upgrade left; a statement never works on a table
  that lacks a column; the SQL texts fit their buffer;
* rows: each column of each table holds what it is named for, from the event
  the row was added for;
* vendor decoders: a refused section is still stored, unless its decoder takes
  the daemon down; the parser of Vera sections stays inside the section;
* start and toggling: an event the daemon counts is one it hears; `--disable`
  stops what earlier runs switched on; signals reach the buffers only filtered;
* ERST: a record is not removed without being reported;
* MCE decoders: a CPU gets a parser of its own vendor, or is of one of the three
  sorts that are accepted without having one.

## 2. Modules

| Module | Models | Run by |
|---|---|---|
| `PageIsolation` | page policy | `MCPageIsolation` |
| `PageIsolationProofs` | theorems about it | tlapm |
| `RowIsolation` | row policy | `MCRowIsolation` |
| `RowIsolationProofs` | theorems about it | tlapm |
| `IsolationEnv` | settings of both | itself, and through `Startup` |
| `CpuIsolation` | CPU policy, counting of ARM and RERI events | `MCCpuIsolation` |
| `CpuIsolationProofs` | theorems about it | tlapm |
| `Database` | database handle and vendor statements, as operators | through `RasEvents` |
| `RasEvents` | event loop and threads; extends `Database` | `MCRasEvents` |
| `RasEventsProofs` | theorems about it | tlapm |
| `EventLog` | abstract specification: an append-only log of whole events | through `RasRecord` |
| `RasRecord` | bind/step/reset on the shared statement; implements `EventLog` | `MCRasRecord` |
| `RasRecordProofs` | theorems about it | tlapm |
| `AbrtReport` | the report of one event, with abrtd as the other actor | through `EventHandlers` |
| `EventHandlers` | the tracepoint handlers and triggers; extends `AbrtReport` | `MCEventHandlers` |
| `EventHandlersProofs` | theorems about both | tlapm |
| `DbTables` | the columns of each core table, the binds of each `ras_store_*` function | through `NonStandard` |
| `VendorTables` | the vendors' tables, what each decoder binds for a section | through `NonStandard` |
| `DbSchema` | opening, upgrading and closing the database; extends both tables | through `NonStandard` |
| `VeraCper` | the parser of NVIDIA Vera sections, as operators | through `NonStandard` |
| `NonStandard` | the non-standard handler and the store functions; extends `DbSchema`, `VeraCper` | `MCNonStandard` |
| `NonStandardProofs` | theorems about it, `DbSchema` and `VeraCper` | tlapm |
| `MceCpu` | CPU types and parsers, as operators | through `Startup` |
| `Startup` | start, ERST, registration, toggling; extends `IsolationEnv`, `MceCpu` | `MCStartup` |
| `StartupProofs` | theorems about it, `IsolationEnv` and `MceCpu` | tlapm |

Definitions carry the names of the functions they translate; the `map` of
`PROJECT.json` gives the lines of each. An operator whose name ends in
`_<Word>` is a mutant: the definition after it changed the way a bug would
change it. Ghost variables, which record what happened and decide nothing, are
marked in the declarations.

**PageIsolation.** `records` is the red-black tree, `known` the pages in it;
`requests` are the writes to `{soft,hard}_offline_page` of the last call. One
step is one call of `ras_record_page_error` or `ras_hw_threshold_pageoffline`,
with everything it calls: lookup, refresh, threshold, requests. The difference
of two times wraps at `ULONG`; the conversion of an out-of-range double is
undefined and modelled as either outcome of the common processors. `cycleCE`
and `peakCE` count, beside the code, the errors of the page's present cycle
and the most any cycle had. A failed calloc skips the event and is left out.

**RowIsolation.** A row's entries are a sequence, oldest first. `Purged` is
the first half of `row_record`, `WalkEntry` what `row_offline` does with one
entry and `RowWalk` its loop, with the kernel's answers as a parameter.
`history` keeps every event.

**IsolationEnv.** The environment value is its number and its last character.
One step parses it; the products are taken modulo `ULONG`.

**CpuIsolation.** The steps are the points at which the code looks at or writes
to sysfs: record, check of the limit, decision, write, read-back. Users toggle
CPUs between any two; `toggles` counts what they did and `ordered` says whether
events came in time order, both for the properties only. A read of sysfs may
fail (`CPU_UNKNOWN`), a write may be refused.

**Database, RasEvents.** `main` and `thr[c]` are program counters; `open`,
`lock1`, `opendb`, ... are named after what comes next. Every call that can
fail does, nondeterministically. A page of events is handled in one step by
the main thread, which is alone at that time, and event by event by a thread,
with the read of `db_priv` and the use of the copy as two steps. The kernel is
chosen at the start; a legacy kernel is one where poll() returns at once and
reads of an empty buffer return 0.

`handled` counts the events given to a handler, `stored` the rows added,
`skipped` the events whose table has no statement, and `failed` those whose
`sqlite3_step` failed (`StoreEvents`). Opening the database is one call here,
which `DbSchema` takes apart for one listener: it gives a connection
with all tables or without some (`partial`), leaves a SELECT behind for a table
it altered (`altered`), fails before it has a connection, or fails with one that
nobody will close (`orphans`). `conns` are the connections open. What SQLite does
wrong in all this (a table not created, a statement not prepared, a step failed,
an old table to alter) is bounded by `MaxFlaws`; an open that fails without
leaving anything behind is not, nor are vendor tables that cannot be added.

**RasRecord, EventLog.** A column is bound to the event whose value it holds.
The statement follows SQLite: binding a stepped statement is refused, and the
refusal is ignored by the callers, as in the code. `EventLog` has pending
events and a table; `RasRecord` maps an event to pending until its step.

**EventHandlers, AbrtReport.** A handler is the sequence of its steps, under its
own name (`ras_mc_event_handler`, ...), and `pc` runs through it. One step reads
a group of mandatory fields, or makes one call with an effect; any group may
lack a field, which ends the handler there. A record keeps what the handlers
tell apart: type, severity, count, second, and one flag whose meaning depends on
the type. A raw field used unchecked, and `signal_msg[]` indexed by an unchecked
code, may end the daemon (`death = "segv"`), and so may a decoder: JaguarMicro's
without its statement, Yitian's without memory. `Store` is the call with an open
database, not the row: the handlers do not look at what it returns, and what
becomes of the row is modelled in `RasEvents` and `RasRecord`. `dumps` counts
the register dumps Yitian's decoder allocates. A report is one step per write,
with abrtd free to go between two of them; `got` remembers how the backtrace and
the last part reached it. The builds modelled have every option on, also those
of two hardware makers that write a SEL entry for an AER event (`AmpSel` and
`Sel`). The calls into the page, row and CPU policies are effects here and the
actions of their own modules.

**DbTables, VendorTables.** A table is the sequence of its columns, a store
function the sequence of the fields it binds to parameters 1, 2, ...; a vendor's
decoder gives, for the set of fields a section marks as valid, the list of its
binds: parameter and fields the value is made from. Both sides are written down
from the code separately, so that a shifted or forgotten bind is a difference
between two lists. `Renamed` and `SectionField` say which field a column with
another name stands for.

**DbSchema.** `absent` is the file: the columns each table lacks. `pc` and `at`
say which SQL call opendb makes next and for which statement. Every call is a
step, may fail, and the daemon may be killed before it. The file is new, up to
date, or from a version whose table lacks two columns (a core table and a vendor
one). Types and values of columns are left out.

**NonStandard.** `bound` holds what is bound to each statement between events. A
value is the fields it was made from and the event (0 or 1, alternating) that it
came with, which tells a value of this event from one left by the event before.
`ras_non_standard_event_handler` is one step: decoder, generic row, bindings as
they are left. Binding and stepping NULL is `SQLITE_MISUSE`, and resetting it
does nothing; `sqlite3_clear_bindings`, which only JaguarMicro's decoder calls
without a look at the statement, dereferences it (`last.dies`), after which the
daemon can only be started again. Sections have no valid field, all, all but
one, or one only. Vera sections are records of lengths and formats.

**VeraCper.** The parser as a function of the section: accepted or not, the
contexts, and the set of byte ranges read by parsing and by printing. The
differences of `size_t` wrap at `SIZE_MAX`, a constant: 2^30 - 1 for TLC, which
counts to 2^31 (the lengths of the sections tried are far below, and a wrapped
difference is as far above them as in the code), and any number in the proof.

**Startup, MceCpu.** The trace instance (`set_event`, `filter`, `raw`) and the
ERST directory outlive the daemon. A daemon reads the records one by one, finds
the instance and registers one event per step; it can end or be killed at every
step and be started again, and `rasdaemon --enable` or `--disable` runs beside
it. `raw` remembers that a signal that the filter excludes was traced. `MceCpu`
is the chain from `/proc/cpuinfo` to parsers; a CPU is the lines `detect_cpu`
looks for.

## 3. Runs

Passing runs:

| Run | Instance | Shows |
|---|---|---|
| `page` | 2 pages, threshold 3, cycle 2, times to 5, at most 5 errors per cycle | exact isolation, conservation of errors, no second request, soft before hard, refresh only after a cycle |
| `row` | 1 row, 2 pages, threshold 3, cycle 2, address list of 3, 4 events, counts 0 and 2 | sliding window, hot rows offlined whole, known pages left alone |
| `cpu` | 2 CPUs, configured limit 3, threshold 3, cycle 2, 4 events in any order, a user changing a CPU's state once at any step | isolation exactly on the window, one CPU left online |
| `start` | 4 of the 21 events, 2 records in ERST, 2 starts, 1 command, 1 failing call, a K8 CPU and a machine that is not x86; besides, `ULONG` 256 with numbers to 260, and about 1300 CPUs | what is counted is heard, `--disable` stops, signals filtered, no record lost, what wraps is flagged, CPUs get their parsers or have none as stated |
| `threads` | 3 CPUs, 1 decoder, 1 event per CPU, both kernels, 1 failure inside SQLite | no stale handle; what is not recorded and what is left open is what a failure costs; vendor statements finalized before their database; nothing freed early |
| `live` | 2 CPUs, 2 events per CPU, both kernels, fair | no buffer starves, the lock is granted, signals end the process |
| `record` | 1 caller, 3 events, 3 columns | the calls implement the event log |
| `handlers` | all 21 handlers, 2 records, counts 0 and 2, 2 seconds, with and without database, triggers for corrected errors, and SIGPIPE ignored | complete events are handled in full, the call to store comes before report and trigger, isolation recorded, nothing left behind but two known leaks, the count of a second, header uuids, whole reports, every handler returns |
| `vendor` | all tables and decoders, 4 files, 2 starts, 1 failing call, events of one statement per behaviour | an open is complete or failed, upgrades converge, texts fit, rows hold their own event's fields, refused sections are kept or kill the daemon as stated, Vera sections are read inside |

The bounds are chosen so that the interesting cases happen. A page can fill its
threshold in one event, in several, across a refresh and again after a failed
request; two pages show that records do not interfere. Two row pages and a list
of three entries show duplicates and the limit of the list. Two CPUs are enough
for the limit, which is configured above their number so that it has to be cut;
one change by a user can fall between any two steps, or stand for a CPU that was
offline at the start. The third CPU of `threads` gives a thread that closes, one
that opens and one that stores at the same time. The one failure inside SQLite
of that run can hit any open, table or step; from it on, only states in which a
single CPU has or had events are gone on with (the constraint `FlawedIsQuiet` of
`MCRasEvents`), which loses little, since the events of two CPUs share nothing
but the handle. In `live` SQLite does not fail (`MaxFlaws` is 0), and opening
fails only without leaving anything. Symmetry is used on pages. Two records are
enough for `handlers`: all that survives a handler is the count of the second,
the uuid buffer, a leak and abrtd. In `start` the four events are the four kinds
the code treats differently: a plain one, one that depends on the CPU, one that
is not toggled, and the filtered one; two starts and a command show what is left
in the instance, and an event may be absent from the kernel or disabled. The
settings and the CPUs are varied widely only in behaviours without a daemon,
since nothing in the start depends on the first and only the vendor matters to
it of the second. In `vendor` one failing call can hit any SQL call of either
start, and events of one statement are enough because statements share no
bindings; one event of a section with all fields and one with fewer is what a
binding left behind needs.

Runs that end in a violation state what a comment, a message or the
documentation says, and show that the code does something else:

| Run | Said | Done |
|---|---|---|
| `cpu_reri` | CPU isolation for recoverable errors | NULL is dereferenced |
| `env_cycle` | 24h is 24 hours | 1440 seconds |
| `record_threads` | a record of events | threads mix their columns in a row |

Other places where the code and its comments differ are modelled as the code
is and show in the conditions of the properties:

* an event older than the start of a page's cycle, or than the head of a CPU's
  queue, makes an unsigned difference huge, so the cycle is refreshed or recent
  errors are popped: `RefreshOnlyAfterCycle` and
  `IsolatedOnWindow` hold for events in time order;
* `row_offline` ignores the offlined pages it has met on its way through the
  list: `OfflinedIsRemembered` asks for every entry of a page to be offline;
* when a thread cannot be created the others but thread 0 are cancelled
  (`CreateThreadFails`): `FreedWhenQuiet` is about the other ways to the end;
* `count_errors` charges one more than the count an ARM record reports;
* a page is offlined for a CXL DRAM event before its last fields are read, so
  the event may end up not recorded: `IsolationIsRecorded` leaves that type out;
* `uuid_be` has one buffer: rows of CXL general media and DRAM events have the
  region's uuid for the header's (`HeaderUuidStored`);
* `commit_report_backtrace` has no case for RERI, so no RERI event is ever
  reported in full; CXL memory sparing events are neither stored nor reported;
* a failed SEL entry skips the AER triggers, and the memory controller's fatal
  errors run no trigger (`CompleteIsHandled`);
* the name of a disk is leaked when a later field is missing, and Yitian's
  decoder leaks the register dump of every DDR section
  (`non-standard-yitian.c:192`): `NothingLeftBehind` counts both;
* a failed `ras_mc_event_opendb` keeps its reference, so later threads take the
  missing database for an open one and drop their events: `HandledIsRecorded`
  is about runs without a failed open (`leaked = 0`); in those, too, the events of
  a table that could not be created are dropped (`skipped`), and a failed step is
  only logged (`failed`);
* an open that fails after `sqlite3_open_v2` frees its `priv` only, and the SELECT
  of `ras_mc_alter_table` is overwritten by the INSERT: both connections are never
  closed (`CleanClose` names them, `orphans` and `altered`);
* a JaguarMicro section without a statement for its table, also because the
  daemon runs without `--record`, ends the daemon in `sqlite3_clear_bindings`
  before the generic row (`SectionKept`);
* three sorts of CPUs are accepted as `CPU_GENERIC` and no parser takes their
  records: AMD up to family 25 without SMCA except K8, Hygon except family 24,
  Intel before family 6 (`WithoutParser`, in `CpuTypeDecoded`);
* the list of `toggle_ras_mc_event` lacks `net:net_dev_xmit_timeout`, so
  `rasdaemon --disable` leaves it on (`DisableStops`); an event in `DISABLE` that
  an earlier run left on is still delivered, since `add_event_handler` does not
  switch it off; `--enable` sets no filter of signals (`SignalsFiltered`);
* with `ERST_DELETE` a daemon killed between unlink and print loses the record,
  and so are the GART errors that `parse_amd_k8_event` rejects (`ErstNotLost`);
  a file that cannot be read is printed as a record of zeros and stays;
* `ras_erst_mce_handler` has no Zhaoxin cases and parses their records as
  Intel's (`CpuTypeDecoded`);
* JaguarMicro's decoder stores the version under the bit of the SoC and the
  submodule's number in the column of the module's; HIP08's dump without any
  valid register is an uninitialised buffer; the section type of the generic row
  is bound as a blob of length -1 (`ras-record.c:173`), which SQLite leaves
  undefined (`Excepted`, next to `RowsOwn`).

**Fairness** (`live`). Weak fairness of the main thread and of each
fallback thread stands for the kernel's scheduler; weak fairness of `Kill`
stands for the delivery of an unblocked signal. Read errors, new events and
signals are never forced. A mutex granted under weak fairness suffices for
`LockGranted` because a thread takes the lock at most twice.

In `handlers` weak fairness of the handler's steps stands for the scheduler
again, and weak fairness of `TriggerExits` is an assumption about the user's
scripts that the code needs: `run_trigger` waits without a timeout. The same is
assumed of ipmitool, which the code waits for in system() (`Sel`, `AmpSel`).

**Deadlock** is checked where the process can always act or has ended
(`RasEvents` stutters explicitly once terminated). It is not checked for the
policies, `RasRecord`, `EventHandlers`, `Startup` and `NonStandard`, whose bounded
inputs run out.

`RowIsolation`, `CpuIsolation`, `RasEvents` and `EventHandlers` define a
`TypeOK` that no run lists. Those of `RasEvents`, `EventHandlers` and
`CpuIsolation` are proved (`EventLoopTypes`, `HandlerTypes`, `CpuTypes`); that
of `RowIsolation` is a part of the invariant its theorems rest on.

## 4. Proofs

`PageIsolationProofs` proves the properties of `PageIsolation` for every set of
pages, threshold, cycle, word width and order of events, assuming
`PageConstants`: the threshold and the cycle are positive, and the bounds keep
times, times multiplied by the threshold, and the errors of one cycle below
the word width. The inductive invariant `IInv` is

* `TypeOK`;
* `RecordsBegun`: a page without a record stands for the record that would be
  allocated, and one with a record has begun a cycle (so lookup, and the test
  `!pr->start`, can be reasoned about);
* `CountBelowThreshold`: needed because the refresh branch clears the count
  only if `tolerate` is at least the count;
* in time order, `InOrderRecord`: count and excess add up to the errors of the
  cycle, excess is filled only by reaching the threshold, and the page is
  isolated exactly when the peak reached it. `IsolatedIffHot` alone is not
  inductive: without the second fact a step below the threshold could raise
  the peak above it through errors hidden in `excess`.

The argument: `TolerateExact` (a whole cycle tolerates at least the threshold
and nothing overflows), `RefreshedInOrder` (so the refresh clears the record),
`OfflineWrites` (what the requests do), `EventEffect` (one event on one
record), `EventStep` (all conjuncts of `IInv`, and the action properties).

`RasRecordProofs` proves that no row has an unbound column, with any number
of threads, and that a single caller implements `EventLog`. The invariant says
that columns behind a caller are bound (`BoundBehind`), and for one caller that
they are bound to its event and that the statement is stepped exactly between
step and reset (`SingleCaller`). With two callers the theorem is false, which
is what the run `record_threads` shows.

`CountBelowThreshold` is proved (`CountsStayBelow`) and in no run of its own: it
is part of what keeps `IsolatedIffHot`, which the run `page` checks.

`RowIsolationProofs` proves the three properties of `RowIsolation` for every set
of rows and pages, threshold, cycle, size of the list and sequence of counts and
times (`RowConstants`). The invariant `RowInv` says of each row (`RowOK`) that
its list is its history without the first so many events, that the record sums
the list and starts where the head does, that times are in order, and that what
was dropped is out of the cycle of the last event while the rest is in it.
`SlidingWindow` alone is not inductive: it does not say which events the next
purge will meet. `PurgedOK` shows that the purge cuts exactly the events out of
the cycle, `RowWalkOK` what the loop of `row_offline` leaves behind. Sums and the
loop are recursive functions, so their lemmas need induction over lists. The
library's induction theorems take a predicate as a parameter and cannot be used;
the lemma `Induction` takes a set instead and follows from well-founded sets of
numbers having a smallest element (`Smallest`). The other proof modules whose
components have recursive functions repeat the two lemmas.

`CpuIsolationProofs` proves `LimitKept` for every number of CPUs, limit and
interleaving with users. `LimitInv` adds `RoomForOne`: from the check of the
limit to the write one more CPU may go offline. So the gap between sysconf() and
the write does not matter: only users act in it, and what they do is theirs
(`toggles`). `IsolatedOnWindow` is proved for every threshold, cycle and
sequence of reports. `QueueInv` says that a CPU's count is the sum of its queue
(`Counted`), that in time order the queue is the history without its first so many
events, which are out of the cycle of the last one (`Tracks`), and that the queue
is not empty when it is looked at (`Waiting`). `PoppedOK` shows that the loop of
`do_ce_handler` leaves exactly the errors of the last cycle, `Decision` that the
handler decides on those.

`RasEventsProofs` proves the safety properties of the event loop for any number
of CPUs, decoders and events, both kernels and any failing calls
(`RasAssumption`, `DecodersAssumption`). The parts of `IInv`: in poll mode there
are no threads and the counts are what the main thread's place says (`PollOK`);
the lock excludes the threads that open or close (`LockOK`); `db_ref_count` is at
least the number of threads that counted themselves, the one that opens is
alone, and nobody is counted while one closes (`CountOK`); unless an open failed,
whoever uses the database finds it open, and what a thread read from `db_priv` is
not NULL (`RecordOK`); the decoders' count is covered by the database's
(`DecoderOK`); as long as no thread was cancelled the count is exact (`ExactOK`);
at the end no thread and no handle is left (`EndOK`). `NoStaleHandle` alone is not
inductive, since nothing in it says that the last close comes after the last
use. The proof counts: the threads in a part of the code are a finite set, and
one step moves one thread between two such sets (`AtMove`). Connections and rows
come in a second layer on top of `IInv`: the connections open are the one in
`db_priv`, the orphans and those with a SELECT left (`ConnectionsOK`), and with a
database for every event each one handled is stored, skipped or failed, skipped
only where a table is missing (`RowsKept`, `ConnectionsKept`).

`EventHandlersProofs` proves the seven safety properties of the handlers.
`LineOK` states what the order of the steps is in each of the 21 handlers, and
is checked handler by handler (`Lines`); everything else uses `LineOK` only.
`HandlerInv` ties what was done to how far the handler has come: every step
passed has done what was due (`PassedOK`), the socket and the child exist in
their own step only (`ReportOK`, `ChildOK`), a backtrace precedes the last part
(`GotOK`), the heap is what is held now, what was torn and the dumps (`HeapOK`,
`DumpsOK`), the static buffer has the last uuid formatted (`UuidOK`). The count
of a second is proved apart, by sums (`SecondsAreCounted`; `StatInv` adds that
the last error came in the present second). `HandlerAdvances`, which is in no
run of its own, is what can be proved of the handlers' termination: `ToGo`,
which is never negative, falls with every step of a handler and with the end of
its trigger, and abrtd cannot raise it (`StaysAdvances` is about the steps
within a report or a trigger). What remains for `HandlerReturns` is that one of
these steps is always enabled, and the fairness; that part TLC checks.

`NonStandardProofs` proves `OpenIsComplete`, `UpgradeConverges`, `SectionKept`,
`RowsOwn` and `VeraReadsInside` with the tables of the code, for any number of
starts, failures and kills. The parts of `SchemaInv`: a table with a prepared
INSERT is in the file with all its columns (`InsertsWork`); while opening, every
table before the present one has its INSERT, but for core tables that could not
be created, and none behind it is prepared (`Progress`, `NotYet`); the INSERT is
tried again only when no column is missing (`Altered`); what failed was caused
by a failing call (`FailedForCause`); what is open is complete (`Opened`).
`RowsOwn` needs two things. `Fits` is about the data: in the list of binds of a
core table (`CoreMatch`, `CoreFits`) or of a vendor decoder, for any section it
accepts (`VendorFits`), every column that is not `Excepted` has exactly one
bind, of the field the column is meant for, and a bind that the section can
leave out is in a table whose statement is cleared. `BoundInv` is about time: a
statement has bindings of its own parameters only, and one that is cleared has
none between events. `RowsOwn` alone is not inductive, since a row is made from
what the rows before it left bound; `BindOwn` shows that over such bindings a
list that fits makes a row of its own event. `VeraStaysInside` is about sections
of every length with any number of contexts (`SectionsAssumption` says that the
sections tried are sections, `VeraAssumption` that `SIZE_MAX` is a number): each
context begins inside the section, hence no difference wraps where it is used
(`MinusExact`, `NextInside`), by induction over the contexts.

`StartupProofs` proves the six properties of `Startup`. The parts of `StartInv`:
what is switched on exists and is in the list of `toggle_ras_mc_event`, but for
`net_dev_xmit_timeout` (`ListsOK`, with the lemma `ListsAgree` about the two
lists of the code); the events that a `--disable` without a failure has passed
are off (`PassedOff`); what is counted was registered and switched on, unless a
command switched it off since (`CountsOK`); signals are on without a filter only
because of `--enable` (`FilterOK`); a record is in hand only while it is
reported (`InHand`). `SettingInv` is about one setting, for every word width
above 1: what passes the code's check by division did not wrap (`Division`,
`NoWrap`). That no setting used without a warning is zero (`FlaggedOrExact`) is
what `PageConstants` asks of the threshold and the cycle.

Assumptions: the named `ASSUME`s of the models, which TLC evaluates on every
run. They ask that constants have their types (also that the family of a CPU is
a number), that there is at least one CPU,
that an unsigned number can hold more than 0, and of `PageIsolation` what is
said above.

Only model-checked: liveness (`BuffersDrained`, `LockGranted`, `SignalTerminates`,
and of `HandlerReturns` what `HandlerAdvances` leaves), which is out of the
prover's reach, and `SqlFits`, a sum of the lengths of names: the provers know
strings as constants without a length.

## 5. Not modelled

* The text a decoder makes of registers (`mce-*.c`, the name tables of
  `non-standard-*.c`, `bitfield.c`) and the texts of reports and logs: tables and
  formatting, without state.
* The Ampere decoder (`non-standard-ampere.c`): its section type is written
  without dashes and never equals what `uuid_le` prints, so no event reaches it.
* Types, values and encodings of database columns.
* Allocation failures in the policies; a failing poll(); a connect() or write()
  that blocks because abrtd does not read.
* Data races of the fallback threads on the page tree, the row list and the
  static buffers of the handlers: they have no bounded set of outcomes.
* `parse_ul_config`, the settings of the CPU policy.
* `--post-processing` (decodes one record from the command line and exits) and
  `ras-mc-ctl` (reads the database and sysfs): neither keeps state.
* The number of CPUs listened to after a restart with a CPU offline.

## 6. Plan

1. done: `PageIsolation`, `RasEvents` with `Database`, `RasRecord` with
   `EventLog`, `RowIsolation`, `CpuIsolation`, `IsolationEnv`; the theorems of
   section 4;
2. done: `EventHandlers` with `AbrtReport`;
3. done: `DbSchema` with `DbTables` and `VendorTables`, `NonStandard` with
   `VeraCper`, `Startup` with `MceCpu`;
4. done: the theorems about `RowIsolation`, `CpuIsolation`, `RasEvents`,
   `EventHandlers`, `NonStandard` (with `RowsOwn`) and `Startup` (section 4);
5. open: `CpuCoverage`: isolation, restart and the CPUs listened to; `CpuConfig`:
   `parse_ul_config` beside `IsolationEnv`.
