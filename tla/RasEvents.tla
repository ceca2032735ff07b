------------------------------ MODULE RasEvents ------------------------------
(***************************************************************************)
(* The event loop of rasdaemon (ras-events.c): handle_ras_events reads the *)
(* per-CPU trace buffers with poll() and, when poll() turns out not to     *)
(* work ("legacy kernel"), closes everything and starts one thread per     *)
(* CPU.  Listeners share the database handle of module Database; the       *)
(* threads protect opening and closing it with ras->db_lock, and use it    *)
(* without a lock.                                                         *)
(*                                                                         *)
(* Events are counted, not told apart: `handled' are the ones passed to a  *)
(* handler, `stored' the ones a row was added for.                         *)
(***************************************************************************)
EXTENDS Integers, FiniteSets, Database

CONSTANTS
    NCPUS,          \* get_num_cpus()
    RecordEvents,   \* rasdaemon --record
    MaxEvents       \* bound on the events the kernel writes to one buffer

CPUs == 0..(NCPUS - 1)
NoOwner == -1

ASSUME RasAssumption ==
    /\ NCPUS \in Nat \ {0}
    /\ RecordEvents \in BOOLEAN /\ MaxEvents \in Nat

VARIABLES
    kernel,     \* "legacy" if poll() on trace_pipe_raw does not block
    main,       \* where the main thread is
    i,          \* its loop variable
    revents,    \* the CPUs whose revents has POLLIN
    nready,     \* count_nready
    legacy,     \* legacy_kernel
    masked,     \* are the four signals blocked by sigprocmask?
    signal,     \* a SIGINT, SIGTERM, SIGHUP or SIGQUIT is pending
    freed,      \* data, pevent and ras have been freed
    aborted,    \* pthread_create failed
    thr,        \* thr[c]: where the thread of CPU c is
    cancelled,  \* threads pthread_cancel was called for
    db_lock,    \* the owner of ras->db_lock
    buffer,     \* buffer[c]: events in the kernel's buffer of CPU c
    page,       \* page[c]: events of the page the thread read, not yet handled
    priv,       \* priv[c]: the handler's copy of ras->db_priv
    discarded,  \* discarded[c]: events of pages with invalid data
    handled,    \* handled[c]: events passed to a handler
    stored,     \* stored[c]: of those, the ones written to the database
    skipped,    \* ghost: skipped[c]: the ones whose table has no statement
    failed      \* ghost: failed[c]: the ones whose sqlite3_step failed

mainvars == <<main, i, revents, nready, legacy, masked, freed, aborted>>
rowvars == <<handled, stored, skipped, failed>>
evvars == <<buffer, page, priv, discarded, rowvars>>
vars == <<kernel, mainvars, signal, thr, cancelled, db_lock, evvars, dbvars>>

MainStates ==
    {"setup", "open", "opendb", "opening", "tables", "poll", "scan", "finalize",
     "closedb", "closing", "return", "mutex", "create", "join", "err", "exit", "exited", "killed", "crashed"}
ThreadStates ==
    {"none", "open", "lock1", "opendb", "opening", "tables", "loop", "handle", "store",
     "lock2", "finalize", "closedb", "closing", "done"}

LegacyKernel == kernel = "legacy"

\* The process is gone, and its threads with it.
Terminated == main \in {"exited", "killed", "crashed"}

Init ==
    /\ kernel \in {"legacy", "current"}
    /\ main = "setup" /\ i = 0 /\ revents = {} /\ nready = 0
    /\ legacy = FALSE /\ masked = FALSE /\ signal = FALSE
    /\ freed = FALSE /\ aborted = FALSE
    /\ thr = [c \in CPUs |-> "none"] /\ cancelled = {} /\ db_lock = NoOwner
    /\ buffer = [c \in CPUs |-> 0] /\ page = [c \in CPUs |-> 0]
    /\ priv = [c \in CPUs |-> NULL]
    /\ discarded = [c \in CPUs |-> 0]
    /\ handled = [c \in CPUs |-> 0] /\ stored = [c \in CPUs |-> 0]
    /\ skipped = [c \in CPUs |-> 0] /\ failed = [c \in CPUs |-> 0]
    /\ DbInit

-----------------------------------------------------------------------------
(* The main thread: setup and the poll loop.                               *)

MainGoto(label) == main' = label /\ UNCHANGED <<i, revents, nready, legacy, masked, freed, aborted>>
ThreadsIdle == UNCHANGED <<kernel, thr, cancelled, db_lock>>

(* Registers the handlers; no event enabled, or no memory: goto err.       *)
Setup ==
    /\ main = "setup"
    /\ \E next \in {"open", "err"} : MainGoto(next)
    /\ ThreadsIdle /\ UNCHANGED <<signal, evvars, dbvars>>

(* Opens every trace_pipe_raw, blocks the signals, creates the signalfd.   *)
OpenPipes ==
    /\ main = "open"
    /\ \/ /\ main' = IF RecordEvents THEN "opendb" ELSE "poll"
          /\ masked' = TRUE
       \/ /\ main' = "return"
          /\ UNCHANGED masked
    /\ ThreadsIdle /\ UNCHANGED <<i, revents, nready, legacy, freed, aborted, signal, evvars, dbvars>>

PollOpenDb ==
    /\ main = "opendb"
    /\ opendb_count
    /\ MainGoto(IF db_ref_count > 0 THEN "tables" ELSE "opening")
    /\ ThreadsIdle /\ UNCHANGED <<signal, evvars, dec_ref_count, dec_stmts>>

PollOpening ==
    /\ main = "opening"
    /\ \/ opendb_first /\ MainGoto("tables")
       \/ opendb_fail /\ MainGoto("return")
    /\ ThreadsIdle /\ UNCHANGED <<signal, evvars, dec_ref_count, dec_stmts>>

PollAddTables ==
    /\ main = "tables"
    /\ add_vendor_tables
    /\ MainGoto("poll")
    /\ ThreadsIdle /\ UNCHANGED <<signal, evvars>>

(* poll() blocks until a buffer or the signalfd is readable; on a legacy   *)
(* kernel it returns at once, whatever it found.  The signalfd is looked   *)
(* at first.                                                               *)
Poll ==
    /\ main = "poll"
    /\ \E ready \in SUBSET {c \in CPUs : buffer[c] > 0} :
          /\ LegacyKernel \/ ready = {c \in CPUs : buffer[c] > 0}
          /\ LegacyKernel \/ signal \/ ready # {}
          /\ revents' = ready
    /\ IF signal
       THEN /\ main' = IF RecordEvents THEN "finalize" ELSE "return"
            /\ signal' = FALSE
            /\ UNCHANGED <<i, nready>>
       ELSE /\ main' = "scan" /\ i' = 0 /\ nready' = 0
            /\ UNCHANGED signal
    /\ ThreadsIdle /\ UNCHANGED <<legacy, masked, freed, aborted, evvars, dbvars>>

(* What ras_store_*_event does with n events and one copy of ras->db_priv: *)
(* with NULL, or when the statement of the table is NULL, it returns 0 at  *)
(* once; a failed sqlite3_step is logged and the next event goes on.       *)
StoreEvents(c, handle, n) ==
    \E skip, fail \in 0..n :
        /\ skip > 0 => handle \in partial
        /\ skip + fail <= n
        /\ handle = NULL => skip + fail = 0
        /\ IF fail > 0 THEN Flaw ELSE Sound
        /\ stored' = [stored EXCEPT ![c] = IF handle # NULL THEN @ + n - skip - fail ELSE @]
        /\ skipped' = [skipped EXCEPT ![c] = @ + skip]
        /\ failed' = [failed EXCEPT ![c] = @ + fail]

(* The handlers run for the first n events of a page read by the main      *)
(* thread.                                                                 *)
HandlePage(c, n) ==
    /\ handled' = [handled EXCEPT ![c] = @ + n]
    /\ StoreEvents(c, db_priv, n)

ScanNotReady ==
    /\ main = "scan" /\ i < NCPUS
    /\ i \notin revents \/ LegacyKernel  \* size == 0
    /\ nready' = nready + 1 /\ i' = i + 1
    /\ ThreadsIdle
    /\ UNCHANGED <<main, revents, legacy, masked, freed, aborted, signal, evvars, dbvars>>

(* One page of one buffer; the rest of a page with invalid data is         *)
(* discarded.                                                              *)
ScanPage ==
    /\ main = "scan" /\ i < NCPUS /\ i \in revents /\ buffer[i] > 0
    /\ \E size \in 1..buffer[i] : \E good \in 0..size :
          /\ HandlePage(i, good)
          /\ buffer' = [buffer EXCEPT ![i] = @ - size]
          /\ discarded' = [discarded EXCEPT ![i] = @ + size - good]
    /\ i' = i + 1
    /\ ThreadsIdle
    /\ UNCHANGED <<main, revents, nready, legacy, masked, freed, aborted, signal, page, priv, handlevars>>

\* Mutant: `goto error' instead of `goto cleanup'.
ScanReadError_NoCleanup ==
    /\ main = "scan" /\ i < NCPUS /\ i \in revents
    /\ MainGoto("return")
    /\ ThreadsIdle /\ UNCHANGED <<signal, evvars, dbvars>>

ScanReadError ==
    /\ main = "scan" /\ i < NCPUS /\ i \in revents
    /\ MainGoto(IF RecordEvents THEN "finalize" ELSE "return")
    /\ ThreadsIdle /\ UNCHANGED <<signal, evvars, dbvars>>

\* Mutant: the last CPU is not looked at.
ScanEnd_OffByOne ==
    /\ main = "scan" /\ i = NCPUS - 1
    /\ MainGoto("poll")
    /\ ThreadsIdle /\ UNCHANGED <<signal, evvars, dbvars>>

(* No buffer was readable: "Should only happen with legacy kernels".       *)
ScanEnd ==
    /\ main = "scan" /\ i = NCPUS
    /\ IF nready = NCPUS
       THEN legacy' = TRUE /\ main' = IF RecordEvents THEN "finalize" ELSE "return"
       ELSE main' = "poll" /\ UNCHANGED legacy
    /\ ThreadsIdle /\ UNCHANGED <<i, revents, nready, masked, freed, aborted, signal, evvars, dbvars>>

(* cleanup: vendor statements first, the database after them.              *)
PollFinalize ==
    /\ main = "finalize"
    /\ finalize_vendor_tables
    /\ MainGoto("closedb")
    /\ ThreadsIdle /\ UNCHANGED <<signal, evvars>>

PollCloseDb ==
    /\ main = "closedb"
    /\ closedb_count
    /\ MainGoto(IF db_ref_count = 1 THEN "closing" ELSE "return")
    /\ ThreadsIdle /\ UNCHANGED <<signal, evvars, dec_ref_count, dec_stmts>>

PollClosing ==
    /\ main = "closing"
    /\ closedb_last
    /\ MainGoto("return")
    /\ ThreadsIdle /\ UNCHANGED <<signal, evvars, dec_ref_count, dec_stmts>>

\* Mutant: the signals stay blocked.
PollReturn_KeepMask ==
    /\ main = "return"
    /\ MainGoto(IF legacy THEN "mutex" ELSE "err")
    /\ ThreadsIdle /\ UNCHANGED <<signal, evvars, dbvars>>

(* error: sigprocmask(SIG_UNBLOCK); the value returned picks the fallback. *)
PollReturn ==
    /\ main = "return"
    /\ masked' = FALSE
    /\ main' = IF legacy THEN "mutex" ELSE "err"
    /\ ThreadsIdle /\ UNCHANGED <<i, revents, nready, legacy, freed, aborted, signal, evvars, dbvars>>

-----------------------------------------------------------------------------
(* The main thread: fallback to one thread per CPU.                        *)

MutexInit ==
    /\ main = "mutex"
    /\ main' \in {"create", "err"}
    /\ i' = 0
    /\ ThreadsIdle /\ UNCHANGED <<revents, nready, legacy, masked, freed, aborted, signal, evvars, dbvars>>

CreateThread ==
    /\ main = "create" /\ i < NCPUS
    /\ thr' = [thr EXCEPT ![i] = "open"]
    /\ i' = i + 1
    /\ main' = IF i + 1 = NCPUS THEN "join" ELSE "create"
    /\ UNCHANGED <<revents, nready, legacy, masked, freed, aborted, signal, kernel, cancelled,
                   db_lock, evvars, dbvars>>

(* `while (--i) pthread_cancel(data[i].thread)': the threads i-1 .. 1.     *)
(* When the first thread cannot be created the loop runs through negative  *)
(* indices until it leaves the address space.                              *)
CreateThreadFails ==
    /\ main = "create" /\ i < NCPUS
    /\ aborted' = TRUE
    /\ IF i = 0
       THEN main' = "crashed" /\ UNCHANGED cancelled
       ELSE main' = "err" /\ cancelled' = 1..(i - 1)
    /\ UNCHANGED <<i, revents, nready, legacy, masked, freed, signal, kernel, thr, db_lock, evvars, dbvars>>

\* Mutant: the threads are not waited for.
Join_NoWait ==
    /\ main = "join"
    /\ MainGoto("err")
    /\ ThreadsIdle /\ UNCHANGED <<signal, evvars, dbvars>>

(* "Wait for all threads to complete".                                     *)
Join ==
    /\ main = "join"
    /\ \A c \in CPUs : thr[c] = "done"
    /\ MainGoto("err")
    /\ ThreadsIdle /\ UNCHANGED <<signal, evvars, dbvars>>

(* err: frees data, pevent and ras, and returns to main().                 *)
Free ==
    /\ main = "err"
    /\ main' = "exit"
    /\ freed' = TRUE
    /\ ThreadsIdle /\ UNCHANGED <<i, revents, nready, legacy, masked, aborted, signal, evvars, dbvars>>

Exit ==
    /\ main = "exit"
    /\ MainGoto("exited")
    /\ ThreadsIdle /\ UNCHANGED <<signal, evvars, dbvars>>

MainNext ==
    \/ Setup \/ OpenPipes \/ PollOpenDb \/ PollOpening \/ PollAddTables \/ Poll
    \/ ScanNotReady \/ ScanPage \/ ScanReadError \/ ScanEnd
    \/ PollFinalize \/ PollCloseDb \/ PollClosing \/ PollReturn
    \/ MutexInit \/ CreateThread \/ CreateThreadFails \/ Join \/ Free \/ Exit

-----------------------------------------------------------------------------
(* A legacy thread: handle_ras_events_cpu and read_ras_event.              *)

ThreadGoto(c, label) == thr' = [thr EXCEPT ![c] = label] /\ UNCHANGED cancelled
Lock(c) == db_lock = NoOwner /\ db_lock' = c
Unlock(c) == db_lock' = NoOwner
MainIdle == UNCHANGED <<kernel, mainvars, signal>>

(* No memory, or trace_pipe_raw cannot be opened: the thread ends.         *)
ThreadOpenPipe(c) ==
    /\ thr[c] = "open"
    /\ \E next \in {IF RecordEvents THEN "lock1" ELSE "loop", "done"} : ThreadGoto(c, next)
    /\ MainIdle /\ UNCHANGED <<db_lock, evvars, dbvars>>

\* Mutant: the handle is opened without the lock.
ThreadLockOpen_NoLock(c) ==
    /\ thr[c] = "lock1"
    /\ ThreadGoto(c, "opendb")
    /\ MainIdle /\ UNCHANGED <<db_lock, evvars, dbvars>>

ThreadLockOpen(c) ==
    /\ thr[c] = "lock1"
    /\ Lock(c)
    /\ ThreadGoto(c, "opendb")
    /\ MainIdle /\ UNCHANGED <<evvars, dbvars>>

ThreadOpenDb(c) ==
    /\ thr[c] = "opendb"
    /\ opendb_count
    /\ ThreadGoto(c, IF db_ref_count > 0 THEN "tables" ELSE "opening")
    /\ MainIdle /\ UNCHANGED <<db_lock, evvars, dec_ref_count, dec_stmts>>

\* Mutant: the error path forgets to unlock.
ThreadOpening_KeepLock(c) ==
    /\ thr[c] = "opening"
    /\ \/ opendb_first /\ ThreadGoto(c, "tables")
       \/ opendb_fail /\ ThreadGoto(c, "done")
    /\ MainIdle /\ UNCHANGED <<db_lock, evvars, dec_ref_count, dec_stmts>>

ThreadOpening(c) ==
    /\ thr[c] = "opening"
    /\ \/ opendb_first /\ ThreadGoto(c, "tables") /\ UNCHANGED db_lock
       \/ opendb_fail /\ ThreadGoto(c, "done") /\ Unlock(c)
    /\ MainIdle /\ UNCHANGED <<evvars, dec_ref_count, dec_stmts>>

ThreadAddTables(c) ==
    /\ thr[c] = "tables"
    /\ add_vendor_tables
    /\ Unlock(c)
    /\ ThreadGoto(c, "loop")
    /\ MainIdle /\ UNCHANGED <<evvars>>

(* read() never blocks here: an empty read sleeps POLLING_TIME seconds.    *)
ThreadRead(c) ==
    /\ thr[c] = "loop" /\ buffer[c] > 0
    /\ \E size \in 1..buffer[c] :
          /\ buffer' = [buffer EXCEPT ![c] = @ - size]
          /\ page' = [page EXCEPT ![c] = size]
    /\ ThreadGoto(c, "handle")
    /\ MainIdle /\ UNCHANGED <<db_lock, priv, discarded, rowvars, dbvars>>

ThreadReadError(c) ==
    /\ thr[c] = "loop"
    /\ ThreadGoto(c, IF RecordEvents THEN "lock2" ELSE "done")
    /\ MainIdle /\ UNCHANGED <<db_lock, evvars, dbvars>>

(* A handler begins: ras_store_*_event reads ras->db_priv once ...         *)
ThreadHandle(c) ==
    /\ thr[c] = "handle"
    /\ priv' = [priv EXCEPT ![c] = db_priv]
    /\ ThreadGoto(c, "store")
    /\ MainIdle /\ UNCHANGED <<db_lock, buffer, page, discarded, rowvars, dbvars>>

(* ... and writes through that copy.                                       *)
ThreadStore(c) ==
    /\ thr[c] = "store"
    /\ handled' = [handled EXCEPT ![c] = @ + 1]
    /\ StoreEvents(c, priv[c], 1)
    /\ priv' = [priv EXCEPT ![c] = NULL]
    /\ page' = [page EXCEPT ![c] = @ - 1]
    /\ ThreadGoto(c, IF page[c] > 1 THEN "handle" ELSE "loop")
    /\ MainIdle /\ UNCHANGED <<db_lock, buffer, discarded, handlevars>>

ThreadLockClose(c) ==
    /\ thr[c] = "lock2"
    /\ Lock(c)
    /\ ThreadGoto(c, "finalize")
    /\ MainIdle /\ UNCHANGED <<evvars, dbvars>>

ThreadFinalize(c) ==
    /\ thr[c] = "finalize"
    /\ finalize_vendor_tables
    /\ ThreadGoto(c, "closedb")
    /\ MainIdle /\ UNCHANGED <<db_lock, evvars>>

ThreadCloseDb(c) ==
    /\ thr[c] = "closedb"
    /\ closedb_count
    /\ IF db_ref_count = 1
       THEN ThreadGoto(c, "closing") /\ UNCHANGED db_lock
       ELSE ThreadGoto(c, "done") /\ Unlock(c)
    /\ MainIdle /\ UNCHANGED <<evvars, dec_ref_count, dec_stmts>>

ThreadClosing(c) ==
    /\ thr[c] = "closing"
    /\ closedb_last
    /\ Unlock(c)
    /\ ThreadGoto(c, "done")
    /\ MainIdle /\ UNCHANGED <<evvars, dec_ref_count, dec_stmts>>

(* A cancelled thread ends at its next cancellation point, and what it     *)
(* holds is not released.                                                  *)
ThreadCancelled(c) ==
    /\ c \in cancelled /\ thr[c] # "done"
    /\ ThreadGoto(c, "done")
    /\ MainIdle /\ UNCHANGED <<db_lock, evvars, dbvars>>

ThreadProgress(c) ==
    /\ ~Terminated
    /\ \/ ThreadOpenPipe(c) \/ ThreadLockOpen(c) \/ ThreadOpenDb(c) \/ ThreadOpening(c)
       \/ ThreadAddTables(c) \/ ThreadRead(c) \/ ThreadHandle(c) \/ ThreadStore(c)
       \/ ThreadLockClose(c) \/ ThreadFinalize(c) \/ ThreadCloseDb(c) \/ ThreadClosing(c)
       \/ ThreadCancelled(c)

ThreadNext(c) == ThreadProgress(c) \/ (~Terminated /\ ThreadReadError(c))

-----------------------------------------------------------------------------
(* The environment: hardware reports errors, an operator stops the daemon. *)

KernelEvent(c) ==
    /\ ~Terminated
    /\ buffer[c] + page[c] + handled[c] + discarded[c] < MaxEvents
    /\ buffer' = [buffer EXCEPT ![c] = @ + 1]
    /\ MainIdle /\ ThreadsIdle /\ UNCHANGED <<page, priv, discarded, rowvars, dbvars>>

SendSignal ==
    /\ ~Terminated /\ ~signal
    /\ signal' = TRUE
    /\ ThreadsIdle /\ UNCHANGED <<mainvars, evvars, dbvars>>

(* The default action of an unblocked signal.                              *)
Kill ==
    /\ ~Terminated /\ signal /\ ~masked
    /\ MainGoto("killed")
    /\ ThreadsIdle /\ UNCHANGED <<signal, evvars, dbvars>>

Done == Terminated /\ UNCHANGED vars

Next ==
    \/ MainNext
    \/ \E c \in CPUs : ThreadNext(c)
    \/ \E c \in CPUs : KernelEvent(c)
    \/ SendSignal \/ Kill \/ Done

Spec == Init /\ [][Next]_vars

(* The scheduler runs every thread that can run and the kernel delivers a  *)
(* signal that is not blocked.  Read errors, events and signals need not   *)
(* happen.                                                                 *)
Fairness ==
    /\ WF_vars(MainNext)
    /\ \A c \in CPUs : WF_vars(ThreadProgress(c))
    /\ WF_vars(Kill)

FairSpec == Spec /\ Fairness

-----------------------------------------------------------------------------
(* The values the variables take.                                          *)
TypeOK ==
    /\ kernel \in {"legacy", "current"}
    /\ main \in MainStates /\ i \in 0..NCPUS /\ revents \in SUBSET CPUs /\ nready \in 0..NCPUS
    /\ legacy \in BOOLEAN /\ masked \in BOOLEAN /\ signal \in BOOLEAN
    /\ freed \in BOOLEAN /\ aborted \in BOOLEAN
    /\ thr \in [CPUs -> ThreadStates] /\ cancelled \in SUBSET CPUs
    /\ db_lock \in CPUs \cup {NoOwner}
    /\ buffer \in [CPUs -> Nat] /\ page \in [CPUs -> Nat] /\ priv \in [CPUs -> Nat]
    /\ discarded \in [CPUs -> Nat] /\ handled \in [CPUs -> Nat] /\ stored \in [CPUs -> Nat]
    /\ skipped \in [CPUs -> Nat] /\ failed \in [CPUs -> Nat]
    /\ DbTypeOK

(* A handler that copied ras->db_priv still finds that database open when  *)
(* it writes through the copy: no thread closes the database another one   *)
(* is storing to, although storing takes no lock.                          *)
NoStaleHandle ==
    \A c \in CPUs : thr[c] = "store" /\ priv[c] # NULL => priv[c] = db_priv

(* With --record and unless opening the database failed, a handler finds   *)
(* it open for every event, in poll mode, through the fallback and in      *)
(* every interleaving of the threads that come and go: an event that is    *)
(* not written is one whose sqlite3_step failed, or one whose table could  *)
(* not be created when the database was opened.                            *)
HandledIsRecorded ==
    RecordEvents /\ leaked = 0 =>
        \A c \in CPUs : /\ handled[c] = stored[c] + skipped[c] + failed[c]
                        /\ skipped[c] > 0 => partial # {}

(* A prepared vendor statement belongs to an open database, in every       *)
(* interleaving of the threads that add and finalize them; and the daemon  *)
(* that stops by itself or on a signal it received through the signalfd    *)
(* has finalized the vendors' statements, given up the handle, and has no  *)
(* connection left open but those of opens that failed half way and those  *)
(* that an altered table left a SELECT on.                                 *)
CleanClose ==
    /\ dec_stmts # {} => db_priv # NULL
    /\ main \in {"err", "exit", "exited"} /\ ~aborted =>
          db_priv = NULL /\ dec_stmts = {} /\ conns = orphans \cup altered

(* Nothing is freed under a running thread: `Wait for all threads to       *)
(* complete' (ras-events.c:1320), unless creating a thread failed.         *)
FreedWhenQuiet ==
    freed /\ ~aborted => \A c \in CPUs : thr[c] \in {"none", "done"}

Listening(c) ==
    \/ main \in {"poll", "scan"}
    \/ ~Terminated /\ thr[c] \in {"loop", "handle", "store"}

(* An event in a buffer that is being listened to is read, or the daemon   *)
(* stops listening there; no CPU's buffer is starved by the others.        *)
BuffersDrained ==
    \A c \in CPUs : buffer[c] > 0 /\ Listening(c) ~> buffer[c] = 0 \/ ~Listening(c)

(* A stop signal ends the daemon, whatever it is doing.                    *)
SignalTerminates == signal ~> Terminated

(* A thread that waits for db_lock gets it.                                *)
LockGranted ==
    \A c \in CPUs : thr[c] \in {"lock1", "lock2"} ~> thr[c] \notin {"lock1", "lock2"} \/ Terminated
=============================================================================
