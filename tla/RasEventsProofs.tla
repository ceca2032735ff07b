-------------------------- MODULE RasEventsProofs --------------------------
(***************************************************************************)
(* The event loop and its fallback threads, proved for every number of     *)
(* CPUs, vendor decoders and events: nobody stores through a closed        *)
(* database, what is handled is recorded, statements belong to an open     *)
(* database, and nothing is freed under a running thread.                  *)
(***************************************************************************)
EXTENDS RasEvents, FiniteSetTheorems, TLAPS

-----------------------------------------------------------------------------
(* The inductive invariant.                                                *)

\* The main thread listens itself; there are no other threads.
PollStates ==
    {"setup", "open", "opendb", "opening", "tables", "poll", "scan", "finalize",
     "closedb", "closing", "return", "mutex"}

\* The threads may be running.
ForkStates == {"create", "join", "err", "exit"}

\* A thread in one of these is inside pthread_mutex_lock(&ras->db_lock).
LockedStates == {"opendb", "opening", "tables", "finalize", "closedb", "closing"}

\* With --record: a thread in one of these has counted itself in
\* db_ref_count, one of UsingStates has seen the database open, and one of
\* DecodingStates has counted itself in dec_ref_count.
DecodingStates == {"loop", "handle", "store", "lock2", "finalize"}
UsingStates == {"tables", "closedb"} \cup DecodingStates
CountedStates == {"opening"} \cup UsingStates

At(states) == {c \in CPUs : thr[c] \in states}

\* The counters of the loops and of the page being handled.
CountersOK ==
    /\ main = "scan" => nready <= i
    /\ main = "create" => i < NCPUS /\ \A c \in CPUs : c >= i => thr[c] = "none"
    /\ \A c \in CPUs : thr[c] \in {"handle", "store"} => page[c] > 0

\* No --record, no database.
NoRecordOK ==
    ~RecordEvents =>
        /\ db_ref_count = 0 /\ db_priv = NULL /\ dec_ref_count = 0 /\ dec_stmts = {} /\ leaked = 0
        /\ main \notin {"opendb", "opening", "tables", "finalize", "closedb", "closing"}
        /\ \A c \in CPUs : /\ thr[c] \in {"none", "open", "loop", "handle", "store", "done"}
                           /\ priv[c] = NULL

\* In poll mode there is one user of the database, the main thread.
PollOK ==
    main \in PollStates =>
        /\ thr = [c \in CPUs |-> "none"] /\ db_lock = NoOwner /\ cancelled = {}
        /\ ~aborted /\ ~freed
        /\ main # "return" => leaked = 0
        /\ main \in {"opening", "tables", "closedb"} => db_ref_count = 1
        /\ main \in {"tables", "closedb", "closing"} => db_priv # NULL
        /\ main \in {"poll", "scan", "finalize"} /\ RecordEvents =>
              /\ db_ref_count = 1 /\ db_priv # NULL
              /\ dec_ref_count = IF NDecoders > 0 THEN 1 ELSE 0
        /\ main \in {"setup", "open", "opendb", "closing", "mutex"} => db_ref_count = 0
        /\ main \in {"setup", "open", "opendb", "opening", "return", "mutex"} => db_priv = NULL
        /\ main \notin {"poll", "scan", "finalize"} => dec_ref_count = 0 /\ dec_stmts = {}
        /\ main \in {"setup", "open", "opendb", "opening", "tables", "poll", "scan"} => ~legacy
        /\ main = "return" => db_ref_count = leaked /\ (legacy => leaked = 0)

\* The lock excludes the threads that open and close from each other.
LockOK == \A c \in CPUs : thr[c] \in LockedStates => db_lock = c

\* The count covers its users: nobody else is there while the first one
\* opens and the last one closes.
CountOK ==
    main \in ForkStates /\ RecordEvents =>
        /\ Cardinality(At(CountedStates)) <= db_ref_count
        /\ \A c \in CPUs : thr[c] = "opening" =>
              db_ref_count = 1 /\ db_priv = NULL /\ \A d \in CPUs : thr[d] \in CountedStates => d = c
        /\ \A c \in CPUs : thr[c] = "closing" => db_ref_count = 0

\* Unless opening it failed, the users find the database open; only a
\* thread cancelled while it opened leaves a count without a database, and
\* keeps the lock.
RecordOK ==
    RecordEvents /\ leaked = 0 =>
        /\ \A c \in CPUs : thr[c] \in UsingStates => db_priv # NULL
        /\ \A c \in CPUs : thr[c] = "store" => priv[c] # NULL
        /\ main \in ForkStates /\ db_ref_count > 0 =>
              \/ db_priv # NULL
              \/ \E c \in CPUs : thr[c] = "opening"
              \/ db_lock # NoOwner /\ thr[db_lock] = "done"

\* The users of the vendor statements are users of the database.
DecoderOK ==
    /\ NDecoders = 0 => dec_ref_count = 0
    /\ dec_ref_count = 0 => dec_stmts = {}
    /\ main \in ForkStates /\ RecordEvents =>
          /\ dec_ref_count <= db_ref_count
          /\ NDecoders > 0 => Cardinality(At(DecodingStates)) <= dec_ref_count
          /\ \A c \in CPUs : thr[c] \in {"opening", "tables", "closedb"} =>
                dec_ref_count < db_ref_count

\* Without a cancelled thread the count is exact while the database is open.
ExactOK ==
    ~aborted =>
        /\ cancelled = {}
        /\ main \in ForkStates /\ RecordEvents /\ db_priv # NULL =>
              /\ db_ref_count = Cardinality(At(CountedStates))
              /\ db_ref_count = 0 => \E c \in CPUs : thr[c] = "closing"

\* How the main thread ends.
EndOK ==
    /\ aborted => main \in {"err", "exit", "exited", "killed", "crashed"}
    /\ freed => main \in {"exit", "exited", "killed"}
    /\ main \in {"err", "exit", "exited"} /\ ~aborted =>
          db_priv = NULL /\ \A c \in CPUs : thr[c] \in {"none", "done"}

\* A vendor statement belongs to an open database; nothing of either is left
\* at the end.
StatementsOK ==
    /\ dec_stmts # {} => db_priv # NULL
    /\ main \in {"err", "exit", "exited"} /\ ~aborted => db_priv = NULL /\ dec_stmts = {}

IInv ==
    /\ TypeOK /\ CountersOK /\ NoRecordOK /\ PollOK /\ LockOK /\ CountOK
    /\ RecordOK /\ DecoderOK /\ ExactOK /\ EndOK
    /\ NoStaleHandle /\ StatementsOK /\ FreedWhenQuiet

-----------------------------------------------------------------------------
(* Counting the threads.                                                   *)

(* The sets of threads are finite, and a set without threads counts zero.  *)
LEMMA AtFinite ==
    ASSUME NEW S
    PROVE  /\ IsFiniteSet(At(S)) /\ Cardinality(At(S)) \in Nat
           /\ Cardinality(At(S)) = 0 <=> At(S) = {}
<1>1. IsFiniteSet(CPUs)
  BY FS_Interval, RasAssumption DEF CPUs
<1>2. IsFiniteSet(At(S))
  BY <1>1, FS_Subset DEF At
<1> QED
  BY <1>2, FS_CardinalityType, FS_EmptySet

(* One thread's move changes the number of threads in a set of states by   *)
(* the thread itself.                                                      *)
LEMMA AtMove ==
    ASSUME NEW S, NEW c \in CPUs, NEW s,
           thr \in [CPUs -> ThreadStates], thr' = [thr EXCEPT ![c] = s]
    PROVE  Cardinality(At(S)') =
              Cardinality(At(S)) + (IF s \in S THEN 1 ELSE 0) - (IF thr[c] \in S THEN 1 ELSE 0)
<1>0. IsFiniteSet(At(S)) /\ Cardinality(At(S)) \in Nat
  BY AtFinite
<1>1. At(S)' = IF s \in S THEN At(S) \cup {c} ELSE At(S) \ {c}
  BY DEF At
<1>2. c \in At(S) <=> thr[c] \in S
  BY DEF At
<1>3. /\ Cardinality(At(S) \cup {c}) =
            IF c \in At(S) THEN Cardinality(At(S)) ELSE Cardinality(At(S)) + 1
      /\ Cardinality(At(S) \ {c}) =
            IF c \in At(S) THEN Cardinality(At(S)) - 1 ELSE Cardinality(At(S))
  BY <1>0, FS_AddElement, FS_RemoveElement
<1>4. CASE s \in S
  <2>1. Cardinality(At(S)') = Cardinality(At(S) \cup {c})
    BY <1>1, <1>4
  <2> QED
    BY <1>0, <1>2, <1>3, <1>4, <2>1
<1>5. CASE s \notin S
  <2>1. Cardinality(At(S)') = Cardinality(At(S) \ {c})
    BY <1>1, <1>5
  <2> QED
    BY <1>0, <1>2, <1>3, <1>5, <2>1
<1> QED
  BY <1>4, <1>5

(* A thread in a set of states is counted there.                           *)
LEMMA AtSome ==
    ASSUME NEW S, NEW c \in CPUs, thr[c] \in S
    PROVE  Cardinality(At(S)) >= 1
BY AtFinite DEF At

-----------------------------------------------------------------------------
(* The types of the database's state and of the rows.                      *)

\* The types of the counts of events.
RowTypes ==
    /\ handled \in [CPUs -> Nat] /\ stored \in [CPUs -> Nat]
    /\ skipped \in [CPUs -> Nat] /\ failed \in [CPUs -> Nat]

(* Opening and closing the database and the vendor statements keep the     *)
(* types of its state.                                                     *)
LEMMA DatabaseTypes ==
    ASSUME DbTypeOK,
           \/ /\ UNCHANGED <<dec_ref_count, dec_stmts>>
              /\ opendb_count \/ opendb_first \/ opendb_fail \/ closedb_count \/ closedb_last
           \/ add_vendor_tables \/ finalize_vendor_tables
    PROVE  DbTypeOK'
<1> USE DecodersAssumption, FlawsAssumption
<1> DEFINE All == partial \cup conns \cup orphans \cup altered
<1>0. /\ db_ref_count \in Nat /\ opens \in Nat /\ leaked \in Nat /\ flaws \in Nat
      /\ db_priv \in 0..opens /\ All \subseteq 1..opens
      /\ dec_ref_count \in Nat /\ dec_stmts \in SUBSET Decoders
  BY DEF DbTypeOK
<1>1. /\ 0..opens \subseteq 0..(opens + 1) /\ 1..opens \subseteq 1..(opens + 1)
      /\ opens + 1 \in 1..(opens + 1) /\ opens + 1 \in 0..(opens + 1) /\ 0 \in 0..opens
      /\ db_priv # NULL => db_priv \in 1..opens
  BY <1>0 DEF NULL
<1>t. ASSUME db_ref_count' \in Nat, opens' \in Nat, leaked' \in Nat, flaws' \in Nat,
             db_priv' \in 0..opens', All' \subseteq 1..opens',
             dec_ref_count' \in Nat, dec_stmts' \in SUBSET Decoders
      PROVE  DbTypeOK'
  BY <1>t DEF DbTypeOK
<1>2. CASE UNCHANGED <<dec_ref_count, dec_stmts>> /\ (opendb_count \/ closedb_count)
  <2>1. /\ UNCHANGED <<dec_ref_count, dec_stmts, leaked, flaws, opens>> /\ All' = All
        /\ db_priv' \in {db_priv, 0} /\ db_ref_count' \in Nat
    BY <1>0, <1>2 DEF opendb_count, closedb_count, connvars, NULL
  <2> HIDE DEF All
  <2> QED
    BY <1>0, <1>1, <1>t, <2>1
<1>3. CASE UNCHANGED <<dec_ref_count, dec_stmts>> /\ opendb_first
  <2>1. /\ opens' = opens + 1 /\ conns' = conns \cup {opens + 1} /\ db_priv' = opens + 1
        /\ partial' \in {partial, partial \cup {opens + 1}}
        /\ altered' \in {altered, altered \cup {opens + 1}}
        /\ flaws' \in {flaws, flaws + 1} /\ UNCHANGED <<db_ref_count, leaked, orphans>>
    BY <1>3 DEF opendb_first, connect, alter_tables, Flaw, Sound
  <2>2. All' = All \cup {opens + 1}
    BY <2>1
  <2> HIDE DEF All
  <2>3. All' \subseteq 1..opens' /\ db_priv' \in 0..opens' /\ opens' \in Nat
    BY <1>0, <1>1, <2>1, <2>2
  <2> QED
    BY <1>0, <1>3, <1>t, <2>1, <2>3
<1>4. CASE UNCHANGED <<dec_ref_count, dec_stmts>> /\ opendb_fail
  <2>1. /\ leaked' = leaked + 1 /\ UNCHANGED <<db_ref_count, db_priv, partial, altered>>
        /\ \/ flaws' = flaws /\ UNCHANGED <<opens, conns, orphans>>
           \/ /\ flaws' = flaws + 1 /\ opens' = opens + 1
              /\ conns' = conns \cup {opens + 1} /\ orphans' = orphans \cup {opens + 1}
    BY <1>4 DEF opendb_fail, connect, Flaw, Sound
  <2>2. (opens' = opens /\ All' = All) \/ (opens' = opens + 1 /\ All' = All \cup {opens + 1})
    BY <2>1
  <2>3. db_priv' = db_priv
    BY <2>1
  <2> HIDE DEF All
  <2>4. CASE opens' = opens /\ All' = All
    BY <1>0, <1>4, <1>t, <2>1, <2>3, <2>4
  <2>5. CASE opens' = opens + 1 /\ All' = All \cup {opens + 1}
    <3>1. All' \subseteq 1..opens' /\ db_priv' \in 0..opens' /\ opens' \in Nat
      BY <1>0, <1>1, <2>3, <2>5
    <3> QED
      BY <1>0, <1>4, <1>t, <2>1, <3>1
  <2> QED
    BY <2>2, <2>4, <2>5
<1>5. CASE UNCHANGED <<dec_ref_count, dec_stmts>> /\ closedb_last
  <2>1. /\ UNCHANGED <<dec_ref_count, dec_stmts, db_ref_count, leaked, flaws, opens>>
        /\ All' \subseteq All /\ db_priv' = 0
    BY <1>5 DEF closedb_last, NULL
  <2> HIDE DEF All
  <2> QED
    BY <1>0, <1>1, <1>t, <2>1
<1>6. CASE add_vendor_tables
  <2>1. dec_stmts' \in SUBSET Decoders
    BY <1>0, <1>6 DEF add_vendor_tables
  <2>2. /\ flaws' \in {flaws, flaws + 1}
        /\ altered' = altered \/ (db_priv # NULL /\ altered' = altered \cup {db_priv})
    <3>1. CASE db_priv = NULL
      BY <1>6, <3>1 DEF add_vendor_tables, Sound
    <3>2. CASE db_priv # NULL /\ Decoders \subseteq dec_stmts
      BY <1>6, <3>2 DEF add_vendor_tables, Sound
    <3>3. CASE db_priv # NULL /\ ~(Decoders \subseteq dec_stmts)
      BY <1>6, <3>3 DEF add_vendor_tables, alter_tables, Flaw, Sound
    <3> QED
      BY <3>1, <3>2, <3>3
  <2>3. /\ dec_ref_count' \in Nat
        /\ UNCHANGED <<db_ref_count, db_priv, leaked, opens, partial, conns, orphans>>
    BY <1>0, <1>6 DEF add_vendor_tables
  <2>4. All' = All \/ (db_priv # NULL /\ All' = All \cup {db_priv})
    BY <2>2, <2>3
  <2>5. flaws' \in Nat
    BY <1>0, <2>2
  <2>o. opens' = opens /\ All \subseteq 1..opens
    BY <1>0, <2>3
  <2> HIDE DEF All
  <2>6. All' \subseteq 1..opens'
    <3>1. CASE All' = All
      BY <2>o, <3>1
    <3>2. CASE db_priv # NULL /\ All' = All \cup {db_priv}
      <4>1. db_priv \in 1..opens
        BY <1>1, <3>2
      <4>2. All' \subseteq 1..opens
        BY <2>o, <3>2, <4>1
      <4> QED
        BY <2>o, <4>2
    <3> QED
      BY <2>4, <3>1, <3>2
  <2> QED
    BY <1>0, <1>t, <2>1, <2>3, <2>5, <2>6
<1>7. CASE finalize_vendor_tables
  <2>1. /\ UNCHANGED <<db_ref_count, db_priv, leaked, flaws, opens>> /\ All' = All
        /\ dec_ref_count' \in Nat /\ dec_stmts' \in SUBSET Decoders
    BY <1>0, <1>7 DEF finalize_vendor_tables, connvars
  <2> HIDE DEF All
  <2> QED
    BY <1>0, <1>t, <2>1
<1> QED
  BY <1>2, <1>3, <1>4, <1>5, <1>6, <1>7

(* Storing n events counts each of them as stored, passed over or failed,  *)
(* and passes over only where a table has no statement.                    *)
LEMMA StoreCounts ==
    ASSUME TypeOK, NEW c \in CPUs, NEW handle \in Nat, NEW n \in Nat,
           StoreEvents(c, handle, n), handled' = [handled EXCEPT ![c] = @ + n]
    PROVE  /\ RowTypes' /\ flaws' \in Nat
           /\ \A d \in CPUs \ {c} : handled'[d] = handled[d] /\ stored'[d] = stored[d]
                                   /\ skipped'[d] = skipped[d] /\ failed'[d] = failed[d]
           /\ handle # NULL /\ handled[c] = stored[c] + skipped[c] + failed[c]
                 => handled'[c] = stored'[c] + skipped'[c] + failed'[c]
           /\ skipped'[c] = skipped[c] \/ partial # {}
<1>0. /\ handled \in [CPUs -> Nat] /\ stored \in [CPUs -> Nat]
      /\ skipped \in [CPUs -> Nat] /\ failed \in [CPUs -> Nat] /\ flaws \in Nat
  BY DEF TypeOK, DbTypeOK
<1>1. PICK skip \in 0..n, fail \in 0..n :
         /\ skip > 0 => handle \in partial
         /\ skip + fail <= n
         /\ IF fail > 0 THEN Flaw ELSE Sound
         /\ stored' = [stored EXCEPT ![c] = IF handle # NULL THEN @ + n - skip - fail ELSE @]
         /\ skipped' = [skipped EXCEPT ![c] = @ + skip]
         /\ failed' = [failed EXCEPT ![c] = @ + fail]
  BY DEF StoreEvents
<1>2. flaws' \in Nat
  BY <1>0, <1>1 DEF Flaw, Sound
<1>3. /\ handled'[c] = handled[c] + n /\ skipped'[c] = skipped[c] + skip
      /\ failed'[c] = failed[c] + fail
      /\ stored'[c] = IF handle # NULL THEN stored[c] + n - skip - fail ELSE stored[c]
  BY <1>0, <1>1
<1>4. RowTypes'
  BY <1>0, <1>1 DEF RowTypes
<1>5. \A d \in CPUs \ {c} : handled'[d] = handled[d] /\ stored'[d] = stored[d]
                          /\ skipped'[d] = skipped[d] /\ failed'[d] = failed[d]
  BY <1>0, <1>1
<1>6. skipped'[c] = skipped[c] \/ partial # {}
  BY <1>0, <1>1, <1>3
<1>7. handle # NULL /\ handled[c] = stored[c] + skipped[c] + failed[c]
         => handled'[c] = stored'[c] + skipped'[c] + failed'[c]
  BY <1>0, <1>1, <1>3
<1> QED
  BY <1>2, <1>4, <1>5, <1>6, <1>7

-----------------------------------------------------------------------------
(* Without threads the invariant comes down to the main thread's part.     *)

(* In poll mode the facts about the main thread give those about threads.  *)
LEMMA PollSuffices ==
    TypeOK /\ NoRecordOK /\ PollOK /\ main \in PollStates
      => /\ LockOK /\ CountOK /\ RecordOK /\ DecoderOK /\ ExactOK /\ EndOK
         /\ NoStaleHandle /\ StatementsOK /\ FreedWhenQuiet
<1> SUFFICES ASSUME TypeOK, NoRecordOK, PollOK, main \in PollStates
             PROVE  /\ LockOK /\ CountOK /\ RecordOK /\ DecoderOK /\ ExactOK /\ EndOK
                    /\ NoStaleHandle /\ StatementsOK /\ FreedWhenQuiet
  OBVIOUS
<1>1. /\ \A c \in CPUs : thr[c] = "none"
      /\ cancelled = {} /\ ~aborted /\ ~freed
  BY DEF PollOK
<1>2. main \notin ForkStates
  BY DEF PollStates, ForkStates
<1>3. LockOK /\ NoStaleHandle /\ FreedWhenQuiet /\ CountOK /\ ExactOK
  BY <1>1, <1>2 DEF LockOK, NoStaleHandle, FreedWhenQuiet, CountOK, ExactOK, LockedStates
<1>4. RecordOK
  BY <1>1, <1>2 DEF RecordOK, UsingStates, DecodingStates
<1>5. EndOK
  BY <1>1 DEF EndOK, PollStates
<1>6. /\ NDecoders = 0 => dec_ref_count = 0
      /\ dec_ref_count = 0 => dec_stmts = {}
  BY DecodersAssumption DEF PollOK, NoRecordOK, TypeOK, DbTypeOK, Decoders
<1>7. DecoderOK
  BY <1>2, <1>6 DEF DecoderOK
<1>8. StatementsOK
  BY DEF StatementsOK, PollOK, NoRecordOK, PollStates
<1> QED
  BY <1>3, <1>4, <1>5, <1>7, <1>8

\* Between poll mode and the threads, and when neither started.
IdleOK ==
    /\ main \in {"create", "err"} /\ ~aborted /\ ~freed
    /\ thr = [c \in CPUs |-> "none"] /\ db_lock = NoOwner /\ cancelled = {}
    /\ db_priv = NULL /\ dec_ref_count = 0 /\ dec_stmts = {} /\ db_ref_count = leaked

(* The same when the main thread has left poll mode.                       *)
LEMMA IdleSuffices ==
    TypeOK /\ IdleOK
      => /\ PollOK /\ LockOK /\ CountOK /\ RecordOK /\ DecoderOK /\ ExactOK /\ EndOK
         /\ NoStaleHandle /\ StatementsOK /\ FreedWhenQuiet
<1> SUFFICES ASSUME TypeOK, IdleOK
             PROVE  /\ PollOK /\ LockOK /\ CountOK /\ RecordOK /\ DecoderOK /\ ExactOK /\ EndOK
                    /\ NoStaleHandle /\ StatementsOK /\ FreedWhenQuiet
  OBVIOUS
<1>1. /\ \A c \in CPUs : thr[c] = "none"
      /\ cancelled = {} /\ ~aborted /\ ~freed /\ db_priv = NULL
      /\ dec_ref_count = 0 /\ dec_stmts = {} /\ db_ref_count = leaked
      /\ main \in {"create", "err"}
  BY DEF IdleOK
<1>2. db_ref_count \in Nat
  BY DEF TypeOK, DbTypeOK
<1>3. Cardinality(At(CountedStates)) = 0 /\ Cardinality(At(DecodingStates)) = 0
  <2>1. At(CountedStates) = {} /\ At(DecodingStates) = {}
    BY <1>1 DEF At, CountedStates, UsingStates, DecodingStates
  <2> QED
    BY <2>1, AtFinite
<1>4. PollOK
  BY <1>1 DEF PollOK, PollStates
<1>5. LockOK /\ NoStaleHandle /\ FreedWhenQuiet /\ ExactOK /\ StatementsOK
  BY <1>1 DEF LockOK, NoStaleHandle, FreedWhenQuiet, ExactOK, StatementsOK, LockedStates
<1>6. CountOK
  BY <1>1, <1>2, <1>3 DEF CountOK
<1>7. RecordOK
  BY <1>1 DEF RecordOK, UsingStates, DecodingStates
<1>8. DecoderOK
  BY <1>1, <1>2, <1>3 DEF DecoderOK
<1>9. EndOK
  BY <1>1 DEF EndOK
<1> QED
  BY <1>4, <1>5, <1>6, <1>7, <1>8, <1>9

(* The invariant holds initially.                                          *)
LEMMA InitIInv == Init => IInv
<1> SUFFICES ASSUME Init PROVE IInv
  OBVIOUS
<1>1. TypeOK
  <2>0. /\ legacy \in BOOLEAN /\ masked \in BOOLEAN /\ signal \in BOOLEAN
        /\ freed \in BOOLEAN /\ aborted \in BOOLEAN
        /\ revents \in SUBSET CPUs /\ cancelled \in SUBSET CPUs
    BY DEF Init
  <2>1. /\ kernel \in {"legacy", "current"} /\ main \in MainStates
        /\ i \in 0..NCPUS /\ nready \in 0..NCPUS
        /\ db_lock \in CPUs \cup {NoOwner}
    BY RasAssumption DEF Init, MainStates
  <2>2. thr \in [CPUs -> ThreadStates]
    BY DEF Init, ThreadStates
  <2>3. /\ buffer \in [CPUs -> Nat] /\ page \in [CPUs -> Nat] /\ priv \in [CPUs -> Nat]
        /\ discarded \in [CPUs -> Nat] /\ RowTypes
    BY DEF Init, NULL, RowTypes
  <2>4. DbTypeOK
    BY DEF Init, DbInit, DbTypeOK, NULL
  <2> QED
    BY <2>0, <2>1, <2>2, <2>3, <2>4 DEF TypeOK, RowTypes
<1>2. CountersOK
  BY DEF Init, CountersOK
<1>3. NoRecordOK
  BY DEF Init, DbInit, NoRecordOK
<1>4. PollOK /\ main \in PollStates
  BY DEF Init, DbInit, PollOK, PollStates
<1> QED
  BY <1>1, <1>2, <1>3, <1>4, PollSuffices DEF IInv

-----------------------------------------------------------------------------
(* The steps of the main thread in poll mode.                              *)

(* A step that ends in poll mode keeps the invariant if it keeps the main  *)
(* thread's part.                                                          *)
LEMMA PollStep ==
    ASSUME TypeOK', CountersOK', NoRecordOK', PollOK', (main \in PollStates)'
    PROVE  IInv'
<1>1. (TypeOK /\ NoRecordOK /\ PollOK /\ main \in PollStates
          => /\ LockOK /\ CountOK /\ RecordOK /\ DecoderOK /\ ExactOK /\ EndOK
             /\ NoStaleHandle /\ StatementsOK /\ FreedWhenQuiet)'
  BY PollSuffices, PTL
<1> QED
  BY <1>1 DEF IInv

(* A step out of poll mode.                                                *)
LEMMA IdleStep ==
    ASSUME TypeOK', CountersOK', NoRecordOK', IdleOK'
    PROVE  IInv'
<1>1. (TypeOK /\ IdleOK
          => /\ PollOK /\ LockOK /\ CountOK /\ RecordOK /\ DecoderOK /\ ExactOK /\ EndOK
             /\ NoStaleHandle /\ StatementsOK /\ FreedWhenQuiet)'
  BY IdleSuffices, PTL
<1> QED
  BY <1>1 DEF IInv

\* What most steps of the main thread leave alone.
EventsIdle == UNCHANGED <<signal, evvars>> /\ ThreadsIdle

(* Moving the main thread without touching anything of the events or the   *)
(* threads keeps the types.                                                *)
LEMMA MainTypes ==
    ASSUME TypeOK, EventsIdle, main' \in MainStates,
           UNCHANGED <<i, revents, nready, legacy, masked, freed, aborted>>, DbTypeOK'
    PROVE  TypeOK'
BY DEF TypeOK, EventsIdle, ThreadsIdle, evvars, rowvars

(* The setup of poll mode and what ends it keep the invariant.             *)
LEMMA PollSetupIInv ==
    ASSUME IInv, Setup \/ OpenPipes \/ PollOpenDb \/ PollOpening \/ PollAddTables
    PROVE  IInv'
<1> USE RasAssumption, DecodersAssumption
<1>0. TypeOK /\ CountersOK /\ NoRecordOK /\ PollOK /\ DbTypeOK
  BY DEF IInv, TypeOK
<1>1. CASE Setup
  <2>1. /\ main = "setup" /\ main' \in {"open", "err"} /\ EventsIdle /\ UNCHANGED dbvars
        /\ UNCHANGED <<i, revents, nready, legacy, masked, freed, aborted>>
    BY <1>1 DEF Setup, MainGoto, EventsIdle
  <2>2. TypeOK'
    <3>1. DbTypeOK'
      BY <1>0, <2>1 DEF dbvars, handlevars, connvars, DbTypeOK
    <3> QED
      BY <1>0, <2>1, <3>1, MainTypes DEF MainStates
  <2>3. CountersOK' /\ NoRecordOK'
    BY <1>0, <2>1 DEF CountersOK, NoRecordOK, EventsIdle, ThreadsIdle, evvars, rowvars, dbvars, handlevars
  <2>4. CASE main' = "open"
    <3>1. PollOK'
      BY <1>0, <2>1, <2>4 DEF PollOK, PollStates, EventsIdle, ThreadsIdle, evvars, rowvars, dbvars, handlevars
    <3> QED
      BY <2>2, <2>3, <2>4, <3>1, PollStep DEF PollStates
  <2>5. CASE main' = "err"
    <3>1. IdleOK'
      BY <1>0, <2>1, <2>5 DEF PollOK, PollStates, IdleOK, EventsIdle, ThreadsIdle, evvars, rowvars, dbvars, handlevars
    <3> QED
      BY <2>2, <2>3, <3>1, IdleStep
  <2> QED
    BY <2>1, <2>4, <2>5
<1>2. CASE OpenPipes
  <2>1. /\ main = "open" /\ EventsIdle /\ UNCHANGED dbvars
        /\ UNCHANGED <<i, revents, nready, legacy, freed, aborted>>
        /\ main' \in {"opendb", "poll", "return"}
        /\ main' = "opendb" => RecordEvents
        /\ main' = "poll" => ~RecordEvents
    BY <1>2 DEF OpenPipes, EventsIdle
  <2>2. TypeOK'
    <3>1. masked' \in BOOLEAN
      BY <1>0, <1>2 DEF OpenPipes, TypeOK
    <3>2. DbTypeOK'
      BY <1>0, <2>1 DEF dbvars, handlevars, connvars, DbTypeOK
    <3> QED
      BY <1>0, <2>1, <3>1, <3>2 DEF TypeOK, MainStates, EventsIdle, ThreadsIdle, evvars, rowvars
  <2>3. CountersOK' /\ NoRecordOK'
    BY <1>0, <2>1 DEF CountersOK, NoRecordOK, EventsIdle, ThreadsIdle, evvars, rowvars, dbvars, handlevars
  <2>4. PollOK'
    BY <1>0, <2>1 DEF PollOK, PollStates, EventsIdle, ThreadsIdle, evvars, rowvars, dbvars, handlevars
  <2> QED
    BY <2>1, <2>2, <2>3, <2>4, PollStep DEF PollStates
<1>3. CASE PollOpenDb
  <2>0. db_ref_count = 0
    BY <1>0, <1>3 DEF PollOpenDb, PollOK, PollStates
  <2>1. /\ main = "opendb" /\ main' = "opening" /\ EventsIdle
        /\ UNCHANGED <<i, revents, nready, legacy, masked, freed, aborted>>
        /\ db_ref_count' = 1 /\ db_priv' = NULL
        /\ UNCHANGED <<leaked, dec_ref_count, dec_stmts>>
    BY <1>3, <2>0 DEF PollOpenDb, opendb_count, MainGoto, EventsIdle
  <2>2. TypeOK'
    <3>1. DbTypeOK'
      BY <1>0, <1>3, DatabaseTypes DEF PollOpenDb
    <3> QED
      BY <1>0, <2>1, <3>1, MainTypes DEF MainStates
  <2>3. CountersOK' /\ NoRecordOK'
    BY <1>0, <2>1 DEF CountersOK, NoRecordOK, EventsIdle, ThreadsIdle, evvars, rowvars
  <2>4. PollOK'
    BY <1>0, <2>1 DEF PollOK, PollStates, EventsIdle, ThreadsIdle, evvars, rowvars
  <2> QED
    BY <2>1, <2>2, <2>3, <2>4, PollStep DEF PollStates
<1>4. CASE PollOpening
  <2>1. /\ main = "opening" /\ EventsIdle
        /\ UNCHANGED <<i, revents, nready, legacy, masked, freed, aborted>>
        /\ UNCHANGED <<db_ref_count, dec_ref_count, dec_stmts>>
        /\ \/ main' = "tables" /\ db_priv' = opens + 1 /\ leaked' = leaked
           \/ main' = "return" /\ db_priv' = db_priv /\ leaked' = leaked + 1
    BY <1>4 DEF PollOpening, opendb_first, opendb_fail, MainGoto, EventsIdle
  <2>2. TypeOK'
    <3>1. DbTypeOK'
      BY <1>0, <1>4, DatabaseTypes DEF PollOpening
    <3> QED
      BY <1>0, <2>1, <3>1, MainTypes DEF MainStates
  <2>3. CountersOK' /\ NoRecordOK'
    BY <1>0, <2>1 DEF CountersOK, NoRecordOK, EventsIdle, ThreadsIdle, evvars, rowvars, DbTypeOK
  <2>4. PollOK'
    BY <1>0, <2>1 DEF PollOK, PollStates, EventsIdle, ThreadsIdle, evvars, rowvars, NULL, DbTypeOK
  <2> QED
    BY <2>1, <2>2, <2>3, <2>4, PollStep DEF PollStates
<1>5. CASE PollAddTables
  <2>1. /\ main = "tables" /\ main' = "poll" /\ EventsIdle
        /\ UNCHANGED <<i, revents, nready, legacy, masked, freed, aborted>>
        /\ UNCHANGED <<db_ref_count, db_priv, leaked>>
        /\ dec_ref_count' = IF NDecoders > 0 THEN dec_ref_count + 1 ELSE dec_ref_count
    BY <1>5 DEF PollAddTables, add_vendor_tables, MainGoto, EventsIdle
  <2>2. dec_stmts' \in SUBSET Decoders
    BY <1>0, <1>5 DEF PollAddTables, add_vendor_tables, DbTypeOK
  <2>3. TypeOK'
    <3>1. DbTypeOK'
      BY <1>0, <1>5, DatabaseTypes DEF PollAddTables
    <3> QED
      BY <1>0, <2>1, <3>1, MainTypes DEF MainStates
  <2>4. RecordEvents
    BY <1>0, <2>1 DEF NoRecordOK
  <2>5. CountersOK' /\ NoRecordOK'
    BY <1>0, <2>1, <2>4 DEF CountersOK, NoRecordOK, EventsIdle, ThreadsIdle, evvars, rowvars
  <2>6. PollOK'
    BY <1>0, <2>1, <2>4 DEF PollOK, PollStates, EventsIdle, ThreadsIdle, evvars, rowvars
  <2> QED
    BY <2>1, <2>3, <2>5, <2>6, PollStep DEF PollStates
<1> QED
  BY <1>1, <1>2, <1>3, <1>4, <1>5

(* The poll loop and the handlers it runs keep the invariant.              *)
LEMMA PollLoopIInv ==
    ASSUME IInv, Poll \/ ScanNotReady \/ ScanPage \/ ScanReadError \/ ScanEnd
    PROVE  IInv'
<1> USE RasAssumption, DecodersAssumption
<1>0. TypeOK /\ CountersOK /\ NoRecordOK /\ PollOK /\ DbTypeOK
  BY DEF IInv, TypeOK
<1>1. CASE Poll
  <2>1. /\ main = "poll" /\ ThreadsIdle /\ UNCHANGED <<legacy, masked, freed, aborted, evvars, dbvars>>
        /\ main' \in {"finalize", "return", "scan"}
        /\ main' = "finalize" => RecordEvents
        /\ main' = "return" => ~RecordEvents
        /\ main' = "scan" => i' = 0 /\ nready' = 0
        /\ main' # "scan" => i' = i /\ nready' = nready
    BY <1>1 DEF Poll
  <2>2. TypeOK'
    <3>1. revents' \in SUBSET CPUs
      BY <1>1 DEF Poll
    <3>2. signal' \in BOOLEAN
      BY <1>0, <1>1 DEF Poll, TypeOK
    <3>3. i' \in 0..NCPUS /\ nready' \in 0..NCPUS
      BY <1>0, <2>1 DEF TypeOK
    <3>4. DbTypeOK'
      BY <1>0, <2>1 DEF dbvars, handlevars, connvars, DbTypeOK
    <3> QED
      BY <1>0, <2>1, <3>1, <3>2, <3>3, <3>4 DEF TypeOK, MainStates, ThreadsIdle, evvars, rowvars
  <2>3. CountersOK' /\ NoRecordOK'
    BY <1>0, <2>1 DEF CountersOK, NoRecordOK, ThreadsIdle, evvars, rowvars, dbvars, handlevars
  <2>4. PollOK'
    BY <1>0, <2>1 DEF PollOK, NoRecordOK, PollStates, ThreadsIdle, dbvars, handlevars
  <2> QED
    BY <2>1, <2>2, <2>3, <2>4, PollStep DEF PollStates
<1>2. CASE ScanNotReady
  <2>1. /\ main = "scan" /\ ThreadsIdle /\ i < NCPUS
        /\ UNCHANGED <<main, revents, legacy, masked, freed, aborted, signal, evvars, dbvars>>
        /\ nready' = nready + 1 /\ i' = i + 1
    BY <1>2 DEF ScanNotReady
  <2>2. TypeOK'
    <3>1. i' \in 0..NCPUS /\ nready' \in 0..NCPUS
      BY <1>0, <2>1 DEF TypeOK, CountersOK
    <3>2. DbTypeOK'
      BY <1>0, <2>1 DEF dbvars, handlevars, connvars, DbTypeOK
    <3> QED
      BY <1>0, <2>1, <3>1, <3>2 DEF TypeOK, ThreadsIdle, evvars, rowvars
  <2>3. CountersOK' /\ NoRecordOK'
    BY <1>0, <2>1 DEF CountersOK, NoRecordOK, ThreadsIdle, evvars, rowvars, dbvars, handlevars, connvars, TypeOK
  <2>4. PollOK'
    BY <1>0, <2>1 DEF PollOK, PollStates, ThreadsIdle, dbvars, handlevars
  <2> QED
    BY <2>1, <2>2, <2>3, <2>4, PollStep DEF PollStates
<1>3. CASE ScanPage
  <2>1. /\ main = "scan" /\ ThreadsIdle /\ i < NCPUS
        /\ UNCHANGED <<main, revents, nready, legacy, masked, freed, aborted, signal, page, priv, handlevars>>
        /\ i' = i + 1
    BY <1>3 DEF ScanPage
  <2>2. i \in CPUs /\ nready <= i /\ nready \in 0..NCPUS
    BY <1>0, <2>1 DEF TypeOK, CountersOK, CPUs
  <2>s. PICK size \in 1..buffer[i] : \E good \in 0..size :
           /\ HandlePage(i, good)
           /\ buffer' = [buffer EXCEPT ![i] = @ - size]
           /\ discarded' = [discarded EXCEPT ![i] = @ + size - good]
    BY <1>3 DEF ScanPage
  <2>3. PICK good \in 0..size :
           /\ HandlePage(i, good)
           /\ buffer' = [buffer EXCEPT ![i] = @ - size]
           /\ discarded' = [discarded EXCEPT ![i] = @ + size - good]
    BY <2>s
  <2>4. /\ buffer' \in [CPUs -> Nat] /\ discarded' \in [CPUs -> Nat]
        /\ RowTypes' /\ flaws' \in Nat
    <3>1. good \in Nat /\ size \in Nat /\ db_priv \in Nat /\ buffer[i] \in Nat
      BY <1>0, <2>2 DEF TypeOK, DbTypeOK
    <3>2. buffer' \in [CPUs -> Nat] /\ discarded' \in [CPUs -> Nat]
      BY <1>0, <2>2, <2>3, <3>1 DEF TypeOK
    <3>3. RowTypes' /\ flaws' \in Nat
      BY <1>0, <2>2, <2>3, <3>1, StoreCounts DEF HandlePage
    <3> QED
      BY <3>2, <3>3
  <2>5. TypeOK'
    <3>1. i' \in 0..NCPUS
      BY <1>0, <2>1 DEF TypeOK
    <3>2. DbTypeOK'
      BY <1>0, <2>1, <2>4 DEF handlevars, connvars, DbTypeOK
    <3> QED
      BY <1>0, <2>1, <2>4, <3>1, <3>2 DEF TypeOK, ThreadsIdle, RowTypes
  <2>6. CountersOK'
    <3>1. nready' <= i'
      BY <2>1, <2>2 DEF CPUs
    <3> QED
      BY <1>0, <2>1, <3>1 DEF CountersOK, ThreadsIdle
  <2>7. NoRecordOK'
    BY <1>0, <2>1 DEF NoRecordOK, ThreadsIdle, handlevars
  <2>8. PollOK'
    BY <1>0, <2>1 DEF PollOK, PollStates, ThreadsIdle, handlevars
  <2> QED
    BY <2>1, <2>5, <2>6, <2>7, <2>8, PollStep DEF PollStates
<1>4. CASE ScanReadError
  <2>1. /\ main = "scan" /\ EventsIdle /\ UNCHANGED dbvars
        /\ UNCHANGED <<i, revents, nready, legacy, masked, freed, aborted>>
        /\ main' = IF RecordEvents THEN "finalize" ELSE "return"
    BY <1>4 DEF ScanReadError, MainGoto, EventsIdle
  <2>2. TypeOK'
    <3>1. DbTypeOK'
      BY <1>0, <2>1 DEF dbvars, handlevars, connvars, DbTypeOK
    <3> QED
      BY <1>0, <2>1, <3>1, MainTypes DEF MainStates
  <2>3. CountersOK' /\ NoRecordOK'
    BY <1>0, <2>1 DEF CountersOK, NoRecordOK, EventsIdle, ThreadsIdle, evvars, rowvars, dbvars, handlevars
  <2>4. PollOK'
    BY <1>0, <2>1 DEF PollOK, NoRecordOK, PollStates, EventsIdle, ThreadsIdle, dbvars, handlevars
  <2> QED
    BY <2>1, <2>2, <2>3, <2>4, PollStep DEF PollStates
<1>5. CASE ScanEnd
  <2>1. /\ main = "scan" /\ ThreadsIdle /\ UNCHANGED <<i, revents, nready, masked, freed, aborted,
                                                       signal, evvars, dbvars>>
        /\ \/ main' = "poll" /\ legacy' = legacy
           \/ main' = (IF RecordEvents THEN "finalize" ELSE "return") /\ legacy' = TRUE
    BY <1>5 DEF ScanEnd
  <2>2. TypeOK'
    <3>1. legacy' \in BOOLEAN
      BY <1>0, <2>1 DEF TypeOK
    <3>2. DbTypeOK'
      BY <1>0, <2>1 DEF dbvars, handlevars, connvars, DbTypeOK
    <3>3. main' \in MainStates
      BY <2>1 DEF MainStates
    <3> QED
      BY <1>0, <2>1, <3>1, <3>2, <3>3 DEF TypeOK, ThreadsIdle, evvars, rowvars
  <2>3. CountersOK' /\ NoRecordOK'
    BY <1>0, <2>1 DEF CountersOK, NoRecordOK, ThreadsIdle, evvars, rowvars, dbvars, handlevars
  <2>4. PollOK'
    BY <1>0, <2>1 DEF PollOK, NoRecordOK, PollStates, ThreadsIdle, dbvars, handlevars
  <2> QED
    BY <2>1, <2>2, <2>3, <2>4, PollStep DEF PollStates
<1> QED
  BY <1>1, <1>2, <1>3, <1>4, <1>5

(* Leaving poll mode keeps the invariant.                                  *)
LEMMA PollEndIInv ==
    ASSUME IInv, PollFinalize \/ PollCloseDb \/ PollClosing \/ PollReturn \/ MutexInit
    PROVE  IInv'
<1> USE RasAssumption, DecodersAssumption
<1>0. TypeOK /\ CountersOK /\ NoRecordOK /\ PollOK /\ DecoderOK /\ DbTypeOK
  BY DEF IInv, TypeOK
<1>1. CASE PollFinalize
  <2>1. /\ main = "finalize" /\ main' = "closedb" /\ EventsIdle
        /\ UNCHANGED <<i, revents, nready, legacy, masked, freed, aborted>>
        /\ UNCHANGED <<db_ref_count, db_priv, leaked>>
        /\ dec_ref_count' = (IF dec_ref_count > 0 THEN dec_ref_count - 1 ELSE dec_ref_count)
        /\ dec_stmts' = (IF dec_ref_count = 1 THEN {} ELSE dec_stmts)
    BY <1>1 DEF PollFinalize, finalize_vendor_tables, MainGoto, EventsIdle
  <2>2. RecordEvents /\ dec_ref_count \in {0, 1}
    BY <1>0, <2>1 DEF NoRecordOK, PollOK, PollStates
  <2>3. dec_ref_count' = 0 /\ dec_stmts' = {}
    BY <1>0, <2>1, <2>2 DEF DecoderOK
  <2>4. TypeOK'
    <3>1. DbTypeOK'
      BY <1>0, <1>1, DatabaseTypes DEF PollFinalize
    <3> QED
      BY <1>0, <2>1, <3>1, MainTypes DEF MainStates
  <2>5. CountersOK' /\ NoRecordOK'
    BY <1>0, <2>1, <2>2 DEF CountersOK, NoRecordOK, EventsIdle, ThreadsIdle, evvars, rowvars
  <2>6. PollOK'
    BY <1>0, <2>1, <2>2, <2>3 DEF PollOK, PollStates, EventsIdle, ThreadsIdle
  <2> QED
    BY <2>1, <2>4, <2>5, <2>6, PollStep DEF PollStates
<1>2. CASE PollCloseDb
  <2>0. db_ref_count = 1
    BY <1>0, <1>2 DEF PollCloseDb, PollOK, PollStates
  <2>1. /\ main = "closedb" /\ main' = "closing" /\ EventsIdle
        /\ UNCHANGED <<i, revents, nready, legacy, masked, freed, aborted>>
        /\ db_ref_count' = 0 /\ UNCHANGED <<db_priv, leaked, dec_ref_count, dec_stmts>>
    BY <1>2, <2>0 DEF PollCloseDb, closedb_count, MainGoto, EventsIdle
  <2>2. TypeOK'
    <3>1. DbTypeOK'
      BY <1>0, <1>2, DatabaseTypes DEF PollCloseDb
    <3> QED
      BY <1>0, <2>1, <3>1, MainTypes DEF MainStates
  <2>3. CountersOK' /\ NoRecordOK'
    BY <1>0, <2>1 DEF CountersOK, NoRecordOK, EventsIdle, ThreadsIdle, evvars, rowvars
  <2>4. PollOK'
    BY <1>0, <2>1 DEF PollOK, PollStates, EventsIdle, ThreadsIdle
  <2> QED
    BY <2>1, <2>2, <2>3, <2>4, PollStep DEF PollStates
<1>3. CASE PollClosing
  <2>1. /\ main = "closing" /\ main' = "return" /\ EventsIdle
        /\ UNCHANGED <<i, revents, nready, legacy, masked, freed, aborted>>
        /\ db_priv' = NULL /\ UNCHANGED <<db_ref_count, leaked, dec_ref_count, dec_stmts>>
    BY <1>3 DEF PollClosing, closedb_last, MainGoto, EventsIdle
  <2>2. TypeOK'
    <3>1. DbTypeOK'
      BY <1>0, <1>3, DatabaseTypes DEF PollClosing
    <3> QED
      BY <1>0, <2>1, <3>1, MainTypes DEF MainStates
  <2>3. CountersOK' /\ NoRecordOK'
    BY <1>0, <2>1 DEF CountersOK, NoRecordOK, EventsIdle, ThreadsIdle, evvars, rowvars
  <2>4. PollOK'
    BY <1>0, <2>1 DEF PollOK, PollStates, EventsIdle, ThreadsIdle
  <2> QED
    BY <2>1, <2>2, <2>3, <2>4, PollStep DEF PollStates
<1>4. CASE PollReturn
  <2>1. /\ main = "return" /\ EventsIdle /\ UNCHANGED dbvars
        /\ UNCHANGED <<i, revents, nready, legacy, freed, aborted>>
        /\ masked' = FALSE /\ main' = IF legacy THEN "mutex" ELSE "err"
    BY <1>4 DEF PollReturn, EventsIdle
  <2>2. TypeOK'
    <3>1. DbTypeOK'
      BY <1>0, <2>1 DEF dbvars, handlevars, connvars, DbTypeOK
    <3>2. masked' \in BOOLEAN
      BY <2>1
    <3> QED
      BY <1>0, <2>1, <3>1, <3>2 DEF TypeOK, MainStates, EventsIdle, ThreadsIdle, evvars, rowvars
  <2>3. CountersOK' /\ NoRecordOK'
    BY <1>0, <2>1 DEF CountersOK, NoRecordOK, EventsIdle, ThreadsIdle, evvars, rowvars, dbvars, handlevars
  <2>4. CASE legacy
    <3>1. PollOK' /\ main' = "mutex"
      BY <1>0, <2>1, <2>4 DEF PollOK, PollStates, EventsIdle, ThreadsIdle, dbvars, handlevars
    <3> QED
      BY <2>2, <2>3, <3>1, PollStep DEF PollStates
  <2>5. CASE ~legacy
    <3>1. IdleOK'
      BY <1>0, <2>1, <2>5 DEF PollOK, PollStates, IdleOK, EventsIdle, ThreadsIdle, dbvars, handlevars
    <3> QED
      BY <2>2, <2>3, <3>1, IdleStep
  <2> QED
    BY <2>4, <2>5
<1>5. CASE MutexInit
  <2>1. /\ main = "mutex" /\ EventsIdle /\ UNCHANGED dbvars
        /\ UNCHANGED <<revents, nready, legacy, masked, freed, aborted>>
        /\ i' = 0 /\ main' \in {"create", "err"}
    BY <1>5 DEF MutexInit, EventsIdle
  <2>2. TypeOK'
    <3>1. DbTypeOK'
      BY <1>0, <2>1 DEF dbvars, handlevars, connvars, DbTypeOK
    <3>2. i' \in 0..NCPUS
      BY <2>1
    <3> QED
      BY <1>0, <2>1, <3>1, <3>2 DEF TypeOK, MainStates, EventsIdle, ThreadsIdle, evvars, rowvars
  <2>3. CountersOK' /\ NoRecordOK'
    BY <1>0, <2>1 DEF CountersOK, NoRecordOK, PollOK, PollStates, EventsIdle, ThreadsIdle, evvars,
                      rowvars, dbvars, handlevars
  <2>4. IdleOK'
    BY <1>0, <2>1 DEF PollOK, PollStates, IdleOK, EventsIdle, ThreadsIdle, dbvars, handlevars
  <2> QED
    BY <2>2, <2>3, <2>4, IdleStep
<1> QED
  BY <1>1, <1>2, <1>3, <1>4, <1>5

-----------------------------------------------------------------------------
(* The steps of the main thread around the threads, and of the system.     *)

(* Creating the threads, waiting for them and ending keep the invariant.   *)
LEMMA ForkIInv ==
    ASSUME IInv, CreateThread \/ CreateThreadFails \/ Join \/ Free \/ Exit
    PROVE  IInv'
<1> USE RasAssumption, DecodersAssumption
<1>0. TypeOK /\ DbTypeOK /\ thr \in [CPUs -> ThreadStates] /\ i \in 0..NCPUS /\ db_ref_count \in Nat
  BY DEF IInv, TypeOK, DbTypeOK
<1>1. CASE CreateThread
  <2>1. /\ main = "create" /\ i < NCPUS /\ i' = i + 1
        /\ thr' = [thr EXCEPT ![i] = "open"]
        /\ main' = IF i + 1 = NCPUS THEN "join" ELSE "create"
        /\ UNCHANGED <<revents, nready, legacy, masked, freed, aborted, signal, kernel,
                       cancelled, db_lock, evvars, dbvars>>
    BY <1>1 DEF CreateThread
  <2>2. i \in CPUs /\ thr[i] = "none"
    BY <1>0, <2>1 DEF CPUs, IInv, CountersOK
  <2>3. \A S : "open" \notin S /\ "none" \notin S => At(S)' = At(S)
    BY <1>0, <2>1, <2>2 DEF At
  <2>4. /\ At(CountedStates)' = At(CountedStates) /\ At(DecodingStates)' = At(DecodingStates)
    BY <2>3 DEF CountedStates, UsingStates, DecodingStates
  <2>5. TypeOK'
    <3>1. "open" \in ThreadStates
      BY DEF ThreadStates
    <3>2. thr' \in [CPUs -> ThreadStates]
      BY <1>0, <2>1, <3>1
    <3>3. i' \in 0..NCPUS
      BY <1>0, <2>1
    <3>4. DbTypeOK'
      BY <1>0, <2>1 DEF dbvars, handlevars, connvars, DbTypeOK
    <3> QED
      BY <1>0, <2>1, <3>2, <3>3, <3>4 DEF TypeOK, MainStates, evvars, rowvars
  <2>6. CountersOK'
    BY <1>0, <2>1, <2>2 DEF IInv, CountersOK, CPUs, evvars, rowvars
  <2>7. NoRecordOK'
    BY <1>0, <2>1, <2>2 DEF IInv, NoRecordOK, evvars, rowvars, dbvars, handlevars
  <2>8. PollOK' /\ EndOK' /\ FreedWhenQuiet' /\ StatementsOK'
    BY <2>1 DEF IInv, PollOK, PollStates, EndOK, FreedWhenQuiet, StatementsOK, dbvars, handlevars
  <2>9. LockOK' /\ NoStaleHandle'
    BY <1>0, <2>1, <2>2 DEF IInv, LockOK, NoStaleHandle, LockedStates, evvars, rowvars, dbvars, handlevars
  <2>10. CountOK'
    BY <1>0, <2>1, <2>2, <2>4 DEF IInv, CountOK, ForkStates, CountedStates, UsingStates,
                                  DecodingStates, dbvars, handlevars
  <2>11. RecordOK'
    BY <1>0, <2>1, <2>2 DEF IInv, RecordOK, ForkStates, UsingStates, DecodingStates, evvars,
                            rowvars, dbvars, handlevars, connvars, TypeOK
  <2>12. DecoderOK'
    BY <1>0, <2>1, <2>2, <2>4 DEF IInv, DecoderOK, ForkStates, dbvars, handlevars
  <2>13. ExactOK'
    BY <1>0, <2>1, <2>2, <2>4 DEF IInv, ExactOK, ForkStates, dbvars, handlevars
  <2> QED
    BY <2>5, <2>6, <2>7, <2>8, <2>9, <2>10, <2>11, <2>12, <2>13 DEF IInv
<1>2. CASE CreateThreadFails
  <2>1. /\ main = "create" /\ i < NCPUS /\ aborted' = TRUE
        /\ \/ main' = "crashed" /\ cancelled' = cancelled
           \/ main' = "err" /\ i # 0 /\ cancelled' = 1..(i - 1)
        /\ UNCHANGED <<i, revents, nready, legacy, masked, freed, signal, kernel, thr, db_lock, evvars, dbvars>>
    BY <1>2 DEF CreateThreadFails
  <2>2. At(CountedStates)' = At(CountedStates) /\ At(DecodingStates)' = At(DecodingStates)
    BY <2>1 DEF At
  <2>3. TypeOK'
    <3>1. cancelled' \in SUBSET CPUs
      <4>1. 1..(i - 1) \subseteq CPUs
        BY <1>0, <2>1 DEF CPUs
      <4>2. cancelled \subseteq CPUs
        BY <1>0 DEF TypeOK
      <4> QED
        BY <2>1, <4>1, <4>2
    <3>2. DbTypeOK'
      BY <1>0, <2>1 DEF dbvars, handlevars, connvars, DbTypeOK
    <3>3. aborted' \in BOOLEAN
      BY <2>1
    <3> QED
      BY <1>0, <2>1, <3>1, <3>2, <3>3 DEF TypeOK, MainStates, evvars, rowvars
  <2>4. CountersOK' /\ NoRecordOK'
    BY <2>1 DEF IInv, CountersOK, NoRecordOK, evvars, rowvars, dbvars, handlevars
  <2>5. PollOK' /\ EndOK' /\ FreedWhenQuiet' /\ StatementsOK' /\ ExactOK'
    BY <2>1 DEF IInv, PollOK, PollStates, EndOK, FreedWhenQuiet, StatementsOK, ExactOK, dbvars, handlevars
  <2>6. LockOK' /\ NoStaleHandle'
    BY <2>1 DEF IInv, LockOK, NoStaleHandle, evvars, rowvars, dbvars, handlevars
  <2>7. CountOK' /\ RecordOK' /\ DecoderOK'
    BY <2>1, <2>2 DEF IInv, CountOK, RecordOK, DecoderOK, ForkStates, evvars, rowvars, dbvars, handlevars
  <2> QED
    BY <2>3, <2>4, <2>5, <2>6, <2>7 DEF IInv
<1>3. CASE Join
  <2>1. /\ main = "join" /\ main' = "err" /\ EventsIdle /\ UNCHANGED dbvars
        /\ UNCHANGED <<i, revents, nready, legacy, masked, freed, aborted>>
        /\ \A c \in CPUs : thr[c] = "done"
    BY <1>3 DEF Join, MainGoto, EventsIdle
  <2>2. At(CountedStates)' = At(CountedStates) /\ At(DecodingStates)' = At(DecodingStates)
    BY <2>1 DEF At, EventsIdle, ThreadsIdle
  <2>3. TypeOK'
    <3>1. DbTypeOK'
      BY <1>0, <2>1 DEF dbvars, handlevars, connvars, DbTypeOK
    <3> QED
      BY <1>0, <2>1, <3>1, MainTypes DEF MainStates
  <2>4. CountersOK' /\ NoRecordOK'
    BY <2>1 DEF IInv, CountersOK, NoRecordOK, EventsIdle, ThreadsIdle, evvars, rowvars, dbvars, handlevars
  <2>5. ~aborted /\ cancelled = {}
    BY <2>1 DEF IInv, EndOK, ExactOK
  <2>6. db_priv = NULL
    <3>1. Cardinality(At(CountedStates)) = 0
      <4>1. At(CountedStates) = {}
        BY <2>1 DEF At, CountedStates, UsingStates, DecodingStates
      <4> QED
        BY <4>1, AtFinite
    <3>2. CASE RecordEvents
      BY <2>1, <2>5, <3>1, <3>2 DEF IInv, ExactOK, ForkStates
    <3>3. CASE ~RecordEvents
      BY <3>3 DEF IInv, NoRecordOK
    <3> QED
      BY <3>2, <3>3
  <2>7. dec_stmts = {}
    BY <2>6 DEF IInv, StatementsOK
  <2>8. PollOK' /\ EndOK' /\ FreedWhenQuiet' /\ StatementsOK'
    BY <2>1, <2>5, <2>6, <2>7 DEF IInv, PollOK, PollStates, EndOK, FreedWhenQuiet, StatementsOK,
       EventsIdle, ThreadsIdle, dbvars, handlevars
  <2>9. LockOK' /\ NoStaleHandle'
    BY <2>1 DEF IInv, LockOK, NoStaleHandle, EventsIdle, ThreadsIdle, evvars, rowvars, dbvars, handlevars
  <2>10. CountOK' /\ RecordOK' /\ DecoderOK' /\ ExactOK'
    BY <2>1, <2>2 DEF IInv, CountOK, RecordOK, DecoderOK, ExactOK, ForkStates, EventsIdle,
                      ThreadsIdle, evvars, rowvars, dbvars, handlevars
  <2> QED
    BY <2>3, <2>4, <2>8, <2>9, <2>10 DEF IInv
<1>4. CASE Free
  <2>1. /\ main = "err" /\ main' = "exit" /\ EventsIdle /\ UNCHANGED dbvars
        /\ UNCHANGED <<i, revents, nready, legacy, masked, aborted>> /\ freed' = TRUE
    BY <1>4 DEF Free, EventsIdle
  <2>2. At(CountedStates)' = At(CountedStates) /\ At(DecodingStates)' = At(DecodingStates)
    BY <2>1 DEF At, EventsIdle, ThreadsIdle
  <2>3. TypeOK'
    <3>1. DbTypeOK'
      BY <1>0, <2>1 DEF dbvars, handlevars, connvars, DbTypeOK
    <3>2. freed' \in BOOLEAN
      BY <2>1
    <3> QED
      BY <1>0, <2>1, <3>1, <3>2 DEF TypeOK, MainStates, EventsIdle, ThreadsIdle, evvars, rowvars
  <2>4. CountersOK' /\ NoRecordOK'
    BY <2>1 DEF IInv, CountersOK, NoRecordOK, EventsIdle, ThreadsIdle, evvars, rowvars, dbvars, handlevars
  <2>5. PollOK' /\ EndOK' /\ FreedWhenQuiet' /\ StatementsOK'
    BY <2>1 DEF IInv, PollOK, PollStates, EndOK, FreedWhenQuiet, StatementsOK, EventsIdle,
                ThreadsIdle, dbvars, handlevars
  <2>6. LockOK' /\ NoStaleHandle'
    BY <2>1 DEF IInv, LockOK, NoStaleHandle, EventsIdle, ThreadsIdle, evvars, rowvars, dbvars, handlevars
  <2>7. CountOK' /\ RecordOK' /\ DecoderOK' /\ ExactOK'
    BY <2>1, <2>2 DEF IInv, CountOK, RecordOK, DecoderOK, ExactOK, ForkStates, EventsIdle,
                      ThreadsIdle, evvars, rowvars, dbvars, handlevars
  <2> QED
    BY <2>3, <2>4, <2>5, <2>6, <2>7 DEF IInv
<1>5. CASE Exit
  <2>1. /\ main = "exit" /\ main' = "exited" /\ EventsIdle /\ UNCHANGED dbvars
        /\ UNCHANGED <<i, revents, nready, legacy, masked, freed, aborted>>
    BY <1>5 DEF Exit, MainGoto, EventsIdle
  <2>2. TypeOK'
    <3>1. DbTypeOK'
      BY <1>0, <2>1 DEF dbvars, handlevars, connvars, DbTypeOK
    <3> QED
      BY <1>0, <2>1, <3>1, MainTypes DEF MainStates
  <2>3. CountersOK' /\ NoRecordOK'
    BY <2>1 DEF IInv, CountersOK, NoRecordOK, EventsIdle, ThreadsIdle, evvars, rowvars, dbvars, handlevars
  <2>4. PollOK' /\ EndOK' /\ FreedWhenQuiet' /\ StatementsOK'
    BY <2>1 DEF IInv, PollOK, PollStates, EndOK, FreedWhenQuiet, StatementsOK, EventsIdle,
                ThreadsIdle, dbvars, handlevars
  <2>5. LockOK' /\ NoStaleHandle'
    BY <2>1 DEF IInv, LockOK, NoStaleHandle, EventsIdle, ThreadsIdle, evvars, rowvars, dbvars, handlevars
  <2>6. CountOK' /\ RecordOK' /\ DecoderOK' /\ ExactOK'
    BY <2>1 DEF IInv, CountOK, RecordOK, DecoderOK, ExactOK, ForkStates, EventsIdle, ThreadsIdle,
                evvars, rowvars, dbvars, handlevars
  <2> QED
    BY <2>2, <2>3, <2>4, <2>5, <2>6 DEF IInv
<1> QED
  BY <1>1, <1>2, <1>3, <1>4, <1>5

(* Events, signals and the end of the process keep the invariant.          *)
LEMMA SystemIInv ==
    ASSUME IInv, (\E c \in CPUs : KernelEvent(c)) \/ SendSignal \/ Kill \/ UNCHANGED vars
    PROVE  IInv'
<1>0. TypeOK /\ DbTypeOK
  BY DEF IInv, TypeOK
<1>1. CASE Kill
  <2>1. /\ main' = "killed" /\ EventsIdle /\ UNCHANGED dbvars
        /\ UNCHANGED <<i, revents, nready, legacy, masked, freed, aborted>>
    BY <1>1 DEF Kill, MainGoto, EventsIdle
  <2>2. TypeOK'
    <3>1. DbTypeOK'
      BY <1>0, <2>1 DEF dbvars, handlevars, connvars, DbTypeOK
    <3> QED
      BY <1>0, <2>1, <3>1, MainTypes DEF MainStates
  <2>3. CountersOK' /\ NoRecordOK'
    BY <2>1 DEF IInv, CountersOK, NoRecordOK, EventsIdle, ThreadsIdle, evvars, rowvars, dbvars, handlevars
  <2>4. PollOK' /\ EndOK' /\ FreedWhenQuiet' /\ StatementsOK'
    BY <2>1 DEF IInv, PollOK, PollStates, EndOK, FreedWhenQuiet, StatementsOK, EventsIdle,
                ThreadsIdle, dbvars, handlevars
  <2>5. LockOK' /\ NoStaleHandle'
    BY <2>1 DEF IInv, LockOK, NoStaleHandle, EventsIdle, ThreadsIdle, evvars, rowvars, dbvars, handlevars
  <2>6. CountOK' /\ RecordOK' /\ DecoderOK' /\ ExactOK'
    BY <2>1 DEF IInv, CountOK, RecordOK, DecoderOK, ExactOK, ForkStates, EventsIdle, ThreadsIdle,
                evvars, rowvars, dbvars, handlevars
  <2> QED
    BY <2>2, <2>3, <2>4, <2>5, <2>6 DEF IInv
<1>2. ASSUME UNCHANGED <<kernel, mainvars, thr, cancelled, db_lock, page, priv, discarded, rowvars, dbvars>>,
             signal' \in BOOLEAN, buffer' \in [CPUs -> Nat]
      PROVE  IInv'
  <2>1. At(CountedStates)' = At(CountedStates) /\ At(DecodingStates)' = At(DecodingStates)
    BY <1>2 DEF At
  <2>2. TypeOK'
    <3>1. DbTypeOK'
      BY <1>0, <1>2 DEF dbvars, handlevars, connvars, DbTypeOK
    <3> QED
      BY <1>0, <1>2, <3>1 DEF TypeOK, mainvars, rowvars
  <2>3. CountersOK' /\ NoRecordOK'
    BY <1>2 DEF IInv, CountersOK, NoRecordOK, mainvars, dbvars, handlevars
  <2>4. PollOK' /\ EndOK' /\ FreedWhenQuiet' /\ StatementsOK'
    BY <1>2 DEF IInv, PollOK, EndOK, FreedWhenQuiet, StatementsOK, mainvars, dbvars, handlevars
  <2>5. LockOK' /\ NoStaleHandle'
    BY <1>2 DEF IInv, LockOK, NoStaleHandle, mainvars, dbvars, handlevars
  <2>6. CountOK' /\ RecordOK' /\ DecoderOK' /\ ExactOK'
    BY <1>2, <2>1 DEF IInv, CountOK, RecordOK, DecoderOK, ExactOK, mainvars, dbvars, handlevars
  <2> QED
    BY <2>2, <2>3, <2>4, <2>5, <2>6 DEF IInv
<1>3. ASSUME NEW c \in CPUs, KernelEvent(c) PROVE IInv'
  <2>1. buffer' \in [CPUs -> Nat]
    BY <1>0, <1>3 DEF KernelEvent, TypeOK
  <2>2. signal' \in BOOLEAN
    BY <1>0, <1>3 DEF KernelEvent, MainIdle, TypeOK
  <2>3. UNCHANGED <<kernel, mainvars, thr, cancelled, db_lock, page, priv, discarded, rowvars, dbvars>>
    BY <1>3 DEF KernelEvent, MainIdle, ThreadsIdle
  <2> QED
    BY <1>2, <2>1, <2>2, <2>3
<1>4. CASE SendSignal
  <2>1. signal' \in BOOLEAN
    BY <1>4 DEF SendSignal
  <2>2. /\ buffer' \in [CPUs -> Nat]
        /\ UNCHANGED <<kernel, mainvars, thr, cancelled, db_lock, page, priv, discarded, rowvars, dbvars>>
    BY <1>0, <1>4 DEF SendSignal, ThreadsIdle, evvars, rowvars, TypeOK
  <2> QED
    BY <1>2, <2>1, <2>2
<1>5. CASE UNCHANGED vars
  <2>1. signal' \in BOOLEAN
    BY <1>0, <1>5 DEF vars, TypeOK
  <2>2. /\ buffer' \in [CPUs -> Nat]
        /\ UNCHANGED <<kernel, mainvars, thr, cancelled, db_lock, page, priv, discarded, rowvars, dbvars>>
    BY <1>0, <1>5 DEF vars, evvars, rowvars, TypeOK
  <2> QED
    BY <1>2, <2>1, <2>2
<1> QED
  BY <1>1, <1>3, <1>4, <1>5

-----------------------------------------------------------------------------
(* The steps of a thread.                                                  *)

\* Thread c moves to the state s.
Moves(c, s) == MainIdle /\ thr' = [thr EXCEPT ![c] = s] /\ UNCHANGED cancelled

(* A move of a thread that runs, or that was cancelled, happens while the  *)
(* main thread starts or waits for threads, or after a failure; what is    *)
(* said about the main thread alone holds on.                              *)
LEMMA MoveMain ==
    ASSUME IInv, ~Terminated, NEW c \in CPUs, NEW s \in ThreadStates, Moves(c, s),
           thr[c] \notin {"none", "done"} \/ aborted
    PROVE  /\ main \in ForkStates /\ PollOK' /\ FreedWhenQuiet'
           /\ main \in {"err", "exit", "exited"} => aborted
           /\ main = "create" => thr[c] # "none"
           /\ EndOK' /\ thr' \in [CPUs -> ThreadStates]
<1>0. thr \in [CPUs -> ThreadStates] /\ main \in MainStates
  BY DEF IInv, TypeOK
<1>1. main \notin PollStates
  BY DEF IInv, PollOK
<1>2. main \in ForkStates
  BY <1>0, <1>1 DEF Terminated, MainStates, PollStates, ForkStates
<1>3. main \in {"err", "exit", "exited"} => aborted
  BY DEF IInv, EndOK
<1>4. main = "create" => thr[c] # "none"
  BY DEF IInv, EndOK
<1>5. thr' \in [CPUs -> ThreadStates]
  BY <1>0 DEF Moves
<1>6. PollOK'
  BY <1>1 DEF Moves, MainIdle, mainvars, PollOK
<1>7. EndOK'
  BY <1>3 DEF Moves, MainIdle, mainvars, IInv, EndOK
<1>8. FreedWhenQuiet'
  BY <1>2, <1>3 DEF Moves, MainIdle, mainvars, IInv, EndOK, FreedWhenQuiet, ForkStates
<1> QED
  BY <1>2, <1>3, <1>4, <1>5, <1>6, <1>7, <1>8

(* The loop counter of the main thread is not about the threads that run.  *)
LEMMA MoveCounters ==
    ASSUME IInv, ~Terminated, NEW c \in CPUs, NEW s \in ThreadStates, Moves(c, s),
           thr[c] \notin {"none", "done"} \/ aborted,
           \A d \in CPUs : d # c => page'[d] = page[d],
           s \in {"handle", "store"} => page'[c] > 0
    PROVE  CountersOK'
<1>0. thr \in [CPUs -> ThreadStates] /\ main \in ForkStates
  BY MoveMain DEF IInv, TypeOK
<1>1. main = "create" => thr[c] # "none"
  BY MoveMain
<1>2. UNCHANGED <<main, i, nready>>
  BY DEF Moves, MainIdle, mainvars
<1> QED
  BY <1>0, <1>1, <1>2 DEF IInv, CountersOK, ForkStates, Moves

(* A thread's move keeps the types if what it writes has its type.         *)
LEMMA MoveTypes ==
    ASSUME TypeOK, NEW c \in CPUs, NEW s \in ThreadStates, Moves(c, s),
           db_lock' \in CPUs \cup {NoOwner}, DbTypeOK',
           buffer' \in [CPUs -> Nat], page' \in [CPUs -> Nat], priv' \in [CPUs -> Nat],
           discarded' \in [CPUs -> Nat], RowTypes'
    PROVE  TypeOK'
<1>1. thr' \in [CPUs -> ThreadStates]
  BY DEF Moves, TypeOK
<1> QED
  BY <1>1 DEF Moves, MainIdle, mainvars, TypeOK, RowTypes

(* A move that leaves the database alone, inside or outside the counted    *)
(* states, keeps the counts right.                                         *)
LEMMA MoveCounts ==
    ASSUME IInv, ~Terminated, NEW c \in CPUs, NEW s \in ThreadStates, Moves(c, s),
           thr[c] \notin {"none", "done"}, UNCHANGED handlevars,
           RecordEvents => /\ s \in CountedStates <=> thr[c] \in CountedStates
                           /\ s \in DecodingStates <=> thr[c] \in DecodingStates,
           thr[c] \notin {"opening", "closing"}, s \notin {"opening", "tables", "closedb", "closing"}
    PROVE  CountOK' /\ DecoderOK' /\ ExactOK'
<1>0. thr \in [CPUs -> ThreadStates] /\ main \in ForkStates
  BY MoveMain DEF IInv, TypeOK
<1>1. /\ UNCHANGED <<main, aborted, cancelled>> /\ thr' = [thr EXCEPT ![c] = s]
      /\ UNCHANGED <<db_ref_count, db_priv, dec_ref_count, dec_stmts>>
  BY DEF Moves, MainIdle, mainvars, handlevars
<1>2. CASE RecordEvents
  <2>1. At(CountedStates)' = At(CountedStates) /\ At(DecodingStates)' = At(DecodingStates)
    BY <1>0, <1>1, <1>2 DEF At
  <2>2. \A d \in CPUs : thr'[d] \in CountedStates <=> thr[d] \in CountedStates
    BY <1>0, <1>1, <1>2
  <2>3. CountOK'
    BY <1>0, <1>1, <2>1, <2>2 DEF IInv, CountOK
  <2>4. DecoderOK'
    BY <1>0, <1>1, <2>1 DEF IInv, DecoderOK
  <2>5. ExactOK'
    BY <1>0, <1>1, <2>1 DEF IInv, ExactOK
  <2> QED
    BY <2>3, <2>4, <2>5
<1>3. CASE ~RecordEvents
  BY <1>1, <1>3 DEF IInv, CountOK, DecoderOK, ExactOK
<1> QED
  BY <1>2, <1>3

(* Opening the pipe, reading and handling events, and taking the lock keep *)
(* the invariant.                                                          *)
LEMMA ListenIInv ==
    ASSUME IInv, ~Terminated, NEW c \in CPUs,
           \/ ThreadOpenPipe(c) \/ ThreadLockOpen(c) \/ ThreadRead(c) \/ ThreadReadError(c)
           \/ ThreadHandle(c) \/ ThreadStore(c) \/ ThreadLockClose(c)
    PROVE  IInv'
<1> USE RasAssumption
<1>0. /\ TypeOK /\ DbTypeOK /\ thr \in [CPUs -> ThreadStates] /\ StatementsOK
      /\ buffer \in [CPUs -> Nat] /\ page \in [CPUs -> Nat] /\ priv \in [CPUs -> Nat]
      /\ discarded \in [CPUs -> Nat] /\ RowTypes
      /\ db_lock \in CPUs \cup {NoOwner} /\ db_priv \in Nat
  BY DEF IInv, TypeOK, DbTypeOK, RowTypes
<1>1. UNCHANGED handlevars /\ UNCHANGED <<main, aborted>> /\ UNCHANGED discarded
  BY DEF ThreadOpenPipe, ThreadLockOpen, ThreadRead, ThreadReadError, ThreadHandle, ThreadStore,
         ThreadLockClose, MainIdle, mainvars, evvars, rowvars, dbvars
<1>2. /\ StatementsOK'
      /\ flaws' \in Nat => DbTypeOK'
      /\ UNCHANGED rowvars => RowTypes'
  BY <1>0, <1>1 DEF handlevars, connvars, DbTypeOK, StatementsOK, rowvars, RowTypes
<1>3. CASE ThreadOpenPipe(c)
  <2>0. RowTypes' /\ DbTypeOK'
    BY <1>0, <1>2, <1>3 DEF ThreadOpenPipe, evvars, dbvars, DbTypeOK
  <2>1. PICK s \in {IF RecordEvents THEN "lock1" ELSE "loop", "done"} : ThreadGoto(c, s)
    BY <1>3 DEF ThreadOpenPipe
  <2>2. /\ thr[c] = "open" /\ s \in {"lock1", "loop", "done"} /\ Moves(c, s)
        /\ UNCHANGED <<db_lock, evvars>>
        /\ RecordEvents => s # "loop"
        /\ ~RecordEvents => s # "lock1"
    BY <1>3, <2>1 DEF ThreadOpenPipe, ThreadGoto, Moves
  <2>3. s \in ThreadStates /\ thr' = [thr EXCEPT ![c] = s]
    BY <2>2 DEF ThreadStates, Moves
  <2>4. TypeOK'
    BY <1>0, <2>0, <2>2, <2>3, MoveTypes DEF evvars
  <2>5. CountersOK'
    BY <2>2, <2>3, MoveCounters DEF evvars, rowvars
  <2>6. PollOK' /\ EndOK' /\ FreedWhenQuiet' /\ main \in ForkStates
    BY <2>2, <2>3, MoveMain
  <2>7. CountOK' /\ DecoderOK' /\ ExactOK'
    BY <1>1, <2>2, <2>3, MoveCounts DEF CountedStates, UsingStates, DecodingStates
  <2>8. LockOK' /\ NoStaleHandle'
    BY <1>0, <1>1, <2>2, <2>3 DEF IInv, LockOK, LockedStates, NoStaleHandle, handlevars, evvars, rowvars
  <2>9. NoRecordOK'
    BY <1>0, <1>1, <2>2, <2>3 DEF IInv, NoRecordOK, handlevars, evvars, rowvars
  <2>10. RecordOK'
    BY <1>0, <1>1, <2>2, <2>3 DEF IInv, RecordOK, UsingStates, DecodingStates, handlevars, evvars, rowvars
  <2> QED
    BY <1>2, <2>4, <2>5, <2>6, <2>7, <2>8, <2>9, <2>10 DEF IInv
<1>4. CASE ThreadLockOpen(c)
  <2>0. RowTypes' /\ DbTypeOK'
    BY <1>0, <1>2, <1>4 DEF ThreadLockOpen, evvars, dbvars, DbTypeOK
  <2>1. /\ thr[c] = "lock1" /\ Moves(c, "opendb") /\ db_lock = NoOwner /\ db_lock' = c
        /\ UNCHANGED evvars
    BY <1>4 DEF ThreadLockOpen, ThreadGoto, Moves, Lock
  <2>2. "opendb" \in ThreadStates /\ thr' = [thr EXCEPT ![c] = "opendb"] /\ RecordEvents
    BY <2>1 DEF ThreadStates, Moves, IInv, NoRecordOK
  <2>3. TypeOK'
    BY <1>0, <2>0, <2>1, <2>2, MoveTypes DEF evvars
  <2>4. CountersOK'
    BY <2>1, <2>2, MoveCounters DEF evvars, rowvars
  <2>5. PollOK' /\ EndOK' /\ FreedWhenQuiet' /\ main \in ForkStates
    BY <2>1, <2>2, MoveMain
  <2>6. CountOK' /\ DecoderOK' /\ ExactOK'
    BY <1>1, <2>1, <2>2, MoveCounts DEF CountedStates, UsingStates, DecodingStates
  <2>7. NoRecordOK' /\ NoStaleHandle'
    BY <1>0, <1>1, <2>1, <2>2 DEF IInv, NoRecordOK, NoStaleHandle, handlevars, evvars, rowvars
  <2>8. LockOK'
    <3>1. \A d \in CPUs : d # NoOwner
      BY DEF CPUs, NoOwner
    <3> QED
      BY <1>0, <2>1, <2>2, <3>1 DEF IInv, LockOK
  <2>9. RecordOK'
    BY <1>0, <1>1, <2>1, <2>2 DEF IInv, RecordOK, UsingStates, DecodingStates, handlevars, evvars, rowvars
  <2> QED
    BY <1>2, <2>3, <2>4, <2>5, <2>6, <2>7, <2>8, <2>9 DEF IInv
<1>5. CASE ThreadLockClose(c)
  <2>0. RowTypes' /\ DbTypeOK'
    BY <1>0, <1>2, <1>5 DEF ThreadLockClose, evvars, dbvars, DbTypeOK
  <2>1. /\ thr[c] = "lock2" /\ Moves(c, "finalize") /\ db_lock = NoOwner /\ db_lock' = c
        /\ UNCHANGED evvars
    BY <1>5 DEF ThreadLockClose, ThreadGoto, Moves, Lock
  <2>2. "finalize" \in ThreadStates /\ thr' = [thr EXCEPT ![c] = "finalize"] /\ RecordEvents
    BY <2>1 DEF ThreadStates, Moves, IInv, NoRecordOK
  <2>3. TypeOK'
    BY <1>0, <2>0, <2>1, <2>2, MoveTypes DEF evvars
  <2>4. CountersOK'
    BY <2>1, <2>2, MoveCounters DEF evvars, rowvars
  <2>5. PollOK' /\ EndOK' /\ FreedWhenQuiet' /\ main \in ForkStates
    BY <2>1, <2>2, MoveMain
  <2>6. CountOK' /\ DecoderOK' /\ ExactOK'
    BY <1>1, <2>1, <2>2, MoveCounts DEF CountedStates, UsingStates, DecodingStates
  <2>7. NoRecordOK' /\ NoStaleHandle'
    BY <1>0, <1>1, <2>1, <2>2 DEF IInv, NoRecordOK, NoStaleHandle, handlevars, evvars, rowvars
  <2>8. LockOK'
    <3>1. \A d \in CPUs : d # NoOwner
      BY DEF CPUs, NoOwner
    <3> QED
      BY <1>0, <2>1, <2>2, <3>1 DEF IInv, LockOK
  <2>9. RecordOK'
    BY <1>0, <1>1, <2>1, <2>2 DEF IInv, RecordOK, UsingStates, DecodingStates, handlevars, evvars, rowvars
  <2> QED
    BY <1>2, <2>3, <2>4, <2>5, <2>6, <2>7, <2>8, <2>9 DEF IInv
<1>6. CASE ThreadRead(c)
  <2>0. RowTypes' /\ DbTypeOK'
    BY <1>0, <1>2, <1>6 DEF ThreadRead, evvars, dbvars, DbTypeOK
  <2>1. /\ thr[c] = "loop" /\ Moves(c, "handle")
        /\ UNCHANGED <<db_lock, priv, discarded, rowvars>>
    BY <1>6 DEF ThreadRead, ThreadGoto, Moves
  <2>2. "handle" \in ThreadStates /\ thr' = [thr EXCEPT ![c] = "handle"]
    BY <2>1 DEF ThreadStates, Moves
  <2>3. PICK size \in 1..buffer[c] :
           /\ buffer' = [buffer EXCEPT ![c] = @ - size]
           /\ page' = [page EXCEPT ![c] = size]
    BY <1>6 DEF ThreadRead
  <2>4. buffer' \in [CPUs -> Nat] /\ page' \in [CPUs -> Nat] /\ page'[c] > 0
    BY <1>0, <2>3
  <2>5. TypeOK'
    BY <1>0, <2>0, <2>1, <2>2, <2>4, MoveTypes
  <2>6. CountersOK'
    <3>1. \A d \in CPUs : d # c => page'[d] = page[d]
      BY <1>0, <2>3
    <3> QED
      BY <2>1, <2>2, <2>4, <3>1, MoveCounters
  <2>7. PollOK' /\ EndOK' /\ FreedWhenQuiet' /\ main \in ForkStates
    BY <2>1, <2>2, MoveMain
  <2>8. CountOK' /\ DecoderOK' /\ ExactOK'
    BY <1>1, <2>1, <2>2, MoveCounts DEF CountedStates, UsingStates, DecodingStates
  <2>9. NoRecordOK' /\ NoStaleHandle' /\ LockOK'
    BY <1>0, <1>1, <2>1, <2>2 DEF IInv, NoRecordOK, LockOK, LockedStates, NoStaleHandle, handlevars
  <2>10. RecordOK'
    BY <1>0, <1>1, <2>1, <2>2 DEF IInv, RecordOK, UsingStates, DecodingStates, handlevars
  <2> QED
    BY <1>2, <2>5, <2>6, <2>7, <2>8, <2>9, <2>10 DEF IInv
<1>7. CASE ThreadReadError(c)
  <2>0. RowTypes' /\ DbTypeOK'
    BY <1>0, <1>2, <1>7 DEF ThreadReadError, evvars, dbvars, DbTypeOK
  <2> DEFINE s == IF RecordEvents THEN "lock2" ELSE "done"
  <2>1. thr[c] = "loop" /\ Moves(c, s) /\ UNCHANGED <<db_lock, evvars>>
    BY <1>7 DEF ThreadReadError, ThreadGoto, Moves
  <2>2. s \in ThreadStates /\ thr' = [thr EXCEPT ![c] = s]
    BY <2>1 DEF ThreadStates, Moves
  <2>3. TypeOK'
    BY <1>0, <2>0, <2>1, <2>2, MoveTypes DEF evvars
  <2>4. CountersOK'
    BY <2>1, <2>2, MoveCounters DEF evvars, rowvars
  <2>5. PollOK' /\ EndOK' /\ FreedWhenQuiet' /\ main \in ForkStates
    BY <2>1, <2>2, MoveMain
  <2>6. CountOK' /\ DecoderOK' /\ ExactOK'
    BY <1>1, <2>1, <2>2, MoveCounts DEF CountedStates, UsingStates, DecodingStates
  <2>7. NoRecordOK' /\ NoStaleHandle' /\ LockOK'
    BY <1>0, <1>1, <2>1, <2>2 DEF IInv, NoRecordOK, LockOK, LockedStates, NoStaleHandle, handlevars, evvars, rowvars
  <2>8. RecordOK'
    BY <1>0, <1>1, <2>1, <2>2 DEF IInv, RecordOK, UsingStates, DecodingStates, handlevars, evvars, rowvars
  <2> QED
    BY <1>2, <2>3, <2>4, <2>5, <2>6, <2>7, <2>8 DEF IInv
<1>8. CASE ThreadHandle(c)
  <2>0. RowTypes' /\ DbTypeOK'
    BY <1>0, <1>2, <1>8 DEF ThreadHandle, evvars, dbvars, DbTypeOK
  <2>1. /\ thr[c] = "handle" /\ Moves(c, "store") /\ priv' = [priv EXCEPT ![c] = db_priv]
        /\ UNCHANGED <<db_lock, buffer, page, discarded, rowvars>>
    BY <1>8 DEF ThreadHandle, ThreadGoto, Moves
  <2>2. "store" \in ThreadStates /\ thr' = [thr EXCEPT ![c] = "store"]
    BY <2>1 DEF ThreadStates, Moves
  <2>3. priv' \in [CPUs -> Nat]
    BY <1>0, <2>1
  <2>4. TypeOK'
    BY <1>0, <2>0, <2>1, <2>2, <2>3, MoveTypes
  <2>5. CountersOK'
    <3>1. page[c] > 0
      BY <2>1 DEF IInv, CountersOK
    <3> QED
      BY <2>1, <2>2, <3>1, MoveCounters
  <2>6. PollOK' /\ EndOK' /\ FreedWhenQuiet' /\ main \in ForkStates
    BY <2>1, <2>2, MoveMain
  <2>7. CountOK' /\ DecoderOK' /\ ExactOK'
    BY <1>1, <2>1, <2>2, MoveCounts DEF CountedStates, UsingStates, DecodingStates
  <2>8. NoRecordOK' /\ NoStaleHandle' /\ LockOK'
    BY <1>0, <1>1, <2>1, <2>2 DEF IInv, NoRecordOK, LockOK, LockedStates, NoStaleHandle, handlevars
  <2>9. RecordOK'
    BY <1>0, <1>1, <2>1, <2>2 DEF IInv, RecordOK, UsingStates, DecodingStates, handlevars
  <2> QED
    BY <1>2, <2>4, <2>5, <2>6, <2>7, <2>8, <2>9 DEF IInv
<1>9. CASE ThreadStore(c)
  <2> DEFINE s == IF page[c] > 1 THEN "handle" ELSE "loop"
  <2>1. /\ thr[c] = "store" /\ Moves(c, s)
        /\ handled' = [handled EXCEPT ![c] = @ + 1]
        /\ StoreEvents(c, priv[c], 1)
        /\ priv' = [priv EXCEPT ![c] = NULL]
        /\ page' = [page EXCEPT ![c] = @ - 1]
        /\ UNCHANGED <<db_lock, buffer, discarded>>
    BY <1>9 DEF ThreadStore, ThreadGoto, Moves
  <2>2. s \in ThreadStates /\ thr' = [thr EXCEPT ![c] = s] /\ s \in {"handle", "loop"}
    BY <2>1 DEF ThreadStates, Moves
  <2>3. page[c] > 0 /\ page[c] \in Nat
    BY <1>0, <2>1 DEF IInv, CountersOK
  <2>4. /\ priv' \in [CPUs -> Nat] /\ page' \in [CPUs -> Nat] /\ RowTypes' /\ DbTypeOK'
    <3>1. priv' \in [CPUs -> Nat] /\ page' \in [CPUs -> Nat]
      BY <1>0, <2>1, <2>3 DEF NULL
    <3>2. RowTypes' /\ flaws' \in Nat
      BY <1>0, <2>1, StoreCounts
    <3> QED
      BY <1>2, <3>1, <3>2
  <2>5. TypeOK'
    BY <1>0, <2>1, <2>2, <2>4, MoveTypes
  <2>6. CountersOK'
    <3>1. s \in {"handle", "store"} => page'[c] > 0
      BY <1>0, <2>1, <2>3
    <3>2. \A d \in CPUs : d # c => page'[d] = page[d]
      BY <1>0, <2>1
    <3> QED
      BY <2>1, <2>2, <3>1, <3>2, MoveCounters
  <2>7. PollOK' /\ EndOK' /\ FreedWhenQuiet' /\ main \in ForkStates
    BY <2>1, <2>2, MoveMain
  <2> HIDE DEF s
  <2>8. CountOK' /\ DecoderOK' /\ ExactOK'
    BY <1>1, <2>1, <2>2, MoveCounts DEF CountedStates, UsingStates, DecodingStates
  <2>9. NoRecordOK' /\ NoStaleHandle' /\ LockOK'
    BY <1>0, <1>1, <2>1, <2>2 DEF IInv, NoRecordOK, LockOK, LockedStates, NoStaleHandle, handlevars
  <2>10. RecordOK'
    BY <1>0, <1>1, <2>1, <2>2 DEF IInv, RecordOK, UsingStates, DecodingStates, handlevars
  <2> QED
    BY <1>2, <2>5, <2>6, <2>7, <2>8, <2>9, <2>10 DEF IInv
<1> QED
  BY <1>3, <1>4, <1>5, <1>6, <1>7, <1>8, <1>9

(* Opening and closing the database and the vendor statements keep the     *)
(* invariant.                                                              *)
LEMMA DatabaseIInv ==
    ASSUME IInv, ~Terminated, NEW c \in CPUs,
           \/ ThreadOpenDb(c) \/ ThreadOpening(c) \/ ThreadAddTables(c)
           \/ ThreadFinalize(c) \/ ThreadCloseDb(c) \/ ThreadClosing(c)
    PROVE  IInv'
<1> USE RasAssumption, DecodersAssumption
<1>0. /\ TypeOK /\ DbTypeOK /\ thr \in [CPUs -> ThreadStates]
      /\ db_lock \in CPUs \cup {NoOwner} /\ db_priv \in Nat /\ opens \in Nat /\ leaked \in Nat
      /\ db_ref_count \in Nat /\ dec_ref_count \in Nat /\ dec_stmts \in SUBSET Decoders
  BY DEF IInv, TypeOK, DbTypeOK
<1>1. /\ thr[c] \in LockedStates /\ db_lock = c /\ RecordEvents
      /\ UNCHANGED evvars /\ UNCHANGED <<main, aborted, cancelled>>
  BY DEF ThreadOpenDb, ThreadOpening, ThreadAddTables, ThreadFinalize, ThreadCloseDb, ThreadClosing,
         ThreadGoto, MainIdle, mainvars, evvars, rowvars, IInv, LockOK, NoRecordOK, LockedStates
<1>2. main \in ForkStates /\ thr[c] \notin {"none", "done"}
  <2>1. thr[c] \notin {"none", "done"}
    BY <1>1 DEF LockedStates
  <2>2. main \notin PollStates
    BY <2>1 DEF IInv, PollOK
  <2> QED
    BY <1>0, <2>1, <2>2 DEF TypeOK, MainStates, PollStates, ForkStates, Terminated
<1>3. \A d \in CPUs : d # NoOwner
  BY DEF CPUs, NoOwner
<1>4. \A d \in CPUs : d # c => thr[d] \notin LockedStates
  BY <1>1 DEF IInv, LockOK
<1>5. /\ Cardinality(At(CountedStates)) \in Nat /\ Cardinality(At(DecodingStates)) \in Nat
      /\ Cardinality(At(CountedStates)) <= db_ref_count
      /\ Cardinality(At(CountedStates)) = 0 => \A d \in CPUs : thr[d] \notin CountedStates
  BY <1>1, <1>2, AtFinite DEF IInv, CountOK, At
<1>6. /\ NDecoders = 0 => dec_ref_count = 0
      /\ dec_ref_count = 0 => dec_stmts = {}
      /\ dec_ref_count <= db_ref_count
      /\ NDecoders > 0 => Cardinality(At(DecodingStates)) <= dec_ref_count
  BY <1>1, <1>2 DEF IInv, DecoderOK
<1>7. main \in {"err", "exit", "exited"} => aborted
  BY <1>2 DEF IInv, EndOK
<1>8. ASSUME NEW s \in ThreadStates, Moves(c, s), s \notin {"handle", "store"},
             db_lock' \in CPUs \cup {NoOwner}, DbTypeOK'
      PROVE  /\ TypeOK' /\ CountersOK' /\ NoRecordOK'
             /\ PollOK' /\ EndOK' /\ FreedWhenQuiet'
  <2>1. TypeOK'
    BY <1>0, <1>1, <1>8, MoveTypes DEF evvars, rowvars, TypeOK, RowTypes
  <2>2. CountersOK'
    BY <1>1, <1>2, <1>8, MoveCounters DEF evvars, rowvars
  <2>3. PollOK' /\ EndOK' /\ FreedWhenQuiet'
    BY <1>2, <1>8, MoveMain
  <2>4. NoRecordOK'
    BY <1>1 DEF NoRecordOK
  <2> QED
    BY <2>1, <2>2, <2>3, <2>4
<1>9. ASSUME NEW s \in ThreadStates, Moves(c, s)
      PROVE  /\ Cardinality(At(CountedStates)') =
                   Cardinality(At(CountedStates)) + (IF s \in CountedStates THEN 1 ELSE 0)
                      - (IF thr[c] \in CountedStates THEN 1 ELSE 0)
             /\ Cardinality(At(DecodingStates)') =
                   Cardinality(At(DecodingStates)) + (IF s \in DecodingStates THEN 1 ELSE 0)
                      - (IF thr[c] \in DecodingStates THEN 1 ELSE 0)
  BY <1>0, <1>9, AtMove DEF Moves
<1>10. CASE ThreadOpenDb(c)
  <2> DEFINE s == IF db_ref_count > 0 THEN "tables" ELSE "opening"
  <2>1. /\ thr[c] = "opendb" /\ Moves(c, s) /\ thr' = [thr EXCEPT ![c] = s] /\ db_lock' = db_lock
        /\ db_ref_count' = db_ref_count + 1
        /\ db_priv' = (IF db_ref_count + 1 > 1 THEN db_priv ELSE NULL)
        /\ UNCHANGED <<leaked, dec_ref_count, dec_stmts>>
    BY <1>10 DEF ThreadOpenDb, opendb_count, ThreadGoto, Moves
  <2>2. s \in ThreadStates /\ s \in {"tables", "opening"}
    BY DEF ThreadStates
  <2>3. DbTypeOK'
    BY <1>0, <1>10, DatabaseTypes DEF ThreadOpenDb
  <2>4. /\ TypeOK' /\ CountersOK' /\ NoRecordOK' /\ PollOK' /\ EndOK' /\ FreedWhenQuiet'
    BY <1>0, <1>8, <2>1, <2>2, <2>3
  <2>5. /\ Cardinality(At(CountedStates)') = Cardinality(At(CountedStates)) + 1
        /\ Cardinality(At(DecodingStates)') = Cardinality(At(DecodingStates))
    BY <1>5, <1>9, <2>1, <2>2 DEF CountedStates, UsingStates, DecodingStates
  <2>6. CASE db_ref_count = 0
    <3>1. s = "opening" /\ db_priv' = NULL /\ db_ref_count' = 1
      BY <2>1, <2>6
    <3>2. \A d \in CPUs : thr[d] \notin CountedStates
      BY <1>5, <2>6
    <3>3. dec_ref_count = 0 /\ dec_stmts = {}
      BY <1>0, <1>6, <2>6
    <3> HIDE DEF s
    <3>4. CountOK'
      BY <1>0, <1>1, <1>4, <1>5, <2>1, <2>5, <2>6, <3>1, <3>2 DEF IInv, CountOK, LockedStates
    <3>5. RecordOK'
      BY <1>0, <1>1, <1>2, <2>1, <3>1, <3>2 DEF IInv, RecordOK, CountedStates, UsingStates,
                                                DecodingStates, evvars, rowvars
    <3>6. DecoderOK'
      BY <1>0, <1>1, <1>2, <1>5, <1>6, <2>1, <2>5, <3>1, <3>3 DEF DecoderOK
    <3>7. ExactOK'
      BY <1>1, <2>1, <3>1 DEF IInv, ExactOK
    <3>8. LockOK'
      BY <1>0, <1>1, <1>4, <2>1, <3>1 DEF IInv, LockOK, evvars, rowvars
    <3>9. NoStaleHandle'
      BY <1>0, <1>1, <2>1, <3>1, <3>2 DEF NoStaleHandle, CountedStates, UsingStates, DecodingStates, evvars, rowvars
    <3>10. StatementsOK'
      BY <1>1, <1>7, <2>1, <3>3 DEF StatementsOK
    <3> QED
      BY <2>4, <3>4, <3>5, <3>6, <3>7, <3>8, <3>9, <3>10 DEF IInv
  <2>7. CASE db_ref_count # 0
    <3>1. s = "tables" /\ db_priv' = db_priv /\ db_ref_count > 0
      BY <1>0, <2>1, <2>7
    <3>2. \A d \in CPUs : thr[d] # "opening" /\ thr[d] # "closing"
      BY <1>0, <1>4, <2>1 DEF LockedStates
    <3> HIDE DEF s
    <3>3. CountOK'
      BY <1>0, <1>1, <1>5, <2>1, <2>5, <3>1, <3>2 DEF CountOK
    <3>4. RecordOK'
      BY <1>0, <1>1, <1>2, <2>1, <3>1, <3>2 DEF IInv, RecordOK, UsingStates, DecodingStates, evvars, rowvars
    <3>5. DecoderOK'
      <4>1. dec_ref_count' < db_ref_count' /\ dec_ref_count' <= db_ref_count'
        BY <1>0, <1>6, <2>1
      <4> QED
        BY <1>6, <2>1, <2>5, <4>1 DEF DecoderOK
    <3>6. ExactOK'
      BY <1>0, <1>1, <1>2, <1>5, <2>1, <2>5, <3>1 DEF IInv, ExactOK
    <3>7. LockOK' /\ NoStaleHandle'
      BY <1>0, <1>1, <1>4, <2>1, <3>1 DEF IInv, LockOK, NoStaleHandle, evvars, rowvars
    <3>8. StatementsOK'
      BY <1>1, <1>7, <2>1, <3>1 DEF IInv, StatementsOK
    <3> QED
      BY <2>4, <3>3, <3>4, <3>5, <3>6, <3>7, <3>8 DEF IInv
  <2> QED
    BY <2>6, <2>7
<1>11. CASE ThreadOpening(c)
  <2>0. /\ thr[c] = "opening" /\ db_ref_count = 1 /\ db_priv = NULL
        /\ \A d \in CPUs : d # c => thr[d] \notin CountedStates
    BY <1>1, <1>2, <1>11 DEF ThreadOpening, IInv, CountOK
  <2>1. Cardinality(At(CountedStates)) = 1
    BY <1>0, <1>5, <2>0, AtSome DEF CountedStates
  <2>2. dec_ref_count = 0 /\ dec_stmts = {}
    BY <1>0, <1>1, <1>2, <1>6, <2>0 DEF IInv, DecoderOK
  <2>3. CASE opendb_first /\ ThreadGoto(c, "tables") /\ UNCHANGED db_lock
    <3>1. /\ Moves(c, "tables") /\ thr' = [thr EXCEPT ![c] = "tables"] /\ db_lock' = db_lock
          /\ db_priv' = opens + 1
          /\ UNCHANGED <<db_ref_count, leaked, dec_ref_count, dec_stmts>>
      BY <1>11, <2>3 DEF ThreadOpening, opendb_first, ThreadGoto, Moves
    <3>2. "tables" \in ThreadStates /\ DbTypeOK' /\ db_priv' # NULL
      <4>1. DbTypeOK'
        BY <1>0, <1>11, <2>3, DatabaseTypes DEF ThreadOpening
      <4> QED
        BY <1>0, <3>1, <4>1 DEF ThreadStates, DbTypeOK, NULL
    <3>3. /\ TypeOK' /\ CountersOK' /\ NoRecordOK' /\ PollOK' /\ EndOK' /\ FreedWhenQuiet'
      BY <1>0, <1>8, <3>1, <3>2
    <3>4. /\ Cardinality(At(CountedStates)') = 1
          /\ Cardinality(At(DecodingStates)') = Cardinality(At(DecodingStates))
      BY <1>5, <1>9, <2>0, <2>1, <3>1, <3>2 DEF CountedStates, UsingStates, DecodingStates
    <3>5. CountOK'
      BY <1>0, <1>4, <2>0, <3>1, <3>4 DEF CountOK, LockedStates, CountedStates
    <3>6. RecordOK'
      BY <1>0, <1>1, <2>0, <3>1, <3>2 DEF IInv, RecordOK, CountedStates, UsingStates, DecodingStates, evvars, rowvars
    <3>7. DecoderOK'
      BY <1>6, <2>0, <2>2, <3>1, <3>4 DEF DecoderOK
    <3>8. ExactOK'
      BY <1>1, <2>0, <3>1, <3>4 DEF IInv, ExactOK
    <3>9. LockOK'
      BY <1>0, <1>1, <1>4, <3>1 DEF IInv, LockOK, evvars, rowvars
    <3>10. NoStaleHandle'
      BY <1>0, <1>1, <2>0, <3>1 DEF NoStaleHandle, CountedStates, UsingStates, DecodingStates, evvars, rowvars
    <3>11. StatementsOK'
      BY <1>1, <1>7, <2>2, <3>1 DEF StatementsOK
    <3> QED
      BY <3>3, <3>5, <3>6, <3>7, <3>8, <3>9, <3>10, <3>11 DEF IInv
  <2>4. CASE opendb_fail /\ ThreadGoto(c, "done") /\ Unlock(c)
    <3>1. /\ Moves(c, "done") /\ thr' = [thr EXCEPT ![c] = "done"] /\ db_lock' = NoOwner
          /\ leaked' = leaked + 1
          /\ UNCHANGED <<db_ref_count, db_priv, dec_ref_count, dec_stmts>>
      BY <1>11, <2>4 DEF ThreadOpening, opendb_fail, ThreadGoto, Moves, Unlock
    <3>2. "done" \in ThreadStates /\ DbTypeOK' /\ leaked' # 0
      <4>1. DbTypeOK'
        BY <1>0, <1>11, <2>4, DatabaseTypes DEF ThreadOpening
      <4> QED
        BY <1>0, <3>1, <4>1 DEF ThreadStates
    <3>3. /\ TypeOK' /\ CountersOK' /\ NoRecordOK' /\ PollOK' /\ EndOK' /\ FreedWhenQuiet'
      BY <1>0, <1>8, <3>1, <3>2
    <3>4. /\ Cardinality(At(CountedStates)') = 0
          /\ Cardinality(At(DecodingStates)') = Cardinality(At(DecodingStates))
      BY <1>5, <1>9, <2>0, <2>1, <3>1, <3>2 DEF CountedStates, UsingStates, DecodingStates
    <3>5. CountOK'
      BY <1>0, <1>4, <2>0, <3>1, <3>4 DEF CountOK, LockedStates, CountedStates
    <3>6. RecordOK'
      BY <3>2 DEF RecordOK
    <3>7. DecoderOK'
      BY <1>6, <2>0, <2>2, <3>1, <3>4 DEF DecoderOK
    <3>8. ExactOK'
      BY <1>1, <2>0, <3>1 DEF IInv, ExactOK
    <3>9. LockOK'
      BY <1>0, <1>4, <3>1 DEF LockOK, LockedStates
    <3>10. NoStaleHandle'
      BY <1>0, <1>1, <2>0, <3>1 DEF NoStaleHandle, CountedStates, UsingStates, DecodingStates, evvars, rowvars
    <3>11. StatementsOK'
      BY <1>1, <1>7, <2>2, <3>1 DEF StatementsOK
    <3> QED
      BY <3>3, <3>5, <3>6, <3>7, <3>8, <3>9, <3>10, <3>11 DEF IInv
  <2> QED
    BY <1>11, <2>3, <2>4 DEF ThreadOpening
<1>12. CASE ThreadAddTables(c)
  <2>1. /\ thr[c] = "tables" /\ Moves(c, "loop") /\ thr' = [thr EXCEPT ![c] = "loop"] /\ db_lock' = NoOwner
        /\ UNCHANGED <<db_ref_count, db_priv, leaked>>
        /\ dec_ref_count' = (IF NDecoders > 0 THEN dec_ref_count + 1 ELSE dec_ref_count)
        /\ add_vendor_tables
    BY <1>12 DEF ThreadAddTables, add_vendor_tables, ThreadGoto, Moves, Unlock
  <2>2. dec_stmts' \in SUBSET Decoders /\ (dec_stmts' = dec_stmts \/ db_priv # NULL)
    BY <1>0, <2>1 DEF add_vendor_tables
  <2>3. "loop" \in ThreadStates /\ DbTypeOK'
    <3>1. DbTypeOK'
      BY <1>0, <1>12, DatabaseTypes DEF ThreadAddTables
    <3> QED
      BY <1>0, <3>1 DEF ThreadStates
  <2>4. /\ TypeOK' /\ CountersOK' /\ NoRecordOK' /\ PollOK' /\ EndOK' /\ FreedWhenQuiet'
    BY <1>0, <1>8, <2>1, <2>3
  <2>5. /\ Cardinality(At(CountedStates)') = Cardinality(At(CountedStates))
        /\ Cardinality(At(DecodingStates)') = Cardinality(At(DecodingStates)) + 1
    BY <1>5, <1>9, <2>1, <2>3 DEF CountedStates, UsingStates, DecodingStates
  <2>6. dec_ref_count < db_ref_count
    BY <1>1, <1>2, <2>1 DEF IInv, DecoderOK
  <2>7. \A d \in CPUs : thr'[d] \notin LockedStates
    BY <1>0, <1>4, <2>1 DEF LockedStates
  <2>8. CountOK'
    BY <1>5, <2>1, <2>5, <2>7 DEF CountOK, LockedStates
  <2>9. RecordOK'
    BY <1>0, <1>1, <1>4, <2>1, <2>7 DEF IInv, RecordOK, LockedStates, UsingStates, DecodingStates, evvars, rowvars
  <2>10. DecoderOK'
    <3>1. NDecoders = 0 => dec_stmts' = {}
      BY <2>2 DEF Decoders
    <3>2. dec_ref_count' <= db_ref_count'
      BY <1>0, <2>1, <2>6
    <3>3. NDecoders > 0 => dec_ref_count' # 0 /\ Cardinality(At(DecodingStates)') <= dec_ref_count'
      BY <1>0, <1>5, <1>6, <2>1, <2>5
    <3>4. NDecoders = 0 => dec_ref_count' = 0
      BY <1>6, <2>1
    <3> QED
      BY <2>7, <3>1, <3>2, <3>3, <3>4 DEF DecoderOK, LockedStates
  <2>11. ExactOK'
    BY <1>0, <1>1, <1>2, <1>5, <2>1, <2>5, <2>6 DEF IInv, ExactOK
  <2>12. LockOK'
    BY <2>7 DEF LockOK
  <2>13. NoStaleHandle'
    BY <1>0, <1>1, <2>1 DEF IInv, NoStaleHandle, evvars, rowvars
  <2>14. StatementsOK'
    BY <1>1, <1>7, <2>1, <2>2 DEF IInv, StatementsOK
  <2> QED
    BY <2>4, <2>8, <2>9, <2>10, <2>11, <2>12, <2>13, <2>14 DEF IInv
<1>13. CASE ThreadFinalize(c)
  <2>1. /\ thr[c] = "finalize" /\ Moves(c, "closedb") /\ thr' = [thr EXCEPT ![c] = "closedb"] /\ db_lock' = db_lock
        /\ UNCHANGED <<db_ref_count, db_priv, leaked>>
        /\ dec_ref_count' = (IF dec_ref_count > 0 THEN dec_ref_count - 1 ELSE dec_ref_count)
        /\ dec_stmts' = (IF dec_ref_count = 1 THEN {} ELSE dec_stmts)
    BY <1>13 DEF ThreadFinalize, finalize_vendor_tables, ThreadGoto, Moves
  <2>2. "closedb" \in ThreadStates /\ DbTypeOK'
    <3>1. DbTypeOK'
      BY <1>0, <1>13, DatabaseTypes DEF ThreadFinalize
    <3> QED
      BY <1>0, <3>1 DEF ThreadStates
  <2>3. /\ TypeOK' /\ CountersOK' /\ NoRecordOK' /\ PollOK' /\ EndOK' /\ FreedWhenQuiet'
    BY <1>0, <1>8, <2>1, <2>2
  <2>4. /\ Cardinality(At(CountedStates)') = Cardinality(At(CountedStates))
        /\ Cardinality(At(DecodingStates)') = Cardinality(At(DecodingStates)) - 1
    BY <1>5, <1>9, <2>1, <2>2 DEF CountedStates, UsingStates, DecodingStates
  <2>5. Cardinality(At(CountedStates)) >= 1 /\ Cardinality(At(DecodingStates)) >= 1
    BY <2>1, AtSome DEF CountedStates, UsingStates, DecodingStates
  <2>6. \A d \in CPUs : thr[d] # "opening" /\ thr[d] # "closing"
    BY <1>0, <1>4, <2>1 DEF LockedStates
  <2>7. CountOK'
    BY <1>0, <1>5, <2>1, <2>4, <2>6 DEF CountOK
  <2>8. RecordOK'
    BY <1>0, <1>1, <2>1, <2>6 DEF IInv, RecordOK, UsingStates, DecodingStates, evvars, rowvars
  <2>9. DecoderOK'
    <3>1. NDecoders = 0 => dec_ref_count' = 0
      BY <1>6, <2>1
    <3>2. dec_ref_count' = 0 => dec_stmts' = {}
      BY <1>0, <1>6, <2>1
    <3>3. dec_ref_count' < db_ref_count' /\ dec_ref_count' <= db_ref_count'
      BY <1>0, <1>5, <1>6, <2>1, <2>5
    <3>4. NDecoders > 0 => Cardinality(At(DecodingStates)') <= dec_ref_count'
      BY <1>0, <1>5, <1>6, <2>1, <2>4, <2>5
    <3> QED
      BY <3>1, <3>2, <3>3, <3>4 DEF DecoderOK
  <2>10. ExactOK'
    BY <1>0, <1>1, <1>2, <1>5, <2>1, <2>4, <2>5 DEF IInv, ExactOK
  <2>11. LockOK' /\ NoStaleHandle'
    BY <1>0, <1>1, <1>4, <2>1 DEF IInv, LockOK, NoStaleHandle, evvars, rowvars
  <2>12. StatementsOK'
    BY <1>1, <1>7, <2>1 DEF IInv, StatementsOK
  <2> QED
    BY <2>3, <2>7, <2>8, <2>9, <2>10, <2>11, <2>12 DEF IInv
<1>14. CASE ThreadCloseDb(c)
  <2>0. thr[c] = "closedb" /\ Cardinality(At(CountedStates)) >= 1 /\ db_ref_count >= 1
    <3>1. thr[c] = "closedb"
      BY <1>14 DEF ThreadCloseDb
    <3>2. Cardinality(At(CountedStates)) >= 1
      BY <3>1, AtSome DEF CountedStates, UsingStates
    <3> QED
      BY <1>0, <1>5, <3>1, <3>2
  <2> DEFINE s == IF db_ref_count = 1 THEN "closing" ELSE "done"
  <2>1. /\ Moves(c, s) /\ thr' = [thr EXCEPT ![c] = s]
        /\ db_lock' = (IF db_ref_count = 1 THEN db_lock ELSE NoOwner)
        /\ db_ref_count' = db_ref_count - 1
        /\ UNCHANGED <<db_priv, leaked, dec_ref_count, dec_stmts>>
    BY <1>0, <1>14, <2>0 DEF ThreadCloseDb, closedb_count, ThreadGoto, Moves, Unlock
  <2>2. s \in ThreadStates /\ s \in {"closing", "done"} /\ DbTypeOK'
    <3>1. DbTypeOK'
      BY <1>0, <1>14, DatabaseTypes DEF ThreadCloseDb
    <3> QED
      BY <1>0, <2>1, <3>1 DEF ThreadStates
  <2>3. /\ TypeOK' /\ CountersOK' /\ NoRecordOK' /\ PollOK' /\ EndOK' /\ FreedWhenQuiet'
    BY <1>0, <1>8, <2>1, <2>2
  <2>4. /\ Cardinality(At(CountedStates)') = Cardinality(At(CountedStates)) - 1
        /\ Cardinality(At(DecodingStates)') = Cardinality(At(DecodingStates))
    BY <1>5, <1>9, <2>0, <2>1, <2>2 DEF CountedStates, UsingStates, DecodingStates
  <2>5. dec_ref_count < db_ref_count
    BY <1>1, <1>2, <2>0 DEF IInv, DecoderOK
  <2>6. \A d \in CPUs : d # c => thr'[d] = thr[d] /\ thr[d] \notin LockedStates
    BY <1>0, <1>4, <2>1
  <2>7. thr'[c] = s /\ (s = "closing" => db_ref_count' = 0 /\ db_lock' = c)
    BY <1>0, <1>1, <2>0, <2>1
  <2>8. s = "done" => db_ref_count' > 0
    BY <1>0, <2>0, <2>1
  <2> HIDE DEF s
  <2>9. CountOK'
    BY <1>0, <1>5, <2>0, <2>1, <2>2, <2>4, <2>6, <2>7 DEF CountOK, LockedStates
  <2>10. RecordOK'
    BY <1>0, <1>1, <2>0, <2>1, <2>2, <2>6, <2>7 DEF IInv, RecordOK, LockedStates, UsingStates,
           DecodingStates, evvars, rowvars
  <2>11. DecoderOK'
    <3>1. dec_ref_count' <= db_ref_count'
      BY <1>0, <2>1, <2>5
    <3> QED
      BY <1>6, <2>1, <2>2, <2>4, <2>6, <2>7, <3>1 DEF DecoderOK, LockedStates
  <2>12. ExactOK'
    <3>1. db_ref_count' = 0 => thr'[c] = "closing"
      BY <2>2, <2>7, <2>8
    <3> QED
      BY <1>0, <1>1, <1>2, <1>5, <2>1, <2>4, <3>1 DEF IInv, ExactOK
  <2>13. LockOK'
    BY <2>2, <2>6, <2>7 DEF LockOK, LockedStates
  <2>14. NoStaleHandle'
    BY <1>0, <1>1, <2>1, <2>2 DEF IInv, NoStaleHandle, evvars, rowvars
  <2>15. StatementsOK'
    BY <1>1, <1>7, <2>1 DEF IInv, StatementsOK
  <2> QED
    BY <2>3, <2>9, <2>10, <2>11, <2>12, <2>13, <2>14, <2>15 DEF IInv
<1>15. CASE ThreadClosing(c)
  <2>1. /\ thr[c] = "closing" /\ Moves(c, "done") /\ thr' = [thr EXCEPT ![c] = "done"] /\ db_lock' = NoOwner
        /\ db_priv' = NULL /\ UNCHANGED <<db_ref_count, leaked, dec_ref_count, dec_stmts>>
    BY <1>15 DEF ThreadClosing, closedb_last, ThreadGoto, Moves, Unlock
  <2>2. "done" \in ThreadStates /\ DbTypeOK'
    <3>1. DbTypeOK'
      BY <1>0, <1>15, DatabaseTypes DEF ThreadClosing
    <3> QED
      BY <1>0, <3>1 DEF ThreadStates
  <2>3. /\ TypeOK' /\ CountersOK' /\ NoRecordOK' /\ PollOK' /\ EndOK' /\ FreedWhenQuiet'
    BY <1>0, <1>8, <2>1, <2>2
  <2>4. db_ref_count = 0
    BY <1>1, <1>2, <2>1 DEF IInv, CountOK
  <2>5. \A d \in CPUs : thr[d] \notin CountedStates
    BY <1>5, <2>4
  <2>6. dec_ref_count = 0 /\ dec_stmts = {}
    BY <1>0, <1>6, <2>4
  <2>7. \A d \in CPUs : thr'[d] \notin LockedStates /\ thr'[d] \notin CountedStates
    BY <1>0, <1>4, <2>1, <2>5 DEF LockedStates, CountedStates, UsingStates, DecodingStates
  <2>8. Cardinality(At(CountedStates)') = 0 /\ Cardinality(At(DecodingStates)') = 0
    <3>1. At(CountedStates)' = {} /\ At(DecodingStates)' = {}
      BY <2>7 DEF At, CountedStates, UsingStates
    <3> QED
      BY <3>1, FS_EmptySet
  <2>9. CountOK'
    BY <2>1, <2>4, <2>7, <2>8 DEF CountOK, LockedStates
  <2>10. RecordOK'
    BY <2>1, <2>4, <2>7 DEF RecordOK, CountedStates, UsingStates, DecodingStates
  <2>11. DecoderOK'
    BY <2>1, <2>4, <2>6, <2>7, <2>8 DEF DecoderOK, LockedStates
  <2>12. ExactOK'
    BY <1>1, <2>1 DEF IInv, ExactOK
  <2>13. LockOK'
    BY <2>7 DEF LockOK
  <2>14. NoStaleHandle'
    BY <1>1, <2>1, <2>7 DEF IInv, NoStaleHandle, CountedStates, UsingStates, DecodingStates, evvars, rowvars
  <2>15. StatementsOK'
    BY <1>1, <1>7, <2>1, <2>6 DEF StatementsOK
  <2> QED
    BY <2>3, <2>9, <2>10, <2>11, <2>12, <2>13, <2>14, <2>15 DEF IInv
<1> QED
  BY <1>10, <1>11, <1>12, <1>13, <1>14, <1>15

(* Cancelling a thread, which leaves its counts and its lock behind, keeps *)
(* the invariant.                                                          *)
LEMMA CancelIInv ==
    ASSUME IInv, ~Terminated, NEW c \in CPUs, ThreadCancelled(c)
    PROVE  IInv'
<1>0. /\ TypeOK /\ DbTypeOK /\ thr \in [CPUs -> ThreadStates]
      /\ db_ref_count \in Nat /\ dec_ref_count \in Nat
  BY DEF IInv, TypeOK, DbTypeOK
<1>1. /\ Moves(c, "done") /\ thr' = [thr EXCEPT ![c] = "done"] /\ thr[c] # "done"
      /\ UNCHANGED db_lock /\ UNCHANGED evvars /\ UNCHANGED dbvars /\ c \in cancelled
      /\ UNCHANGED <<main, aborted>>
  BY DEF ThreadCancelled, ThreadGoto, Moves, MainIdle, mainvars
<1>2. aborted
  BY <1>1 DEF IInv, ExactOK
<1>3. "done" \in ThreadStates
  BY DEF ThreadStates
<1>4. main \in ForkStates /\ PollOK' /\ EndOK' /\ FreedWhenQuiet'
  BY <1>1, <1>2, <1>3, MoveMain
<1>5. TypeOK'
  <2>1. DbTypeOK'
    BY <1>0, <1>1 DEF dbvars, handlevars, connvars, DbTypeOK
  <2> QED
    BY <1>0, <1>1, <1>3, <2>1, MoveTypes DEF evvars, rowvars, TypeOK, RowTypes
<1>6. CountersOK'
  BY <1>1, <1>2, <1>3, MoveCounters DEF evvars, rowvars
<1>7. /\ Cardinality(At(CountedStates)') <= Cardinality(At(CountedStates))
      /\ Cardinality(At(DecodingStates)') <= Cardinality(At(DecodingStates))
      /\ Cardinality(At(CountedStates)') \in Int /\ Cardinality(At(CountedStates)) \in Nat
      /\ Cardinality(At(DecodingStates)') \in Int /\ Cardinality(At(DecodingStates)) \in Nat
  <2>1. /\ Cardinality(At(CountedStates)) \in Nat /\ Cardinality(At(DecodingStates)) \in Nat
    BY AtFinite
  <2>2. /\ Cardinality(At(CountedStates)') =
               Cardinality(At(CountedStates)) + (IF "done" \in CountedStates THEN 1 ELSE 0)
                  - (IF thr[c] \in CountedStates THEN 1 ELSE 0)
        /\ Cardinality(At(DecodingStates)') =
               Cardinality(At(DecodingStates)) + (IF "done" \in DecodingStates THEN 1 ELSE 0)
                  - (IF thr[c] \in DecodingStates THEN 1 ELSE 0)
    BY <1>0, <1>1, AtMove
  <2>3. "done" \notin CountedStates /\ "done" \notin DecodingStates
    BY DEF CountedStates, UsingStates, DecodingStates
  <2> QED
    BY <2>1, <2>2, <2>3
<1>8. NoRecordOK' /\ LockOK' /\ NoStaleHandle'
  BY <1>0, <1>1 DEF IInv, NoRecordOK, LockOK, LockedStates, NoStaleHandle, evvars, rowvars, dbvars, handlevars
<1>9. CountOK'
  BY <1>0, <1>1, <1>7 DEF IInv, CountOK, CountedStates, UsingStates, DecodingStates, dbvars, handlevars
<1>10. RecordOK'
  <2>1. \A d \in CPUs : d # NoOwner
    BY RasAssumption DEF CPUs, NoOwner
  <2> QED
    BY <1>0, <1>1, <2>1 DEF IInv, RecordOK, LockOK, LockedStates, UsingStates, DecodingStates,
                            evvars, rowvars, dbvars, handlevars
<1>11. DecoderOK'
  BY <1>0, <1>1, <1>7 DEF IInv, DecoderOK, dbvars, handlevars
<1>12. ExactOK' /\ StatementsOK'
  BY <1>1, <1>2 DEF IInv, ExactOK, StatementsOK, dbvars, handlevars
<1> QED
  BY <1>4, <1>5, <1>6, <1>8, <1>9, <1>10, <1>11, <1>12 DEF IInv

-----------------------------------------------------------------------------
(* IInv is an invariant of the event loop, its fallback and the system     *)
(* around them.                                                            *)
LEMMA IInvHolds == Spec => []IInv
<1>1. IInv /\ [Next]_vars => IInv'
  <2> SUFFICES ASSUME IInv, [Next]_vars PROVE IInv'
    OBVIOUS
  <2>1. CASE MainNext
    BY <2>1, PollSetupIInv, PollLoopIInv, PollEndIInv, ForkIInv DEF MainNext
  <2>2. ASSUME NEW c \in CPUs, ThreadNext(c) PROVE IInv'
    BY <2>2, ListenIInv, DatabaseIInv, CancelIInv DEF ThreadNext, ThreadProgress
  <2>3. CASE \/ \E c \in CPUs : KernelEvent(c)
             \/ SendSignal \/ Kill \/ Done \/ UNCHANGED vars
    BY <2>3, SystemIInv DEF Done
  <2> QED
    BY <2>1, <2>2, <2>3 DEF Next
<1> QED
  BY <1>1, InitIInv, PTL DEF Spec

-----------------------------------------------------------------------------
(* What becomes of the events and of the connections.                      *)

\* Without a failed pthread_create the open connections are the present one,
\* those of failed opens and those an altered table left a statement on.
ConnectionsOK ==
    /\ db_priv \notin orphans
    /\ ~aborted => conns = orphans \cup altered \cup ({db_priv} \ {NULL})

\* A step that stores nothing: opening the database may fail, or pass over
\* a table.
NoRows ==
    /\ UNCHANGED rowvars
    /\ leaked' = 0 => leaked = 0
    /\ partial # {} => partial' # {}

(* The operations on the database and the vendor statements store nothing. *)
LEMMA DatabaseNoRows ==
    ASSUME DbTypeOK, UNCHANGED rowvars,
           \/ opendb_count \/ opendb_first \/ opendb_fail \/ closedb_count \/ closedb_last
           \/ add_vendor_tables \/ finalize_vendor_tables
    PROVE  NoRows
<1>1. leaked \in Nat
  BY DEF DbTypeOK
<1>2. partial # {} => partial' # {}
  BY DEF opendb_count, opendb_first, opendb_fail, closedb_count, closedb_last,
         add_vendor_tables, finalize_vendor_tables, connvars
<1>3. leaked' \in {leaked, leaked + 1}
  BY DEF opendb_count, opendb_first, opendb_fail, closedb_count, closedb_last,
         add_vendor_tables, finalize_vendor_tables
<1> QED
  BY <1>1, <1>2, <1>3 DEF NoRows

(* Every step but the handlers' stores nothing.                            *)
LEMMA StepNoRows ==
    ASSUME TypeOK, [Next]_vars, ~ScanPage, \A c \in CPUs : ~ThreadStore(c)
    PROVE  NoRows
<1>0. DbTypeOK
  BY DEF TypeOK
<1>1. ASSUME UNCHANGED rowvars, UNCHANGED handlevars PROVE NoRows
  BY <1>1 DEF NoRows, handlevars, connvars
<1>2. CASE MainNext
  <2>1. CASE PollOpenDb \/ PollOpening \/ PollAddTables \/ PollFinalize \/ PollCloseDb \/ PollClosing
    <3>1. /\ UNCHANGED rowvars
          /\ \/ opendb_count \/ opendb_first \/ opendb_fail \/ closedb_count \/ closedb_last
             \/ add_vendor_tables \/ finalize_vendor_tables
      BY <2>1 DEF PollOpenDb, PollOpening, PollAddTables, PollFinalize, PollCloseDb, PollClosing, evvars
    <3> QED
      BY <1>0, <3>1, DatabaseNoRows
  <2>2. CASE \/ Setup \/ OpenPipes \/ Poll \/ ScanNotReady \/ ScanReadError \/ ScanEnd \/ PollReturn
            \/ MutexInit \/ CreateThread \/ CreateThreadFails \/ Join \/ Free \/ Exit
    <3>1. UNCHANGED rowvars /\ UNCHANGED handlevars
      BY <2>2 DEF Setup, OpenPipes, Poll, ScanNotReady, ScanReadError, ScanEnd, PollReturn,
         MutexInit, CreateThread, CreateThreadFails, Join, Free, Exit, evvars, dbvars
    <3> QED
      BY <1>1, <3>1
  <2> QED
    BY <1>2, <2>1, <2>2 DEF MainNext
<1>3. ASSUME NEW c \in CPUs, ThreadNext(c) PROVE NoRows
  <2>1. CASE \/ ThreadOpenDb(c) \/ ThreadOpening(c) \/ ThreadAddTables(c)
            \/ ThreadFinalize(c) \/ ThreadCloseDb(c) \/ ThreadClosing(c)
    <3>1. /\ UNCHANGED rowvars
          /\ \/ opendb_count \/ opendb_first \/ opendb_fail \/ closedb_count \/ closedb_last
             \/ add_vendor_tables \/ finalize_vendor_tables
      BY <2>1 DEF ThreadOpenDb, ThreadOpening, ThreadAddTables, ThreadFinalize, ThreadCloseDb,
         ThreadClosing, evvars
    <3> QED
      BY <1>0, <3>1, DatabaseNoRows
  <2>2. CASE \/ ThreadOpenPipe(c) \/ ThreadLockOpen(c) \/ ThreadRead(c) \/ ThreadHandle(c)
            \/ ThreadLockClose(c) \/ ThreadCancelled(c) \/ ThreadReadError(c)
    <3>1. UNCHANGED rowvars /\ UNCHANGED handlevars
      BY <2>2 DEF ThreadOpenPipe, ThreadLockOpen, ThreadRead, ThreadHandle, ThreadLockClose,
         ThreadCancelled, ThreadReadError, evvars, dbvars
    <3> QED
      BY <1>1, <3>1
  <2> QED
    BY <1>3, <2>1, <2>2 DEF ThreadNext, ThreadProgress
<1>4. CASE \/ \E c \in CPUs : KernelEvent(c)
          \/ SendSignal \/ Kill \/ Done \/ UNCHANGED vars
  <2>1. UNCHANGED rowvars /\ UNCHANGED handlevars
    BY <1>4 DEF KernelEvent, SendSignal, Kill, Done, vars, evvars, dbvars
  <2> QED
    BY <1>1, <2>1
<1> QED
  BY <1>2, <1>3, <1>4 DEF Next

(* The handlers count every event they are given.                          *)
LEMMA RowsKept ==
    ASSUME IInv, HandledIsRecorded, [Next]_vars
    PROVE  HandledIsRecorded'
<1>0. TypeOK /\ DbTypeOK
  BY DEF IInv, TypeOK
<1>1. CASE ScanPage
  <2>1. main = "scan" /\ i < NCPUS /\ UNCHANGED handlevars
    BY <1>1 DEF ScanPage
  <2>2. i \in CPUs /\ db_priv \in Nat /\ buffer[i] \in Nat
    BY <1>0, <2>1, RasAssumption DEF TypeOK, DbTypeOK, CPUs
  <2>3. PICK size \in 1..buffer[i] : \E good \in 0..size : HandlePage(i, good)
    BY <1>1 DEF ScanPage
  <2>4. PICK good \in 0..size : HandlePage(i, good)
    BY <2>3
  <2>5. RecordEvents => db_priv # NULL
    BY <2>1 DEF IInv, PollOK, PollStates
  <2>6. good \in Nat
    BY <2>2
  <2>7. /\ handled' = [handled EXCEPT ![i] = @ + good] /\ StoreEvents(i, db_priv, good)
    BY <2>4 DEF HandlePage
  <2>8. /\ \A d \in CPUs \ {i} : /\ handled'[d] = handled[d] /\ stored'[d] = stored[d]
                                 /\ skipped'[d] = skipped[d] /\ failed'[d] = failed[d]
        /\ db_priv # NULL /\ handled[i] = stored[i] + skipped[i] + failed[i]
              => handled'[i] = stored'[i] + skipped'[i] + failed'[i]
        /\ skipped'[i] = skipped[i] \/ partial # {}
    BY <1>0, <2>2, <2>6, <2>7, StoreCounts
  <2>9. leaked' = leaked /\ partial' = partial
    BY <2>1 DEF handlevars, connvars
  <2> QED
    BY <2>2, <2>5, <2>8, <2>9 DEF HandledIsRecorded
<1>2. ASSUME NEW c \in CPUs, ThreadStore(c) PROVE HandledIsRecorded'
  <2>1. /\ thr[c] = "store" /\ UNCHANGED handlevars
        /\ handled' = [handled EXCEPT ![c] = @ + 1] /\ StoreEvents(c, priv[c], 1)
    BY <1>2 DEF ThreadStore
  <2>2. RecordEvents /\ leaked = 0 => priv[c] # NULL
    BY <2>1 DEF IInv, RecordOK
  <2>3. priv[c] \in Nat /\ 1 \in Nat
    BY <1>0 DEF TypeOK
  <2>4. /\ \A d \in CPUs \ {c} : /\ handled'[d] = handled[d] /\ stored'[d] = stored[d]
                                 /\ skipped'[d] = skipped[d] /\ failed'[d] = failed[d]
        /\ priv[c] # NULL /\ handled[c] = stored[c] + skipped[c] + failed[c]
              => handled'[c] = stored'[c] + skipped'[c] + failed'[c]
        /\ skipped'[c] = skipped[c] \/ partial # {}
    BY <1>0, <2>1, <2>3, StoreCounts
  <2>5. leaked' = leaked /\ partial' = partial
    BY <2>1 DEF handlevars, connvars
  <2> QED
    BY <2>2, <2>4, <2>5 DEF HandledIsRecorded
<1>3. CASE ~ScanPage /\ \A c \in CPUs : ~ThreadStore(c)
  <2>1. NoRows
    BY <1>0, <1>3, StepNoRows
  <2> QED
    BY <2>1 DEF NoRows, rowvars, HandledIsRecorded
<1> QED
  BY <1>1, <1>2, <1>3

(* Opening by the first caller, closing by the last one, and altering      *)
(* tables in between account for every connection.                         *)
LEMMA DatabaseConnections ==
    ASSUME DbTypeOK, ConnectionsOK, UNCHANGED aborted,
           \/ opendb_count /\ (~aborted /\ db_ref_count = 0 => db_priv = NULL)
           \/ opendb_first /\ db_priv = NULL
           \/ opendb_fail \/ closedb_count \/ closedb_last
           \/ add_vendor_tables \/ finalize_vendor_tables
    PROVE  ConnectionsOK'
<1>0. /\ opens \in Nat /\ db_priv \in 0..opens /\ orphans \subseteq 1..opens
      /\ conns \subseteq 1..opens /\ altered \subseteq 1..opens /\ db_ref_count \in Nat
  BY DEF DbTypeOK
<1>1. /\ NULL \notin orphans /\ opens + 1 \notin orphans /\ opens + 1 # NULL /\ db_priv # opens + 1
      /\ NULL = 0
  BY <1>0 DEF NULL
<1>2. CASE opendb_count /\ (~aborted /\ db_ref_count = 0 => db_priv = NULL)
  <2>1. /\ db_priv' = (IF db_ref_count + 1 > 1 THEN db_priv ELSE NULL)
        /\ UNCHANGED <<conns, orphans, altered>>
    BY <1>2 DEF opendb_count, connvars
  <2>2. db_priv' \in {db_priv, NULL} /\ (~aborted => db_priv' = db_priv)
    BY <1>0, <1>2, <2>1
  <2> QED
    BY <1>1, <2>1, <2>2 DEF ConnectionsOK
<1>3. CASE opendb_first /\ db_priv = NULL
  <2>1. /\ db_priv' = opens + 1 /\ conns' = conns \cup {opens + 1} /\ orphans' = orphans
        /\ altered' \in {altered, altered \cup {opens + 1}}
    BY <1>3 DEF opendb_first, connect, alter_tables
  <2> QED
    BY <1>1, <1>3, <2>1 DEF ConnectionsOK
<1>4. CASE opendb_fail
  <2>1. /\ db_priv' = db_priv /\ altered' = altered
        /\ \/ UNCHANGED <<conns, orphans>>
           \/ conns' = conns \cup {opens + 1} /\ orphans' = orphans \cup {opens + 1}
    BY <1>4 DEF opendb_fail, connect
  <2> QED
    BY <1>1, <2>1 DEF ConnectionsOK
<1>5. CASE closedb_count
  BY <1>5 DEF closedb_count, connvars, ConnectionsOK
<1>6. CASE closedb_last
  <2>1. /\ conns' = conns \ ({db_priv} \ altered) /\ db_priv' = NULL
        /\ UNCHANGED <<orphans, altered>>
    BY <1>6 DEF closedb_last
  <2> QED
    BY <1>1, <2>1 DEF ConnectionsOK
<1>7. CASE add_vendor_tables
  <2>1. /\ UNCHANGED <<db_priv, conns, orphans>>
        /\ altered' = altered \/ (db_priv # NULL /\ altered' = altered \cup {db_priv})
    <3>1. CASE db_priv = NULL
      BY <1>7, <3>1 DEF add_vendor_tables
    <3>2. CASE db_priv # NULL
      BY <1>7, <3>2 DEF add_vendor_tables, alter_tables
    <3> QED
      BY <3>1, <3>2
  <2> QED
    BY <2>1 DEF ConnectionsOK
<1>8. CASE finalize_vendor_tables
  BY <1>8 DEF finalize_vendor_tables, connvars, ConnectionsOK
<1> QED
  BY <1>2, <1>3, <1>4, <1>5, <1>6, <1>7, <1>8

(* Every step accounts for the connections.                                *)
LEMMA ConnectionsKept ==
    ASSUME IInv, ConnectionsOK, [Next]_vars
    PROVE  ConnectionsOK'
<1>0. DbTypeOK /\ TypeOK
  BY DEF IInv, TypeOK
<1>1. ASSUME UNCHANGED handlevars, aborted => aborted' PROVE ConnectionsOK'
  BY <1>1 DEF ConnectionsOK, handlevars, connvars
<1>2. CASE MainNext
  <2>1. CASE PollOpenDb \/ PollOpening \/ PollAddTables \/ PollFinalize \/ PollCloseDb \/ PollClosing
    <3>1. UNCHANGED aborted
      BY <2>1 DEF PollOpenDb, PollOpening, PollAddTables, PollFinalize, PollCloseDb, PollClosing, MainGoto
    <3>2. PollOpenDb \/ PollOpening => db_priv = NULL
      BY DEF PollOpenDb, PollOpening, IInv, PollOK, PollStates
    <3>3. \/ opendb_count /\ (~aborted /\ db_ref_count = 0 => db_priv = NULL)
          \/ opendb_first /\ db_priv = NULL
          \/ opendb_fail \/ closedb_count \/ closedb_last
          \/ add_vendor_tables \/ finalize_vendor_tables
      BY <2>1, <3>2 DEF PollOpenDb, PollOpening, PollAddTables, PollFinalize, PollCloseDb, PollClosing
    <3> QED
      BY <1>0, <3>1, <3>3, DatabaseConnections
  <2>2. CASE \/ Setup \/ OpenPipes \/ Poll \/ ScanNotReady \/ ScanPage \/ ScanReadError \/ ScanEnd
            \/ PollReturn \/ MutexInit \/ CreateThread \/ CreateThreadFails \/ Join \/ Free \/ Exit
    <3>1. UNCHANGED handlevars /\ (aborted => aborted')
      BY <2>2 DEF Setup, OpenPipes, Poll, ScanNotReady, ScanPage, ScanReadError, ScanEnd, PollReturn,
         MutexInit, CreateThread, CreateThreadFails, Join, Free, Exit, MainGoto, dbvars
    <3> QED
      BY <1>1, <3>1
  <2> QED
    BY <1>2, <2>1, <2>2 DEF MainNext
<1>3. ASSUME NEW c \in CPUs, ThreadNext(c) PROVE ConnectionsOK'
  <2>1. CASE \/ ThreadOpenDb(c) \/ ThreadOpening(c) \/ ThreadAddTables(c)
            \/ ThreadFinalize(c) \/ ThreadCloseDb(c) \/ ThreadClosing(c)
    <3>1. UNCHANGED aborted /\ thr[c] \in LockedStates
      BY <2>1 DEF ThreadOpenDb, ThreadOpening, ThreadAddTables, ThreadFinalize, ThreadCloseDb,
         ThreadClosing, MainIdle, mainvars, LockedStates
    <3>2. RecordEvents /\ main \in ForkStates
      <4>1. thr[c] # "none"
        BY <3>1 DEF LockedStates
      <4>2. main \notin PollStates
        BY <4>1 DEF IInv, PollOK
      <4>3. ~Terminated
        BY <1>3 DEF ThreadNext, ThreadProgress
      <4>4. RecordEvents
        BY <3>1 DEF IInv, NoRecordOK, LockedStates
      <4> QED
        BY <1>0, <4>2, <4>3, <4>4 DEF TypeOK, MainStates, PollStates, ForkStates, Terminated
    <3>3. ThreadOpening(c) => db_priv = NULL
      BY <3>2 DEF ThreadOpening, IInv, CountOK
    <3>4. ThreadOpenDb(c) /\ ~aborted /\ db_ref_count = 0 => db_priv = NULL
      <4> SUFFICES ASSUME ThreadOpenDb(c), ~aborted, db_ref_count = 0, db_priv # NULL
                   PROVE  FALSE
        OBVIOUS
      <4>1. PICK d \in CPUs : thr[d] = "closing"
        BY <3>2 DEF IInv, ExactOK
      <4>2. thr[c] = "opendb"
        BY DEF ThreadOpenDb
      <4>3. db_lock = c /\ db_lock = d
        BY <4>1, <4>2 DEF IInv, LockOK, LockedStates
      <4> QED
        BY <4>1, <4>2, <4>3
    <3>5. \/ opendb_count /\ (~aborted /\ db_ref_count = 0 => db_priv = NULL)
          \/ opendb_first /\ db_priv = NULL
          \/ opendb_fail \/ closedb_count \/ closedb_last
          \/ add_vendor_tables \/ finalize_vendor_tables
      BY <2>1, <3>3, <3>4 DEF ThreadOpenDb, ThreadOpening, ThreadAddTables, ThreadFinalize, ThreadCloseDb,
         ThreadClosing
    <3> QED
      BY <1>0, <3>1, <3>5, DatabaseConnections
  <2>2. CASE \/ ThreadOpenPipe(c) \/ ThreadLockOpen(c) \/ ThreadRead(c) \/ ThreadHandle(c) \/ ThreadStore(c)
            \/ ThreadLockClose(c) \/ ThreadCancelled(c) \/ ThreadReadError(c)
    <3>1. UNCHANGED handlevars /\ (aborted => aborted')
      BY <2>2 DEF ThreadOpenPipe, ThreadLockOpen, ThreadRead, ThreadHandle, ThreadStore, ThreadLockClose,
         ThreadCancelled, ThreadReadError, MainIdle, mainvars, dbvars
    <3> QED
      BY <1>1, <3>1
  <2> QED
    BY <1>3, <2>1, <2>2 DEF ThreadNext, ThreadProgress
<1>4. CASE \/ \E c \in CPUs : KernelEvent(c)
          \/ SendSignal \/ Kill \/ Done \/ UNCHANGED vars
  <2>1. UNCHANGED handlevars /\ (aborted => aborted')
    BY <1>4 DEF KernelEvent, SendSignal, Kill, Done, MainIdle, MainGoto, mainvars, vars, dbvars
  <2> QED
    BY <1>1, <2>1
<1> QED
  BY <1>2, <1>3, <1>4 DEF Next

(* Both are invariants.                                                    *)
LEMMA RowsAndConnections == Spec => [](IInv /\ HandledIsRecorded /\ ConnectionsOK)
<1>1. Init => HandledIsRecorded /\ ConnectionsOK
  BY DEF Init, DbInit, HandledIsRecorded, ConnectionsOK
<1>2. IInv /\ HandledIsRecorded /\ ConnectionsOK /\ [Next]_vars => HandledIsRecorded' /\ ConnectionsOK'
  BY RowsKept, ConnectionsKept
<1> QED
  BY <1>1, <1>2, IInvHolds, PTL DEF Spec

-----------------------------------------------------------------------------
(* The theorems.                                                           *)

(* Every variable of the event loop keeps its type, the counts of the      *)
(* database and of the vendor statements included: they never go below     *)
(* zero.                                                                   *)
THEOREM EventLoopTypes == Spec => []TypeOK
<1>1. IInv => TypeOK
  BY DEF IInv
<1> QED
  BY <1>1, IInvHolds, PTL

(* However many threads open, use and close the database, a handler that   *)
(* copied ras->db_priv still finds that database open when it writes.      *)
THEOREM NoThreadUsesAClosedDatabase == Spec => []NoStaleHandle
<1>1. IInv => NoStaleHandle
  BY DEF IInv
<1> QED
  BY <1>1, IInvHolds, PTL

(* With --record, and as long as no open failed, every event handed to a   *)
(* handler is written to the database, in poll mode and in the fallback,   *)
(* unless its sqlite3_step fails or its table could not be created when    *)
(* the database was opened.                                                *)
THEOREM EveryHandledEventIsRecorded == Spec => []HandledIsRecorded
BY RowsAndConnections, PTL

(* Vendor statements belong to an open database, and a daemon that ends    *)
(* without a failed pthread_create has finalized the vendors' statements,  *)
(* given up the handle and closed every connection but those of failed     *)
(* opens and those that an altered table left a SELECT on.                 *)
THEOREM EverythingIsClosed == Spec => []CleanClose
<1>1. IInv /\ ConnectionsOK => CleanClose
  BY DEF IInv, StatementsOK, ConnectionsOK, CleanClose
<1> QED
  BY <1>1, RowsAndConnections, PTL

(* Nothing is freed under a running thread unless creating one failed.     *)
THEOREM NothingFreedUnderAThread == Spec => []FreedWhenQuiet
<1>1. IInv => FreedWhenQuiet
  BY DEF IInv
<1> QED
  BY <1>1, IInvHolds, PTL
=============================================================================
