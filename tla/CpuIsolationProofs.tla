------------------------- MODULE CpuIsolationProofs -------------------------
(***************************************************************************)
(* The CPU policy, for every number of CPUs, every setting, every error    *)
(* and every change users make to CPU states between two looks of the      *)
(* daemon: the limit on isolated CPUs holds, and a CPU is isolated exactly *)
(* for the corrected errors of the last cycle.                             *)
(***************************************************************************)
EXTENDS CpuIsolation, FiniteSetTheorems, WellFoundedInduction, TLAPS

(* The part of the state the limit depends on; the queues of errors only   *)
(* decide whether a CPU is to be isolated, never whether it may be.        *)
StatesOK ==
    /\ online \in [CPUs -> BOOLEAN]
    /\ pc \in {"idle", "limit", "handle", "write", "verify", "segfault"}
    /\ cur \in [cpu : CPUs, type : {CE, UCE}]
    /\ toggles \in Nat

(* The CPUs offline are those the daemon may isolate and those of users.   *)
WithinLimit == Cardinality(Offline) <= cpu_limit + toggles

(* From the check of the limit to the write, which come one after the      *)
(* other with users in between, one more CPU may go offline.               *)
RoomForOne == pc \in {"handle", "write"} => Cardinality(Offline) + 1 <= cpu_limit + toggles

LimitInv == StatesOK /\ WithinLimit /\ RoomForOne

-----------------------------------------------------------------------------
(* cpu_limit is at most what is configured and leaves one CPU.             *)
(* (init_cpu_info, check_config)                                           *)
LEMMA LimitIsCut ==
    /\ cpu_limit \in Nat /\ NCORES \in Nat \ {0}
    /\ cpu_limit <= ConfLimit /\ cpu_limit <= NCORES - 1
<1>1. NCORES \in Nat /\ NCORES # 0
  BY CpuConstants, FS_CardinalityType, FS_EmptySet DEF NCORES
<1> QED
  BY <1>1, CpuConstants DEF cpu_limit, check_config

(* The number of offline CPUs is a number.                                 *)
LEMMA OfflineFinite == IsFiniteSet(Offline) /\ Cardinality(Offline) \in Nat
<1>1. Offline \subseteq CPUs
  BY DEF Offline
<1> QED
  BY <1>1, CpuConstants, FS_Subset, FS_CardinalityType

(* Whoever writes to cpu<c>/online changes the number of offline CPUs by   *)
(* at most one.                                                            *)
LEMMA OneMoreOffline ==
    ASSUME StatesOK, NEW c \in CPUs, NEW b \in BOOLEAN,
           online' = [online EXCEPT ![c] = b]
    PROVE  Cardinality(Offline') <= Cardinality(Offline) + 1
<1>1. Offline' \subseteq Offline \cup {c}
  BY DEF Offline, StatesOK
<1>2. IsFiniteSet(Offline \cup {c})
  BY OfflineFinite, FS_AddElement
<1>3. /\ Cardinality(Offline') <= Cardinality(Offline \cup {c})
      /\ IsFiniteSet(Offline')
  BY <1>1, <1>2, FS_Subset
<1>4. /\ Cardinality(Offline \cup {c}) <= Cardinality(Offline) + 1
      /\ Cardinality(Offline \cup {c}) \in Nat
  BY OfflineFinite, FS_AddElement, <1>2, FS_CardinalityType
<1>5. Cardinality(Offline') \in Nat
  BY <1>3, FS_CardinalityType
<1> QED
  BY <1>3, <1>4, <1>5, OfflineFinite

-----------------------------------------------------------------------------
(* init_cpu_info: the CPUs offline at the start are the users'.            *)
LEMMA InitLimit == Init => LimitInv
<1> SUFFICES ASSUME Init PROVE LimitInv
  OBVIOUS
<1>1. StatesOK
  BY CpuConstants, OfflineFinite DEF Init, StatesOK, CE, UCE
<1>2. WithinLimit /\ RoomForOne
  BY OfflineFinite, LimitIsCut DEF Init, WithinLimit, RoomForOne
<1> QED
  BY <1>1, <1>2 DEF LimitInv

(* Every step of the daemon and of users keeps the limit.                  *)
LEMMA NextLimit == LimitInv /\ [Next]_vars => LimitInv'
<1> SUFFICES ASSUME LimitInv, [Next]_vars PROVE LimitInv'
  OBVIOUS
<1> USE DEF LimitInv
<1>1. ASSUME UNCHANGED <<online, toggles>>, StatesOK',
             pc' \in {"handle", "write"} => pc \in {"handle", "write"}
      PROVE  LimitInv'
  <2>1. Offline' = Offline
    BY <1>1 DEF Offline
  <2> QED
    BY <1>1, <2>1 DEF WithinLimit, RoomForOne, cpu_limit, NCORES
<1>2. CASE UNCHANGED vars
  BY <1>1, <1>2 DEF vars, StatesOK
<1>3. ASSUME NEW c \in CPUs, NEW sev \in {CE, UCE}, NEW rep \in Reports, NEW t \in 0..MaxTime,
             ras_record_cpu_error(c, sev, rep, t)
      PROVE  LimitInv'
  <2>1. /\ UNCHANGED <<online, toggles>> /\ pc = "idle" /\ pc' \in {"idle", "limit"}
        /\ cur' = cur \/ cur' = [cpu |-> c, type |-> sev]
    BY <1>3 DEF ras_record_cpu_error
  <2>2. StatesOK'
    BY <2>1 DEF StatesOK
  <2> QED
    BY <1>1, <2>1, <2>2
<1>4. ASSUME NEW c \in CPUs, RecordReriError(c) PROVE LimitInv'
  <2>1. UNCHANGED <<online, toggles, cur>> /\ pc = "idle" /\ pc' \in {"idle", "segfault"}
    BY <1>4 DEF RecordReriError
  <2>2. StatesOK'
    BY <2>1 DEF StatesOK
  <2> QED
    BY <1>1, <2>1, <2>2
<1>5. ASSUME NEW c \in CPUs, Toggle(c) PROVE LimitInv'
  <2>1. /\ toggles' = toggles + 1 /\ UNCHANGED <<pc, cur>>
        /\ online' = [online EXCEPT ![c] = ~online[c]]
    BY <1>5 DEF Toggle
  <2>2. StatesOK'
    BY <2>1 DEF StatesOK
  <2>3. Cardinality(Offline') <= Cardinality(Offline) + 1
    BY <2>1, OneMoreOffline DEF StatesOK
  <2>4. Cardinality(Offline) \in Nat /\ Cardinality(Offline') \in Nat
    BY OfflineFinite, FS_Subset, FS_CardinalityType, CpuConstants DEF Offline
  <2> QED
    BY <2>1, <2>2, <2>3, <2>4, LimitIsCut
    DEF WithinLimit, RoomForOne, StatesOK, cpu_limit, NCORES
<1>6. CASE CheckLimit
  <2>1. /\ UNCHANGED <<online, toggles, cur>>
        /\ pc' = IF Cardinality(Offline) >= cpu_limit THEN "idle" ELSE "handle"
    BY <1>6 DEF CheckLimit
  <2>2. StatesOK'
    BY <2>1 DEF StatesOK
  <2>3. Offline' = Offline
    BY <2>1 DEF Offline
  <2>4. WithinLimit'
    BY <2>1, <2>3 DEF WithinLimit, cpu_limit, NCORES
  <2>5. ASSUME pc' = "handle" PROVE Cardinality(Offline) + 1 <= cpu_limit + toggles
    BY <2>1, <2>5, OfflineFinite, LimitIsCut DEF StatesOK
  <2>6. RoomForOne'
    BY <2>1, <2>3, <2>5 DEF RoomForOne, cpu_limit, NCORES
  <2> QED
    BY <2>2, <2>4, <2>6
<1>7. CASE error_handler
  <2>1. UNCHANGED <<online, toggles, cur>> /\ pc = "handle" /\ pc' \in {"idle", "write"}
    BY <1>7 DEF error_handler
  <2>2. StatesOK'
    BY <2>1 DEF StatesOK
  <2> QED
    BY <1>1, <2>1, <2>2
<1>8. CASE WriteOffline
  <2>1. CASE UNCHANGED online /\ pc' = "idle"
    BY <1>1, <1>8, <2>1 DEF WriteOffline, StatesOK
  <2>2. CASE online' = [online EXCEPT ![cur.cpu] = FALSE] /\ pc' = "verify"
    <3>1. UNCHANGED <<toggles, cur>> /\ pc = "write"
      BY <1>8 DEF WriteOffline
    <3>2. StatesOK'
      BY <2>2, <3>1 DEF StatesOK
    <3>3. Cardinality(Offline') <= Cardinality(Offline) + 1
      BY <2>2, OneMoreOffline DEF StatesOK
    <3>4. Cardinality(Offline) \in Nat /\ Cardinality(Offline') \in Nat
      BY OfflineFinite, FS_Subset, FS_CardinalityType, CpuConstants DEF Offline
    <3>5. WithinLimit'
      BY <3>1, <3>3, <3>4, LimitIsCut DEF WithinLimit, RoomForOne, StatesOK, cpu_limit, NCORES
    <3> QED
      BY <2>2, <3>2, <3>5 DEF RoomForOne
  <2> QED
    BY <1>8, <2>1, <2>2 DEF WriteOffline
<1>9. CASE Verify
  <2>1. UNCHANGED <<online, toggles, cur>> /\ pc' = "idle"
    BY <1>9 DEF Verify
  <2>2. StatesOK'
    BY <2>1 DEF StatesOK
  <2> QED
    BY <1>1, <2>1, <2>2
<1> QED
  BY <1>2, <1>3, <1>4, <1>5, <1>6, <1>7, <1>8, <1>9 DEF Next

(* The daemon never has more than CPU_ISOLATION_LIMIT CPUs offline and     *)
(* always leaves one running, except for what users changed themselves:    *)
(* the check of the limit still holds when do_cpu_offline writes, because  *)
(* in between only users change CPU states.  (ras_record_cpu_error)        *)
THEOREM LimitHolds == Spec => []LimitKept
<1>1. LimitInv => LimitKept
  <2> SUFFICES ASSUME LimitInv PROVE LimitKept
    OBVIOUS
  <2>1. Cardinality(Offline) <= cpu_limit + toggles /\ toggles \in Nat
    BY DEF LimitInv, WithinLimit, StatesOK
  <2> QED
    BY <2>1, LimitIsCut, OfflineFinite, CpuConstants DEF LimitKept
<1> QED
  BY InitLimit, NextLimit, <1>1, PTL DEF Spec

-----------------------------------------------------------------------------
(* Sums.  They are recursive functions; what they compute is proved by     *)
(* induction on the length, in the form of a smallest counterexample.      *)

(* A set of numbers has a smallest one.                                    *)
LEMMA Smallest == ASSUME NEW S \in SUBSET Nat, S # {} PROVE \E x \in S : \A y \in S : x <= y
<1>1. PICK x \in S : \A y \in S : ~(<<y, x>> \in OpToRel(<, Nat))
  BY NatLessThanWellFounded, WFMin
<1>2. \A y \in S : ~(y < x)
  BY <1>1 DEF OpToRel
<1> QED
  BY <1>2

(* Induction up to L, over a set that stands for the predicate.            *)
LEMMA Induction ==
    ASSUME NEW L \in Nat, NEW S, 0 \in S, \A n \in 0..L : n \in S /\ n < L => n + 1 \in S
    PROVE  \A n \in 0..L : n \in S
<1> DEFINE out == (0..L) \ S
<1> SUFFICES ASSUME out # {} PROVE FALSE
  OBVIOUS
<1>1. out \in SUBSET Nat
  OBVIOUS
<1>2. PICK x \in out : \A y \in out : x <= y
  BY <1>1, Smallest
<1>3. x # 0 /\ x - 1 \in 0..L /\ x \in 0..L
  BY <1>2
<1>4. x - 1 \in S
  BY <1>2, <1>3
<1>5. (x - 1) + 1 \in S
  BY <1>3, <1>4
<1> QED
  BY <1>2, <1>3, <1>5

(* A set of positions that has all positions before each of its own is a   *)
(* beginning of the list.                                                  *)
LEMMA Beginning ==
    ASSUME NEW L \in Nat, NEW D \in SUBSET (1..L), \A n \in D : \A m \in 1..n : m \in D
    PROVE  Cardinality(D) \in 0..L /\ D = 1..Cardinality(D)
<1>1. \E c \in 0..L : D = 1..c
  <2>1. CASE D = 1..L
    BY <2>1
  <2>2. CASE D # 1..L
    <3> DEFINE out == (1..L) \ D
    <3>1. out \in SUBSET Nat
      OBVIOUS
    <3>4. out # {}
      BY <2>2
    <3>2. PICK x \in out : \A y \in out : x <= y
      BY <3>1, <3>4, Smallest
    <3>5. x \in 1..L /\ x \notin D
      BY <3>2
    <3>6. ASSUME NEW n \in D PROVE n < x
      <4>1. n \in 1..L
        OBVIOUS
      <4>2. CASE x <= n
        BY <3>5, <4>1, <4>2
      <4> QED
        BY <3>5, <4>1, <4>2
    <3>7. ASSUME NEW n \in 1..(x - 1) PROVE n \in D
      BY <3>2, <3>5
    <3>8. D \subseteq 1..(x - 1)
      BY <3>5, <3>6
    <3>9. 1..(x - 1) \subseteq D
      BY <3>7
    <3>3. D = 1..(x - 1)
      BY <3>8, <3>9
    <3> QED
      BY <3>2, <3>3
  <2> QED
    BY <2>1, <2>2
<1>2. PICK c \in 0..L : D = 1..c
  BY <1>1
<1>3. Cardinality(1..c) = c
  BY <1>2, FS_Interval
<1> QED
  BY <1>2, <1>3

(* The function f has the sums of the first L numbers of c.                *)
Sums(f, L, c) ==
    /\ f \in [0..L -> Nat] /\ f[0] = 0
    /\ \A n \in 1..L : c[n] \in Nat /\ f[n] = f[n - 1] + c[n]

(* There is such a function.                                               *)
LEMMA SumsExist ==
    ASSUME NEW L \in Nat, NEW c, \A n \in 1..L : c[n] \in Nat
    PROVE  \E f : Sums(f, L, c)
<1> DEFINE S == {m \in 0..L : \E f : Sums(f, m, c)}
<1>1. 0 \in S
  <2>1. Sums([n \in 0..0 |-> 0], 0, c)
    BY DEF Sums
  <2> QED
    BY <2>1
<1>2. ASSUME NEW m \in 0..L, m \in S, m < L PROVE m + 1 \in S
  <2>1. PICK f : Sums(f, m, c)
    BY <1>2
  <2> DEFINE g == [n \in 0..(m + 1) |-> IF n = m + 1 THEN f[m] + c[m + 1] ELSE f[n]]
  <2>2. c[m + 1] \in Nat /\ f[m] \in Nat /\ f[0] = 0 /\ m \in Nat
    BY <1>2, <2>1 DEF Sums
  <2>3. g \in [0..(m + 1) -> Nat]
    BY <1>2, <2>1, <2>2 DEF Sums
  <2>4. g[0] = 0
    BY <2>2
  <2>5. ASSUME NEW n \in 1..(m + 1) PROVE c[n] \in Nat /\ g[n] = g[n - 1] + c[n]
    <3>1. CASE n = m + 1
      BY <2>2, <3>1
    <3>2. CASE n # m + 1
      <4>1. n \in 1..m /\ n \in 0..(m + 1) /\ n - 1 \in 0..(m + 1) /\ n - 1 # m + 1
        BY <2>2, <3>2
      <4>2. f[n] = f[n - 1] + c[n] /\ c[n] \in Nat
        BY <2>1, <4>1 DEF Sums
      <4> QED
        BY <3>2, <4>1, <4>2
    <3> QED
      BY <3>1, <3>2
  <2> HIDE DEF g
  <2>6. Sums(g, m + 1, c)
    BY <2>3, <2>4, <2>5 DEF Sums
  <2> QED
    BY <1>2, <2>6
<1> HIDE DEF S
<1>3. \A n \in 0..L : n \in S
  BY <1>1, <1>2, Induction
<1> QED
  BY <1>3 DEF S

(* It is the one that SumTo chooses.                                       *)
LEMMA SumToIs ==
    ASSUME NEW L \in Nat, NEW c, \A n \in 1..L : c[n] \in Nat
    PROVE  \E f : Sums(f, L, c) /\ SumTo(c, L) = f[L]
<1> DEFINE R(f) == f = [m \in 0..L |-> IF m = 0 THEN 0 ELSE f[m-1] + c[m]]
           s == CHOOSE f : R(f)
<1>1. PICK g : Sums(g, L, c)
  BY SumsExist
<1>2. R(g)
  BY <1>1 DEF Sums
<1>3. R(s)
  BY <1>2
<1>4. SumTo(c, L) = s[L]
  BY DEF SumTo
<1> HIDE DEF s
<1>5. s[0] = 0 /\ \A n \in 1..L : s[n] = s[n - 1] + c[n]
  BY <1>3
<1> DEFINE S == {n \in 0..L : s[n] = g[n] /\ s[n] \in Nat}
<1>6. 0 \in S
  BY <1>1, <1>5 DEF Sums
<1>7. ASSUME NEW n \in 0..L, n \in S, n < L PROVE n + 1 \in S
  <2>1. n + 1 \in 1..L /\ (n + 1) - 1 = n
    BY <1>7
  <2>2. s[n + 1] = s[n] + c[n + 1] /\ g[n + 1] = g[n] + c[n + 1] /\ g[n + 1] \in Nat
    BY <1>1, <1>5, <2>1 DEF Sums
  <2> QED
    BY <1>7, <2>1, <2>2
<1> HIDE DEF S
<1>8. \A n \in 0..L : n \in S
  BY <1>6, <1>7, Induction
<1>9. s[L] = g[L]
  BY <1>8 DEF S
<1> QED
  BY <1>1, <1>4, <1>9

(* A sum of numbers is a number.                                           *)
LEMMA SumNat ==
    ASSUME NEW L \in Nat, NEW c, \A n \in 1..L : c[n] \in Nat
    PROVE  SumTo(c, L) \in Nat
<1>1. PICK f : Sums(f, L, c) /\ SumTo(c, L) = f[L]
  BY SumToIs
<1> QED
  BY <1>1 DEF Sums

(* Equal numbers have equal sums.                                          *)
LEMMA SumSame ==
    ASSUME NEW L \in Nat, NEW c, NEW d, \A n \in 1..L : c[n] \in Nat /\ d[n] = c[n]
    PROVE  SumTo(d, L) = SumTo(c, L)
<1>1. PICK f : Sums(f, L, c) /\ SumTo(c, L) = f[L]
  BY SumToIs
<1>2. PICK g : Sums(g, L, d) /\ SumTo(d, L) = g[L]
  BY SumToIs
<1> DEFINE S == {n \in 0..L : f[n] = g[n]}
<1>3. 0 \in S
  BY <1>1, <1>2 DEF Sums
<1>4. ASSUME NEW n \in 0..L, n \in S, n < L PROVE n + 1 \in S
  <2>1. n + 1 \in 1..L /\ (n + 1) - 1 = n
    BY <1>4
  <2>2. f[n + 1] = f[n] + c[n + 1] /\ g[n + 1] = g[n] + d[n + 1]
    BY <1>1, <1>2, <2>1 DEF Sums
  <2> QED
    BY <1>4, <2>1, <2>2
<1> HIDE DEF S
<1>5. \A n \in 0..L : n \in S
  BY <1>3, <1>4, Induction
<1>6. f[L] = g[L]
  BY <1>5 DEF S
<1> QED
  BY <1>1, <1>2, <1>6

(* Nothing but zeros.                                                      *)
LEMMA SumOfZeros ==
    ASSUME NEW L \in Nat, NEW c, \A n \in 1..L : c[n] = 0
    PROVE  SumTo(c, L) = 0
<1>1. PICK f : Sums(f, L, c) /\ SumTo(c, L) = f[L]
  BY SumToIs
<1> DEFINE S == {n \in 0..L : f[n] = 0}
<1>2. 0 \in S
  BY <1>1 DEF Sums
<1>3. ASSUME NEW n \in 0..L, n \in S, n < L PROVE n + 1 \in S
  <2>1. n + 1 \in 1..L /\ (n + 1) - 1 = n
    BY <1>3
  <2>2. f[n + 1] = f[n] + c[n + 1]
    BY <1>1, <2>1 DEF Sums
  <2> QED
    BY <1>3, <2>1, <2>2
<1> HIDE DEF S
<1>4. \A n \in 0..L : n \in S
  BY <1>2, <1>3, Induction
<1>5. f[L] = 0
  BY <1>4 DEF S
<1> QED
  BY <1>1, <1>5

(* The numbers d are those of c from K on.                                 *)
Later(d, c, K, M) == \A n \in 1..M : d[n] = c[K + n]

(* A sum is that of the first K numbers and of those after them.           *)
LEMMA SumSplit ==
    ASSUME NEW K \in Nat, NEW M \in Nat, NEW c, NEW d,
           \A n \in 1..(K + M) : c[n] \in Nat, Later(d, c, K, M)
    PROVE  SumTo(c, K + M) = SumTo(c, K) + SumTo(d, M)
<1>0. /\ \A n \in 1..K : c[n] \in Nat
      /\ \A n \in 1..M : d[n] \in Nat
  <2>1. ASSUME NEW n \in 1..M PROVE K + n \in 1..(K + M)
    OBVIOUS
  <2> QED
    BY <2>1 DEF Later
<1>1. PICK f : Sums(f, K + M, c) /\ SumTo(c, K + M) = f[K + M]
  <2>1. K + M \in Nat
    OBVIOUS
  <2> QED
    BY <2>1, SumToIs
<1>2. PICK g : Sums(g, M, d) /\ SumTo(d, M) = g[M]
  BY <1>0, SumToIs
<1>3. PICK h : Sums(h, K, c) /\ SumTo(c, K) = h[K]
  BY <1>0, SumToIs
<1> DEFINE S == {n \in 0..K : f[n] = h[n]}
<1>4. 0 \in S
  BY <1>1, <1>3 DEF Sums
<1>5. ASSUME NEW n \in 0..K, n \in S, n < K PROVE n + 1 \in S
  <2>1. n + 1 \in 1..K /\ n + 1 \in 1..(K + M) /\ (n + 1) - 1 = n
    BY <1>5
  <2>2. f[n + 1] = f[n] + c[n + 1] /\ h[n + 1] = h[n] + c[n + 1]
    BY <1>1, <1>3, <2>1 DEF Sums
  <2> QED
    BY <1>5, <2>1, <2>2
<1> HIDE DEF S
<1>6. \A n \in 0..K : n \in S
  BY <1>4, <1>5, Induction
<1>7. f[K] = h[K]
  BY <1>6 DEF S
<1> DEFINE T == {n \in 0..M : f[K + n] = f[K] + g[n]}
<1>8. 0 \in T
  BY <1>1, <1>2 DEF Sums
<1>9. ASSUME NEW n \in 0..M, n \in T, n < M PROVE n + 1 \in T
  <2>1. /\ n + 1 \in 1..M /\ K + (n + 1) \in 1..(K + M) /\ (n + 1) - 1 = n
        /\ (K + (n + 1)) - 1 = K + n
    BY <1>9
  <2>2. f[K + (n + 1)] = f[K + n] + c[K + (n + 1)] /\ g[n + 1] = g[n] + d[n + 1]
    BY <1>1, <1>2, <2>1 DEF Sums
  <2>3. d[n + 1] = c[K + (n + 1)] /\ d[n + 1] \in Nat
    BY <1>0, <2>1 DEF Later
  <2>4. f[K] \in Nat /\ g[n] \in Nat
    BY <1>1, <1>2, <1>9 DEF Sums
  <2> QED
    BY <1>9, <2>1, <2>2, <2>3, <2>4
<1> HIDE DEF T
<1>10. \A n \in 0..M : n \in T
  BY <1>8, <1>9, Induction
<1>11. f[K + M] = f[K] + g[M]
  BY <1>10 DEF T
<1> QED
  BY <1>1, <1>2, <1>3, <1>7, <1>11

(* One number more.                                                        *)
LEMMA SumGrows ==
    ASSUME NEW L \in Nat, NEW c, NEW d, NEW x \in Nat,
           \A n \in 1..L : c[n] \in Nat /\ d[n] = c[n], d[L + 1] = x
    PROVE  SumTo(d, L + 1) = SumTo(c, L) + x
<1>1. \A n \in 1..(L + 1) : d[n] \in Nat
  <2> SUFFICES ASSUME NEW n \in 1..(L + 1) PROVE d[n] \in Nat
    OBVIOUS
  <2>1. n = L + 1 \/ n \in 1..L
    OBVIOUS
  <2> QED
    BY <2>1
<1>2. PICK f : Sums(f, L + 1, d) /\ SumTo(d, L + 1) = f[L + 1]
  BY <1>1, SumToIs
<1>4. PICK g : Sums(g, L, c) /\ SumTo(c, L) = g[L]
  BY SumToIs
<1> DEFINE S == {n \in 0..L : f[n] = g[n]}
<1>5. 0 \in S
  BY <1>2, <1>4 DEF Sums
<1>6. ASSUME NEW n \in 0..L, n \in S, n < L PROVE n + 1 \in S
  <2>1. n + 1 \in 1..L /\ n + 1 \in 1..(L + 1) /\ (n + 1) - 1 = n
    BY <1>6
  <2>2. f[n + 1] = f[n] + d[n + 1] /\ g[n + 1] = g[n] + c[n + 1]
    BY <1>2, <1>4, <2>1 DEF Sums
  <2> QED
    BY <1>6, <2>1, <2>2
<1> HIDE DEF S
<1>7. \A n \in 0..L : n \in S
  BY <1>5, <1>6, Induction
<1>8. f[L] = g[L]
  BY <1>7 DEF S
<1>9. f[L + 1] = f[L] + d[L + 1]
  BY <1>2 DEF Sums
<1> QED
  BY <1>2, <1>4, <1>8, <1>9

-----------------------------------------------------------------------------
(* The queue of corrected errors of a CPU.                                 *)

\* The record counts what is in its queue.
Counted(ci) == ci.ce_nums = SumTo(Values(ci.ce_queue), Len(ci.ce_queue))

\* Events came in time order, the last of them at t or before.
InOrder(h, t) ==
    /\ \A m, n \in 1..Len(h) : m <= n => h[m].time <= h[n].time
    /\ \A n \in 1..Len(h) : h[n].time <= t

\* The queue q is the history h without its first D events, and those are
\* out of the cycle of the last.
Ends(q, h, D) ==
    /\ Len(h) = D + Len(q)
    /\ \A n \in 1..Len(q) : q[n] = h[D + n]
    /\ \A n \in 1..D : h[Len(h)].time - h[n].time > Cycle

Tracks(ci, h, t) == InOrder(h, t) /\ \E D \in Nat : Ends(ci.ce_queue, h, D)

(* The errors of a queue are numbers.                                      *)
LEMMA ValuesNat ==
    ASSUME NEW q \in Seq(Node)
    PROVE  /\ Len(q) \in Nat /\ DOMAIN q = 1..Len(q)
           /\ \A n \in 1..Len(q) : /\ q[n].time \in Nat /\ q[n].value \in Nat
                                   /\ Values(q)[n] = q[n].value
<1>1. Len(q) \in Nat /\ DOMAIN q = 1..Len(q)
  OBVIOUS
<1>2. ASSUME NEW n \in 1..Len(q) PROVE q[n] \in Node
  OBVIOUS
<1> QED
  BY <1>1, <1>2 DEF Node, Values

(* Types of a record, field by field.                                      *)
LEMMA InfoFields ==
    ASSUME NEW ci
    PROVE  ci \in CpuInfo =>
               /\ ci.state \in CpuStates /\ ci.ce_nums \in Nat /\ ci.uce_nums \in Nat
               /\ ci.ce_queue \in Seq(Node)
  BY DEF CpuInfo

(* An error is queued.  (record_error_info)                                *)
LEMMA Queued ==
    ASSUME NEW ci \in CpuInfo, NEW x \in CpuInfo, NEW t \in Nat, NEW nums \in Nat, Counted(ci),
           x.ce_queue = Append(ci.ce_queue, [time |-> t, value |-> nums]),
           x.ce_nums = ci.ce_nums + nums
    PROVE  /\ Counted(x) /\ Len(x.ce_queue) > 0
           /\ \A h \in Seq(Node), last \in Nat :
                  Tracks(ci, h, last) /\ last <= t =>
                      Tracks(x, Append(h, [time |-> t, value |-> nums]), t)
<1> DEFINE e == [time |-> t, value |-> nums]
           q == ci.ce_queue
           r == x.ce_queue
           L == Len(q)
<1>0. e \in Node /\ e.time = t /\ e.value = nums
  BY DEF Node
<1>1. q \in Seq(Node) /\ r \in Seq(Node) /\ L \in Nat /\ ci.ce_nums \in Nat
  BY InfoFields
<1> HIDE DEF e
<1>2. r = Append(q, e) /\ Len(r) = L + 1 /\ r[L + 1] = e /\ \A n \in 1..L : r[n] = q[n]
  <2>1. r = Append(q, e)
    BY DEF e
  <2> HIDE DEF q, r
  <2> QED
    BY <1>0, <1>1, <2>1
<1> HIDE DEF q, r, L
<1>3. L = Len(q)
  BY DEF L
<1>4. Counted(x)
  <2>1. \A n \in 1..L : Values(q)[n] \in Nat /\ Values(r)[n] = Values(q)[n]
    <3> SUFFICES ASSUME NEW n \in 1..L PROVE Values(q)[n] \in Nat /\ Values(r)[n] = Values(q)[n]
      OBVIOUS
    <3>1. n \in 1..Len(r)
      BY <1>1, <1>2
    <3> QED
      BY <1>1, <1>2, <1>3, <3>1, ValuesNat
  <2>2. Values(r)[L + 1] = nums
    <3>1. L + 1 \in 1..Len(r)
      BY <1>1, <1>2
    <3> QED
      BY <1>0, <1>1, <1>2, <3>1, ValuesNat
  <2>3. SumTo(Values(r), L + 1) = SumTo(Values(q), L) + nums
    BY <1>1, <2>1, <2>2, SumGrows
  <2> QED
    BY <1>2, <1>3, <2>3 DEF Counted, q, r
<1>5. ASSUME NEW h \in Seq(Node), NEW last \in Nat, Tracks(ci, h, last), last <= t
      PROVE  Tracks(x, Append(h, e), t)
  <2> DEFINE g == Append(h, e)
             M == Len(h)
  <2>1. /\ M \in Nat /\ Len(g) = M + 1 /\ g[M + 1] = e
        /\ \A n \in 1..M : g[n] = h[n] /\ h[n].time \in Nat
    BY <1>0, ValuesNat
  <2> HIDE DEF g, M
  <2>2. PICK D \in Nat : Ends(q, h, D)
    BY <1>5 DEF Tracks, q
  <2>3. InOrder(h, last)
    BY <1>5 DEF Tracks
  <2>4. \A n \in 1..(M + 1) : n = M + 1 \/ n \in 1..M
    BY <2>1
  <2>5. \A n \in 1..M : g[n].time <= last
    BY <2>1, <2>3 DEF InOrder, M
  <2>6. InOrder(g, t)
    <3>1. ASSUME NEW n \in 1..Len(g) PROVE g[n].time <= t
      <4>1. CASE n = M + 1
        BY <1>0, <2>1, <4>1
      <4>2. CASE n \in 1..M
        BY <1>5, <2>1, <2>5, <4>2
      <4> QED
        BY <2>1, <2>4, <4>1, <4>2
    <3>2. ASSUME NEW m \in 1..Len(g), NEW n \in 1..Len(g), m <= n
          PROVE  g[m].time <= g[n].time
      <4>1. CASE n = M + 1
        BY <1>0, <2>1, <3>1, <4>1
      <4>2. CASE n \in 1..M
        <5>1. m \in 1..M
          BY <2>1, <3>2, <4>2
        <5>2. h[m].time <= h[n].time
          BY <2>3, <3>2, <4>2, <5>1 DEF InOrder, M
        <5> QED
          BY <2>1, <4>2, <5>1, <5>2
      <4> QED
        BY <2>1, <2>4, <4>1, <4>2
    <3> QED
      BY <3>1, <3>2 DEF InOrder
  <2>7. M = D + L
    BY <1>3, <2>2 DEF Ends, M
  <2>8. ASSUME NEW n \in 1..Len(r) PROVE r[n] = g[D + n]
    <3>1. CASE n = L + 1
      BY <1>1, <1>2, <2>1, <2>7, <3>1
    <3>2. CASE n # L + 1
      <4>1. n \in 1..L /\ D + n \in 1..M
        BY <1>1, <1>2, <2>7, <3>2
      <4>2. q[n] = h[D + n]
        BY <1>3, <2>2, <4>1 DEF Ends
      <4> QED
        BY <1>2, <2>1, <4>1, <4>2
    <3> QED
      BY <3>1, <3>2
  <2>9. ASSUME NEW n \in 1..D PROVE g[Len(g)].time - g[n].time > Cycle
    <3>1. n \in 1..M /\ M \in 1..M
      BY <1>1, <2>7
    <3>2. h[M].time - h[n].time > Cycle
      BY <2>2 DEF Ends, M
    <3>3. h[M].time <= t
      BY <1>5, <2>1, <2>5, <3>1
    <3> QED
      BY <1>0, <2>1, <3>1, <3>2, <3>3, CpuConstants
  <2>10. Len(g) = D + Len(r)
    BY <1>1, <1>2, <2>1, <2>7
  <2>11. Ends(r, g, D)
    BY <2>8, <2>9, <2>10 DEF Ends
  <2> QED
    BY <2>6, <2>11 DEF Tracks, g, r
<1> QED
  BY <1>1, <1>2, <1>4, <1>5 DEF e, r

(* What the loop of do_ce_handler leaves: the errors of the last cycle.    *)
LEMMA PoppedOK ==
    ASSUME NEW ci \in CpuInfo, Counted(ci), Len(ci.ce_queue) > 0
    PROVE  /\ Popped(ci) \in CpuInfo /\ Counted(Popped(ci))
           /\ Popped(ci).uce_nums = ci.uce_nums /\ Popped(ci).state = ci.state
           /\ \A h \in Seq(Node), t \in Nat :
                  Tracks(ci, h, t) => /\ Tracks(Popped(ci), h, t)
                                      /\ Popped(ci).ce_nums = SumTo(Recent(h), Len(h))
<1> DEFINE q == ci.ce_queue
           k == Len(q)
           Old(m) == q[k].time - q[m].time < 0 \/ q[k].time - q[m].time > Cycle
           old == {n \in 1..k : \A m \in 1..n : Old(m)}
           c == Cardinality(old)
           r == SubSeq(q, c + 1, k)
           v == Values(q)
           x == Popped(ci)
<1>1. q \in Seq(Node) /\ k \in Nat /\ k > 0 /\ ci.ce_nums \in Nat
  BY InfoFields
<1>2. \A n \in 1..k : q[n].time \in Nat /\ q[n].value \in Nat /\ v[n] = q[n].value
  BY <1>1, ValuesNat
<1>3. x = [ci EXCEPT !.ce_queue = r, !.ce_nums = ci.ce_nums - SumTo(v, c)]
  BY DEF Popped
<1> HIDE DEF Old
<1>4. \A n \in old : \A m \in 1..n : m \in old
  <2> SUFFICES ASSUME NEW n \in old, NEW m \in 1..n PROVE m \in old
    OBVIOUS
  <2>1. n \in 1..k /\ m \in 1..k /\ \A j \in 1..m : j \in 1..n
    BY <1>1
  <2> QED
    BY <2>1
<1>5. c \in 0..k /\ old = 1..c
  BY <1>1, <1>4, Beginning
<1>6. \A n \in 1..c : Old(n)
  <2> SUFFICES ASSUME NEW n \in 1..c PROVE Old(n)
    OBVIOUS
  <2>1. n \in old /\ n \in 1..n
    BY <1>5
  <2> QED
    BY <2>1
<1>7. c < k
  <2>1. CASE c = k
    <3>1. k \in 1..c /\ k \in 1..k
      BY <1>1, <2>1
    <3>2. Old(k)
      BY <1>6, <3>1
    <3> QED
      BY <1>2, <3>1, <3>2, CpuConstants DEF Old
  <2> QED
    BY <1>1, <1>5, <2>1
<1>8. ~Old(c + 1)
  <2>1. c + 1 \in 1..k /\ c + 1 \notin 1..c
    BY <1>5, <1>7
  <2>2. PICK m \in 1..(c + 1) : ~Old(m)
    BY <1>5, <2>1
  <2>3. m \notin 1..c
    BY <1>6, <2>2
  <2> QED
    BY <1>5, <2>2, <2>3
<1> HIDE DEF old, c
<1>9. /\ r \in Seq(Node) /\ Len(r) = k - c
      /\ \A n \in 1..(k - c) : r[n] = q[c + n]
  <2> HIDE DEF q
  <2>3. c + 1 \in 1..k /\ c \in Nat
    BY <1>1, <1>5, <1>7
  <2>4. r \in Seq(Node)
    BY <1>1, <2>3
  <2>5. Len(r) = k - c
    BY <1>1, <1>7, <2>3
  <2>1. r \in Seq(Node) /\ Len(r) = k - c
    BY <2>4, <2>5
  <2>2. ASSUME NEW n \in 1..(k - c) PROVE r[n] = q[c + n]
    <3>1. (c + 1) + n - 1 = c + n /\ n \in 1..(k - (c + 1) + 1)
      BY <1>1, <1>5
    <3> QED
      BY <1>1, <1>5, <1>7, <3>1
  <2> QED
    BY <2>1, <2>2
<1> HIDE DEF r
<1>10. /\ \A n \in 1..Len(r) : Values(r)[n] = q[c + n].value
       /\ \A n \in 1..Len(r) : Values(r)[n] \in Nat /\ c + n \in 1..k
  <2> SUFFICES ASSUME NEW n \in 1..Len(r)
               PROVE  Values(r)[n] = q[c + n].value /\ Values(r)[n] \in Nat /\ c + n \in 1..k
    OBVIOUS
  <2>1. c + n \in 1..k
    BY <1>1, <1>5, <1>9
  <2> QED
    BY <1>2, <1>9, <2>1, ValuesNat
<1>11. SumTo(v, k) = SumTo(v, c) + SumTo(Values(r), k - c)
  <2>1. c \in Nat /\ k - c \in Nat /\ c + (k - c) = k
    BY <1>1, <1>5, <1>7
  <2>2. \A n \in 1..(c + (k - c)) : v[n] \in Nat
    BY <1>2, <2>1
  <2>3. Later(Values(r), v, c, k - c)
    BY <1>2, <1>9, <1>10 DEF Later
  <2> HIDE DEF v, k
  <2>4. SumTo(v, c + (k - c)) = SumTo(v, c) + SumTo(Values(r), k - c)
    BY <2>1, <2>2, <2>3, SumSplit
  <2> QED
    BY <2>1, <2>4
<1>12. SumTo(v, c) \in Nat /\ SumTo(Values(r), k - c) \in Nat
  <2>1. c \in Nat /\ k - c \in Nat /\ \A n \in 1..c : n \in 1..k
    BY <1>1, <1>5, <1>7
  <2>2. \A n \in 1..c : v[n] \in Nat
    BY <1>2, <2>1
  <2>3. \A n \in 1..(k - c) : Values(r)[n] \in Nat
    BY <1>9, <1>10
  <2> HIDE DEF v, k
  <2> QED
    BY <2>1, <2>2, <2>3, SumNat
<1>13. ci.ce_nums = SumTo(v, k)
  BY DEF Counted
<1>14. ci.ce_nums - SumTo(v, c) = SumTo(Values(r), k - c)
  BY <1>11, <1>12, <1>13
<1>15. /\ x.ce_queue = r /\ x.ce_nums = SumTo(Values(r), k - c)
       /\ x.uce_nums = ci.uce_nums /\ x.state = ci.state /\ x \in CpuInfo
  <2> HIDE DEF x, v, k
  <2>1. x = [ci EXCEPT !.ce_queue = r, !.ce_nums = SumTo(Values(r), k - c)]
    BY <1>3, <1>14
  <2> QED
    BY <1>9, <1>12, <2>1 DEF CpuInfo
<1> HIDE DEF x
<1>16. Counted(x)
  BY <1>9, <1>15 DEF Counted
<1>17. ASSUME NEW h \in Seq(Node), NEW t \in Nat, Tracks(ci, h, t)
       PROVE  Tracks(x, h, t) /\ x.ce_nums = SumTo(Recent(h), Len(h))
  <2>1. InOrder(h, t) /\ \A n \in 1..Len(h) : h[n].time \in Nat /\ h[n].value \in Nat
    BY <1>17, ValuesNat DEF Tracks
  <2>2. PICK D \in Nat : Ends(q, h, D)
    BY <1>17 DEF Tracks
  <2>3. /\ Len(h) = D + k /\ Len(h) \in Nat /\ k \in 1..k /\ D + k \in 1..Len(h)
        /\ \A n \in 1..k : q[n] = h[D + n] /\ D + n \in 1..Len(h)
        /\ \A n \in 1..D : h[D + k].time - h[n].time > Cycle
    <3>1. Len(h) = D + k
      BY <2>2 DEF Ends
    <3>2. \A n \in 1..k : q[n] = h[D + n]
      BY <2>2 DEF Ends
    <3>3. \A n \in 1..D : h[D + k].time - h[n].time > Cycle
      BY <2>2, <3>1 DEF Ends
    <3>4. Len(h) \in Nat /\ k \in 1..k /\ D + k \in 1..Len(h)
      BY <1>1, <3>1
    <3>5. \A n \in 1..k : D + n \in 1..Len(h)
      BY <1>1, <3>1
    <3> QED
      BY <3>1, <3>2, <3>3, <3>4, <3>5
  <2>4. ASSUME NEW n \in 1..(D + c) PROVE h[D + k].time - h[n].time > Cycle
    <3>1. CASE n \in 1..D
      BY <2>3, <3>1
    <3>2. CASE n \notin 1..D
      <4>1. n - D \in 1..c /\ n - D \in 1..k /\ D + (n - D) = n
        BY <1>1, <1>5, <3>2
      <4>2. q[n - D] = h[n] /\ q[k] = h[D + k] /\ n \in 1..Len(h)
        BY <2>3, <4>1
      <4>3. h[n].time <= h[D + k].time
        BY <2>1, <2>3, <4>2 DEF InOrder
      <4>4. Old(n - D)
        BY <1>6, <4>1
      <4>5. h[n].time \in Nat /\ h[D + k].time \in Nat
        BY <2>1, <2>3, <4>2
      <4> QED
        BY <4>2, <4>3, <4>4, <4>5, CpuConstants DEF Old
    <3> QED
      BY <3>1, <3>2
  <2>5. ASSUME NEW n \in 1..(k - c) PROVE h[D + k].time - h[(D + c) + n].time <= Cycle
    <3>1. /\ c + 1 \in 1..k /\ c + n \in 1..k /\ (D + c) + n = D + (c + n)
          /\ D + (c + 1) <= D + (c + n)
      BY <1>1, <1>5, <1>7
    <3>2. /\ D + (c + 1) \in 1..Len(h) /\ D + (c + n) \in 1..Len(h)
          /\ q[c + 1] = h[D + (c + 1)] /\ q[k] = h[D + k]
      BY <2>3, <3>1
    <3>3. h[D + (c + 1)].time <= h[D + (c + n)].time
      BY <2>1, <3>1, <3>2 DEF InOrder
    <3>4. ~(q[k].time - q[c + 1].time > Cycle)
      BY <1>8 DEF Old
    <3>5. h[D + (c + 1)].time \in Nat /\ h[D + (c + n)].time \in Nat /\ h[D + k].time \in Nat
      BY <2>1, <2>3, <3>2
    <3>6. h[D + k].time - h[D + (c + 1)].time <= Cycle
      BY <3>2, <3>4, <3>5, CpuConstants
    <3>7. h[D + k].time - h[D + (c + n)].time <= Cycle
      BY <3>3, <3>5, <3>6, CpuConstants
    <3> QED
      BY <3>1, <3>7
  <2>6. Ends(r, h, D + c)
    <3>1. Len(h) = (D + c) + Len(r)
      BY <1>1, <1>5, <1>9, <2>3
    <3>2. ASSUME NEW n \in 1..Len(r) PROVE r[n] = h[(D + c) + n]
      <4>1. c + n \in 1..k /\ D + (c + n) = (D + c) + n /\ r[n] = q[c + n]
        BY <1>5, <1>9, <1>10
      <4> QED
        BY <2>3, <4>1
    <3> QED
      BY <2>3, <2>4, <3>1, <3>2 DEF Ends
  <2>7. Tracks(x, h, t)
    <3>1. D + c \in Nat
      BY <1>5
    <3> QED
      BY <1>15, <2>1, <2>6, <3>1 DEF Tracks
  <2> DEFINE w == Recent(h)
  <2>8. \A n \in 1..Len(h) :
            w[n] = IF h[D + k].time - h[n].time <= Cycle THEN h[n].value ELSE 0
    BY <2>3, ValuesNat DEF Recent
  <2> HIDE DEF w
  <2>9. /\ D + c \in Nat /\ k - c \in Nat /\ (D + c) + (k - c) = Len(h)
        /\ \A n \in 1..(D + c) : n \in 1..Len(h)
        /\ \A n \in 1..(k - c) : (D + c) + n \in 1..Len(h)
    <3>1. c \in Nat /\ k \in Nat /\ c < k /\ Len(h) = D + k
      BY <1>1, <1>5, <1>7, <2>3
    <3> HIDE DEF k
    <3> QED
      BY <3>1
  <2>10. ASSUME NEW n \in 1..(D + c) PROVE w[n] = 0
    <3>1. h[D + k].time - h[n].time > Cycle /\ n \in 1..Len(h)
      BY <2>4, <2>9
    <3>2. h[n].time \in Nat /\ h[D + k].time \in Nat
      BY <2>1, <2>3, <3>1
    <3> QED
      BY <2>8, <3>1, <3>2, CpuConstants
  <2>11. Later(Values(r), w, D + c, k - c)
    <3> SUFFICES ASSUME NEW n \in 1..(k - c) PROVE Values(r)[n] = w[(D + c) + n]
      BY DEF Later
    <3>1. w[(D + c) + n] = h[(D + c) + n].value
      BY <2>5, <2>8, <2>9
    <3>2. c + n \in 1..k /\ Values(r)[n] = q[c + n].value /\ D + (c + n) = (D + c) + n
      BY <1>5, <1>9, <1>10
    <3> QED
      BY <2>3, <3>1, <3>2
  <2>12. \A n \in 1..((D + c) + (k - c)) : w[n] \in Nat
    BY <2>1, <2>8, <2>9
  <2> HIDE DEF k
  <2>13. SumTo(w, (D + c) + (k - c)) = SumTo(w, D + c) + SumTo(Values(r), k - c)
    BY <2>9, <2>11, <2>12, SumSplit
  <2>14. SumTo(w, D + c) = 0
    BY <2>9, <2>10, SumOfZeros
  <2>15. SumTo(w, Len(h)) = SumTo(Values(r), k - c)
    BY <1>12, <2>9, <2>13, <2>14
  <2> QED
    BY <1>15, <2>7, <2>15 DEF w
<1> QED
  BY <1>15, <1>16, <1>17 DEF x

-----------------------------------------------------------------------------
(* The invariant of the queues.                                            *)

\* The CPU whose queue is looked at has an error in it.
Waiting == pc \in {"limit", "handle"} /\ cur.type = CE => Len(info[cur.cpu].ce_queue) > 0

QueueInv ==
    /\ TypeOK /\ history \in [CPUs -> Seq(Node)] /\ ordered \in BOOLEAN
    /\ \A c \in CPUs : Counted(info[c])
    /\ ordered => \A c \in CPUs : Tracks(info[c], history[c], now)
    /\ Waiting

(* An empty queue.                                                         *)
LEMMA EmptyQueue ==
    ASSUME NEW ci, ci.ce_queue = << >>, ci.ce_nums = 0
    PROVE  Counted(ci) /\ \A t : Tracks(ci, << >>, t)
<1>1. Len(<< >>) = 0
  OBVIOUS
<1>2. SumTo(Values(<< >>), 0) = 0
  BY SumOfZeros
<1>3. Counted(ci)
  BY <1>1, <1>2 DEF Counted
<1>4. ASSUME NEW t PROVE Tracks(ci, << >>, t)
  <2>1. InOrder(<< >>, t)
    BY <1>1 DEF InOrder
  <2>2. Ends(<< >>, << >>, 0)
    BY <1>1 DEF Ends
  <2> QED
    BY <2>1, <2>2 DEF Tracks
<1> QED
  BY <1>3, <1>4

(* The errors an ARM event reports are counted by a number.                *)
LEMMA ErrorsCounted ==
    ASSUME NEW rep \in Reports, NEW sev
    PROVE  count_errors(rep, sev) \in Nat
<1> DEFINE c == [n \in DOMAIN rep |-> PeiCount(rep[n], sev)]
<1>1. rep \in Seq(PEI)
  BY CpuConstants
<1>2. Len(rep) \in Nat /\ DOMAIN rep = 1..Len(rep)
  BY <1>1
<1>3. ASSUME NEW n \in 1..Len(rep) PROVE c[n] \in Nat
  <2>1. rep[n] \in PEI
    BY <1>1, <1>3
  <2> QED
    BY <1>2, <2>1 DEF PEI, PeiCount
<1> HIDE DEF c
<1>4. SumTo(c, Len(rep)) \in Nat
  BY <1>2, <1>3, SumNat
<1> QED
  BY <1>4 DEF c, count_errors

(* A step that leaves the queues, their history and the order of events    *)
(* alone.                                                                  *)
LEMMA QueuesLeft ==
    ASSUME QueueInv, TypeOK', ordered' = ordered, history' = history, now' = now,
           \A c \in CPUs : /\ info'[c].ce_queue = info[c].ce_queue
                           /\ info'[c].ce_nums = info[c].ce_nums,
           pc' \in {"limit", "handle"} => pc \in {"limit", "handle"}, cur' = cur
    PROVE  QueueInv'
<1>1. \A c \in CPUs : Counted(info[c])'
  BY DEF QueueInv, Counted
<1>2. ordered' => \A c \in CPUs : Tracks(info[c], history[c], now)'
  BY DEF QueueInv, Tracks
<1>3. Waiting'
  BY DEF QueueInv, Waiting, TypeOK
<1> QED
  BY <1>1, <1>2, <1>3 DEF QueueInv

(* An event.                                                               *)
LEMMA EventQueued ==
    ASSUME QueueInv, NEW c \in CPUs, NEW sev \in {CE, UCE}, NEW rep \in Reports,
           NEW t \in 0..MaxTime, ras_record_cpu_error(c, sev, rep, t)
    PROVE  QueueInv'
<1> DEFINE nums == count_errors(rep, sev)
<1>1. /\ events' = events + 1 /\ events < MaxEvents /\ pc = "idle"
      /\ now' = IF t > now THEN t ELSE now
      /\ ordered' = (ordered /\ t >= now)
      /\ UNCHANGED <<online, toggles>>
  BY DEF ras_record_cpu_error
<1>2. /\ TypeOK /\ history \in [CPUs -> Seq(Node)] /\ ordered \in BOOLEAN
      /\ info \in [CPUs -> CpuInfo] /\ now \in 0..MaxTime /\ events \in 0..MaxEvents
      /\ \A d \in CPUs : Counted(info[d])
      /\ \A d \in CPUs : info[d] \in CpuInfo /\ history[d] \in Seq(Node)
  BY DEF QueueInv, TypeOK
<1>3. now' \in 0..MaxTime /\ events' \in 0..MaxEvents /\ ordered' \in BOOLEAN /\ now \in Nat
  BY <1>1, <1>2, CpuConstants
<1>4. nums \in Nat
  BY ErrorsCounted
<1> HIDE DEF nums
<1>5. ASSUME ordered' PROVE ordered /\ now <= t /\ now' = t
  <2>1. ordered' = (ordered /\ t >= now)
    BY <1>1
  <2>2. ordered /\ t >= now
    BY <1>5, <2>1, Zenon
  <2>3. now \in Nat /\ t \in Nat
    BY <1>3
  <2> QED
    BY <1>1, <2>2, <2>3
<1>6. ASSUME NEW d \in CPUs, ordered'
      PROVE  Tracks(info[d], history[d], now')
  <2>1. Tracks(info[d], history[d], now) /\ now <= t /\ now' = t
    BY <1>5, <1>6 DEF QueueInv
  <2>2. \A n \in 1..Len(history[d]) : history[d][n].time \in Nat
    BY <1>2, ValuesNat
  <2>3. InOrder(history[d], now')
    BY <1>3, <2>1, <2>2 DEF Tracks, InOrder
  <2> QED
    BY <2>1, <2>3 DEF Tracks
<1>7. CASE /\ UNCHANGED <<pc, cur, history>>
           /\ info' \in [CPUs -> CpuInfo]
           /\ \A d \in CPUs : info'[d].ce_queue = info[d].ce_queue /\ info'[d].ce_nums = info[d].ce_nums
  <2>1. \A d \in CPUs : Counted(info[d])'
    BY <1>2, <1>7 DEF Counted
  <2>2. ordered' => \A d \in CPUs : Tracks(info[d], history[d], now)'
    BY <1>6, <1>7 DEF Tracks
  <2>3. Waiting'
    BY <1>1, <1>7 DEF Waiting
  <2>4. TypeOK'
    BY <1>1, <1>2, <1>3, <1>7 DEF TypeOK
  <2> QED
    BY <1>2, <1>3, <1>7, <2>1, <2>2, <2>3, <2>4 DEF QueueInv
<1>8. ASSUME NEW s \in get_cpu_status(c)
      PROVE  s \in CpuStates /\ [info[c] EXCEPT !.state = s] \in CpuInfo
  BY <1>2, <1>8 DEF get_cpu_status, Status, CpuStates, CpuInfo
<1>9. CASE nums = 0
  BY <1>2, <1>7, <1>9 DEF ras_record_cpu_error, nums
<1>10. CASE nums # 0
  <2>1. PICK s \in get_cpu_status(c) :
            LET ci == [info[c] EXCEPT !.state = s]
            IN  IF s # "CPU_ONLINE"
                THEN info' = [info EXCEPT ![c] = ci] /\ UNCHANGED <<pc, cur, history>>
                ELSE /\ info' = [info EXCEPT ![c] =
                           IF sev = CE THEN record_ce(ci, t, nums)
                           ELSE [ci EXCEPT !.uce_nums = @ + 1]]
                     /\ history' = IF sev # CE THEN history
                                   ELSE [history EXCEPT ![c] = Append(@, [time |-> t, value |-> nums])]
                     /\ pc' = "limit" /\ cur' = [cpu |-> c, type |-> sev]
    BY <1>10 DEF ras_record_cpu_error, nums
  <2> DEFINE ci == [info[c] EXCEPT !.state = s]
  <2>2. /\ ci \in CpuInfo /\ ci.ce_queue = info[c].ce_queue /\ ci.ce_nums = info[c].ce_nums
        /\ ci.uce_nums = info[c].uce_nums /\ Counted(ci)
    BY <1>2, <1>8 DEF CpuInfo, Counted
  <2> HIDE DEF ci
  <2>3. CASE s # "CPU_ONLINE"
    <3>1. info' = [info EXCEPT ![c] = ci] /\ UNCHANGED <<pc, cur, history>>
      BY <2>1, <2>3 DEF ci
    <3> QED
      BY <1>2, <1>7, <2>2, <3>1
  <2>4. CASE s = "CPU_ONLINE" /\ sev = UCE
    <3> DEFINE x == [ci EXCEPT !.uce_nums = ci.uce_nums + 1]
    <3>1. /\ info' = [info EXCEPT ![c] = x] /\ history' = history
          /\ pc' = "limit" /\ cur' = [cpu |-> c, type |-> UCE]
      BY <2>1, <2>4 DEF ci, CE, UCE
    <3>2. x \in CpuInfo /\ x.ce_queue = info[c].ce_queue /\ x.ce_nums = info[c].ce_nums
      BY <2>2 DEF CpuInfo
    <3> HIDE DEF x
    <3>3. info' \in [CPUs -> CpuInfo]
          /\ \A d \in CPUs : info'[d].ce_queue = info[d].ce_queue /\ info'[d].ce_nums = info[d].ce_nums
      BY <1>2, <3>1, <3>2
    <3>4. \A d \in CPUs : Counted(info[d])'
      BY <1>2, <3>3 DEF Counted
    <3>5. ordered' => \A d \in CPUs : Tracks(info[d], history[d], now)'
      BY <1>6, <3>1, <3>3 DEF Tracks
    <3>6. Waiting'
      BY <3>1 DEF Waiting, CE, UCE
    <3>7. TypeOK'
      BY <1>1, <1>2, <1>3, <3>1, <3>3 DEF TypeOK
    <3> QED
      BY <1>2, <1>3, <3>1, <3>4, <3>5, <3>6, <3>7 DEF QueueInv
  <2>5. CASE s = "CPU_ONLINE" /\ sev = CE
    <3> DEFINE x == record_ce(ci, t, nums)
               e == [time |-> t, value |-> nums]
               h == Append(history[c], e)
    <3>1. /\ info' = [info EXCEPT ![c] = x]
          /\ history' = [history EXCEPT ![c] = h]
          /\ pc' = "limit" /\ cur' = [cpu |-> c, type |-> CE]
      BY <2>1, <2>5 DEF ci
    <3>2. t \in Nat /\ e \in Node
      BY <1>4, CpuConstants DEF Node
    <3>3. x.ce_queue = Append(ci.ce_queue, e) /\ x.ce_nums = ci.ce_nums + nums /\ x \in CpuInfo
      <4>1. ci.ce_queue \in Seq(Node) /\ ci.ce_nums \in Nat
        BY <2>2, InfoFields
      <4>2. Append(ci.ce_queue, e) \in Seq(Node) /\ ci.ce_nums + nums \in Nat
        <5> HIDE DEF e
        <5> QED
          BY <1>4, <3>2, <4>1
      <4> QED
        BY <2>2, <4>2 DEF record_ce, CpuInfo
    <3>4. h \in Seq(Node)
      <4> HIDE DEF e
      <4> QED
        BY <1>2, <3>2
    <3>5. Counted(x) /\ Len(x.ce_queue) > 0
      BY <1>4, <2>2, <3>2, <3>3, Queued
    <3>6. ASSUME ordered' PROVE Tracks(x, h, now')
      <4>1. Tracks(info[c], history[c], now) /\ now <= t /\ now' = t
        BY <1>5, <3>6 DEF QueueInv
      <4>2. Tracks(ci, history[c], now)
        BY <2>2, <4>1 DEF Tracks
      <4>3. Tracks(x, h, t)
        BY <1>2, <1>3, <1>4, <2>2, <3>2, <3>3, <4>1, <4>2, Queued
      <4> QED
        BY <4>1, <4>3
    <3> HIDE DEF x, h, e
    <3>7. /\ info' \in [CPUs -> CpuInfo] /\ history' \in [CPUs -> Seq(Node)]
          /\ info'[c] = x /\ history'[c] = h
          /\ \A d \in CPUs : d # c => info'[d] = info[d] /\ history'[d] = history[d]
      BY <1>2, <3>1, <3>3, <3>4
    <3>8. \A d \in CPUs : Counted(info'[d])
      BY <1>2, <3>5, <3>7
    <3>9. ordered' => \A d \in CPUs : Tracks(info'[d], history'[d], now')
      BY <1>6, <3>6, <3>7
    <3>10. Waiting'
      BY <3>1, <3>5, <3>7 DEF Waiting
    <3>11. TypeOK'
      BY <1>1, <1>2, <1>3, <3>1, <3>7 DEF TypeOK
    <3> QED
      BY <1>3, <3>7, <3>8, <3>9, <3>10, <3>11 DEF QueueInv
  <2> QED
    BY <2>3, <2>4, <2>5
<1> QED
  BY <1>9, <1>10

(* The decision, and what it leaves in the queue.                          *)
LEMMA Decision ==
    ASSUME QueueInv, error_handler
    PROVE  QueueInv' /\ IsolationStep
<1>1. /\ TypeOK /\ history \in [CPUs -> Seq(Node)] /\ ordered \in BOOLEAN
      /\ info \in [CPUs -> CpuInfo] /\ cur \in [cpu : CPUs, type : {CE, UCE}]
      /\ cur.cpu \in CPUs /\ info[cur.cpu] \in CpuInfo /\ history[cur.cpu] \in Seq(Node)
      /\ \A d \in CPUs : Counted(info[d])
      /\ now \in 0..MaxTime
  BY DEF QueueInv, TypeOK
<1>2. /\ UNCHANGED <<online, cur, now, events, toggles, ordered, history>>
      /\ pc = "handle" /\ pc' \in {"idle", "write"}
  BY DEF error_handler
<1>3. CASE cur.type # CE
  <2>1. \E s \in {info[cur.cpu].state, "CPU_OFFLINE_FAILED"} :
            info' = [info EXCEPT ![cur.cpu] = [info[cur.cpu] EXCEPT !.state = s]]
    <3>1. info[cur.cpu] = [info[cur.cpu] EXCEPT !.state = info[cur.cpu].state]
      BY <1>1 DEF CpuInfo
    <3>2. \/ info' = [info EXCEPT ![cur.cpu] = [info[cur.cpu] EXCEPT !.state = "CPU_OFFLINE_FAILED"]]
          \/ info' = [info EXCEPT ![cur.cpu] = info[cur.cpu]]
      BY <1>3 DEF error_handler
    <3> QED
      BY <3>1, <3>2
  <2>2. PICK s \in {info[cur.cpu].state, "CPU_OFFLINE_FAILED"} :
            info' = [info EXCEPT ![cur.cpu] = [info[cur.cpu] EXCEPT !.state = s]]
    BY <2>1
  <2> DEFINE x == [info[cur.cpu] EXCEPT !.state = s]
  <2>3. /\ x \in CpuInfo /\ x.ce_queue = info[cur.cpu].ce_queue
        /\ x.ce_nums = info[cur.cpu].ce_nums
    BY <1>1 DEF CpuInfo, CpuStates
  <2> HIDE DEF x
  <2>4. /\ info' \in [CPUs -> CpuInfo]
        /\ \A d \in CPUs : info'[d].ce_queue = info[d].ce_queue /\ info'[d].ce_nums = info[d].ce_nums
    BY <1>1, <2>2, <2>3 DEF x
  <2>5. TypeOK'
    BY <1>1, <1>2, <2>4 DEF TypeOK
  <2>6. QueueInv'
    BY <1>2, <2>4, <2>5, QueuesLeft
  <2> QED
    BY <1>3, <2>6 DEF IsolationStep
<1>4. CASE cur.type = CE
  <2> DEFINE ci == info[cur.cpu]
             r == Popped(ci)
             h == history[cur.cpu]
  <2>1. Len(ci.ce_queue) > 0
    BY <1>2, <1>4 DEF QueueInv, Waiting
  <2>2. /\ r \in CpuInfo /\ Counted(r)
        /\ \A t \in Nat : Tracks(ci, h, t) =>
               Tracks(r, h, t) /\ r.ce_nums = SumTo(Recent(h), Len(h))
    BY <1>1, <2>1, PoppedOK
  <2> DEFINE act == r.ce_nums >= Threshold
             x == IF act THEN [r EXCEPT !.state = "CPU_OFFLINE_FAILED"] ELSE r
  <2>3. info' = [info EXCEPT ![cur.cpu] = x] /\ pc' = IF act THEN "write" ELSE "idle"
    BY <1>4 DEF error_handler
  <2> HIDE DEF r, ci
  <2>4. x \in CpuInfo /\ x.ce_queue = r.ce_queue /\ x.ce_nums = r.ce_nums
    BY <2>2 DEF CpuInfo, CpuStates
  <2>5. Counted(x)
    BY <2>2, <2>4 DEF Counted
  <2>6. ASSUME ordered PROVE Tracks(x, h, now) /\ r.ce_nums = SumTo(Recent(h), Len(h))
    <3>1. Tracks(ci, h, now) /\ now \in Nat
      BY <1>1, <2>6 DEF QueueInv, ci
    <3> QED
      BY <2>2, <2>4, <3>1 DEF Tracks
  <2>7. IsolationStep
    <3> SUFFICES ASSUME ordered PROVE pc' = "write" <=> SumTo(Recent(h), Len(h)) >= Threshold
      BY DEF IsolationStep
    <3> QED
      BY <2>3, <2>6
  <2> HIDE DEF x
  <2>8. /\ info' \in [CPUs -> CpuInfo] /\ info'[cur.cpu] = x
        /\ \A d \in CPUs : d # cur.cpu => info'[d] = info[d]
    BY <1>1, <2>3, <2>4
  <2>9. \A d \in CPUs : Counted(info'[d])
    BY <1>1, <2>5, <2>8
  <2>10. ASSUME ordered, NEW d \in CPUs PROVE Tracks(info'[d], history[d], now)
    <3>1. CASE d = cur.cpu
      BY <2>6, <2>8, <2>10, <3>1
    <3>2. CASE d # cur.cpu
      BY <2>8, <2>10, <3>2 DEF QueueInv
    <3> QED
      BY <3>1, <3>2
  <2>11. TypeOK'
    BY <1>1, <1>2, <2>8 DEF TypeOK
  <2>12. Waiting'
    BY <1>2 DEF Waiting
  <2>13. QueueInv'
    BY <1>1, <1>2, <2>9, <2>10, <2>11, <2>12 DEF QueueInv
  <2> QED
    BY <2>7, <2>13
<1> QED
  BY <1>3, <1>4

(* Only a confirmed isolation empties a queue, and its history with it.    *)
LEMMA Verified == ASSUME QueueInv, Verify PROVE QueueInv'
<1> DEFINE c == cur.cpu
<1>1. /\ TypeOK /\ history \in [CPUs -> Seq(Node)] /\ ordered \in BOOLEAN
      /\ info \in [CPUs -> CpuInfo] /\ c \in CPUs /\ info[c] \in CpuInfo
      /\ \A d \in CPUs : Counted(info[d])
      /\ ordered => \A d \in CPUs : Tracks(info[d], history[d], now)
  BY DEF QueueInv, TypeOK
<1>2. UNCHANGED <<online, cur, now, events, toggles, ordered>> /\ pc' = "idle"
  BY DEF Verify
<1>3. PICK s \in get_cpu_status(c) :
          IF s = "CPU_OFFLINE"
          THEN /\ info' = [info EXCEPT ![c] =
                    [state |-> s, ce_nums |-> 0, uce_nums |-> 0, ce_queue |-> << >>]]
               /\ history' = [history EXCEPT ![c] = << >>]
          ELSE info' = [info EXCEPT ![c].state = s] /\ UNCHANGED history
  BY DEF Verify
<1>4. s \in CpuStates
  BY DEF get_cpu_status, Status, CpuStates
<1> HIDE DEF c
<1>5. CASE s = "CPU_OFFLINE"
  <2> DEFINE x == [state |-> s, ce_nums |-> 0, uce_nums |-> 0, ce_queue |-> << >>]
  <2>1. << >> \in Seq(Node)
    OBVIOUS
  <2>2. x \in CpuInfo /\ x.ce_queue = << >> /\ x.ce_nums = 0
    BY <1>4, <2>1 DEF CpuInfo
  <2>3. info' = [info EXCEPT ![c] = x] /\ history' = [history EXCEPT ![c] = << >>]
    BY <1>3, <1>5
  <2> HIDE DEF x
  <2>4. /\ info' \in [CPUs -> CpuInfo] /\ history' \in [CPUs -> Seq(Node)]
        /\ info'[c] = x /\ history'[c] = << >>
        /\ \A d \in CPUs : d # c => info'[d] = info[d] /\ history'[d] = history[d]
    BY <1>1, <2>1, <2>2, <2>3
  <2>5. Counted(x) /\ Tracks(x, << >>, now)
    BY <2>2, EmptyQueue
  <2>6. \A d \in CPUs : Counted(info'[d])
    BY <1>1, <2>4, <2>5
  <2>7. ordered => \A d \in CPUs : Tracks(info'[d], history'[d], now)
    BY <1>1, <2>4, <2>5
  <2>8. TypeOK'
    BY <1>1, <1>2, <2>4 DEF TypeOK
  <2>9. Waiting'
    BY <1>2 DEF Waiting
  <2> QED
    BY <1>1, <1>2, <2>4, <2>6, <2>7, <2>8, <2>9 DEF QueueInv
<1>6. CASE s # "CPU_OFFLINE"
  <2> DEFINE x == [info[c] EXCEPT !.state = s]
  <2>1. x \in CpuInfo /\ x.ce_queue = info[c].ce_queue /\ x.ce_nums = info[c].ce_nums
    BY <1>1, <1>4 DEF CpuInfo
  <2>2. info' = [info EXCEPT ![c] = x] /\ UNCHANGED history
    BY <1>3, <1>6
  <2> HIDE DEF x
  <2>3. /\ info' \in [CPUs -> CpuInfo]
        /\ \A d \in CPUs : info'[d].ce_queue = info[d].ce_queue /\ info'[d].ce_nums = info[d].ce_nums
    BY <1>1, <2>1, <2>2
  <2>4. TypeOK'
    BY <1>1, <1>2, <2>3 DEF TypeOK
  <2> QED
    BY <1>2, <2>2, <2>3, <2>4, QueuesLeft
<1> QED
  BY <1>5, <1>6

(* Every step keeps the invariant, and decides as it should.               *)
LEMMA NextQueue == QueueInv /\ [Next]_vars => QueueInv' /\ [IsolationStep]_vars
<1> SUFFICES ASSUME QueueInv, [Next]_vars PROVE QueueInv' /\ IsolationStep
  OBVIOUS
<1>0. TypeOK /\ info \in [CPUs -> CpuInfo] /\ events \in 0..MaxEvents /\ toggles \in 0..MaxToggles
  BY DEF QueueInv, TypeOK
<1>1. CASE UNCHANGED vars
  <2>1. TypeOK'
    BY <1>0, <1>1 DEF vars, TypeOK
  <2>2. QueueInv'
    BY <1>1, <2>1, QueuesLeft DEF vars
  <2> QED
    BY <1>1, <2>2 DEF IsolationStep, vars
<1>2. ASSUME NEW c \in CPUs, NEW sev \in {CE, UCE}, NEW rep \in Reports, NEW t \in 0..MaxTime,
             ras_record_cpu_error(c, sev, rep, t)
      PROVE  QueueInv' /\ IsolationStep
  <2>1. pc = "idle"
    BY <1>2 DEF ras_record_cpu_error
  <2> QED
    BY <1>2, <2>1, EventQueued DEF IsolationStep
<1>3. ASSUME NEW c \in CPUs, RecordReriError(c) PROVE QueueInv' /\ IsolationStep
  <2>1. PICK s \in get_cpu_status(c) :
            /\ info' = [info EXCEPT ![c].state = s]
            /\ pc' = IF s = "CPU_ONLINE" THEN "segfault" ELSE pc
    BY <1>3 DEF RecordReriError
  <2>2. /\ pc = "idle" /\ events < MaxEvents /\ events' = events + 1
        /\ UNCHANGED <<online, cur, now, toggles, ordered, history>>
    BY <1>3 DEF RecordReriError
  <2>3. s \in CpuStates
    BY DEF get_cpu_status, Status, CpuStates
  <2> DEFINE x == [info[c] EXCEPT !.state = s]
  <2>4. x \in CpuInfo /\ x.ce_queue = info[c].ce_queue /\ x.ce_nums = info[c].ce_nums
    BY <1>0, <2>3 DEF CpuInfo
  <2> HIDE DEF x
  <2>5. /\ info' \in [CPUs -> CpuInfo]
        /\ \A d \in CPUs : info'[d].ce_queue = info[d].ce_queue /\ info'[d].ce_nums = info[d].ce_nums
    BY <1>0, <2>1, <2>4 DEF x
  <2>6. events' \in 0..MaxEvents
    BY <1>0, <2>2, CpuConstants
  <2>7. TypeOK'
    BY <1>0, <2>1, <2>2, <2>5, <2>6 DEF TypeOK
  <2>8. QueueInv'
    BY <2>1, <2>2, <2>5, <2>7, QueuesLeft
  <2> QED
    BY <2>2, <2>8 DEF IsolationStep
<1>4. ASSUME NEW c \in CPUs, Toggle(c) PROVE QueueInv' /\ IsolationStep
  <2>1. /\ toggles < MaxToggles /\ toggles' = toggles + 1
        /\ online' = [online EXCEPT ![c] = ~online[c]]
        /\ UNCHANGED <<info, pc, cur, now, events, ordered, history>>
    BY <1>4 DEF Toggle
  <2>2. toggles' \in 0..MaxToggles
    BY <1>0, <2>1, CpuConstants
  <2>3. TypeOK'
    BY <1>0, <2>1, <2>2 DEF TypeOK
  <2>4. QueueInv'
    BY <2>1, <2>3, QueuesLeft
  <2> QED
    BY <2>1, <2>4 DEF IsolationStep
<1>5. CASE CheckLimit
  <2>1. /\ pc = "limit" /\ pc' \in {"idle", "handle"}
        /\ UNCHANGED <<online, info, cur, now, events, toggles, ordered, history>>
    BY <1>5 DEF CheckLimit
  <2>2. TypeOK'
    BY <1>0, <2>1 DEF TypeOK
  <2>3. QueueInv'
    BY <2>1, <2>2, QueuesLeft
  <2> QED
    BY <2>1, <2>3 DEF IsolationStep
<1>6. CASE error_handler
  BY <1>6, Decision
<1>7. CASE WriteOffline
  <2>1. /\ pc = "write" /\ pc' \in {"idle", "verify"}
        /\ online' = online \/ online' = [online EXCEPT ![cur.cpu] = FALSE]
        /\ UNCHANGED <<info, cur, now, events, toggles, ordered, history>>
    BY <1>7 DEF WriteOffline
  <2>2. TypeOK'
    BY <1>0, <2>1 DEF TypeOK
  <2>3. QueueInv'
    BY <2>1, <2>2, QueuesLeft
  <2> QED
    BY <2>1, <2>3 DEF IsolationStep
<1>8. CASE Verify
  <2>1. pc = "verify"
    BY <1>8 DEF Verify
  <2> QED
    BY <1>8, <2>1, Verified DEF IsolationStep
<1> QED
  BY <1>1, <1>2, <1>3, <1>4, <1>5, <1>6, <1>7, <1>8 DEF Next

(* Empty queues at the start.  (init_cpu_info)                             *)
LEMMA InitQueue == Init => QueueInv
<1> SUFFICES ASSUME Init PROVE QueueInv
  OBVIOUS
<1> DEFINE x(c) == [state |-> Status(c), ce_nums |-> 0, uce_nums |-> 0, ce_queue |-> << >>]
<1>1. << >> \in Seq(Node)
  OBVIOUS
<1>2. ASSUME NEW c \in CPUs
      PROVE  x(c) \in CpuInfo /\ x(c).ce_queue = << >> /\ x(c).ce_nums = 0
  BY <1>1 DEF CpuInfo, CpuStates, Status
<1>3. info = [c \in CPUs |-> x(c)] /\ history = [c \in CPUs |-> << >>]
  BY DEF Init
<1>4. history \in [CPUs -> Seq(Node)]
  BY <1>1, <1>3
<1> HIDE DEF x
<1>5. /\ info \in [CPUs -> CpuInfo]
      /\ \A c \in CPUs : info[c].ce_queue = << >> /\ info[c].ce_nums = 0 /\ history[c] = << >>
  BY <1>2, <1>3
<1>6. \A c \in CPUs : Counted(info[c]) /\ Tracks(info[c], history[c], now)
  BY <1>5, EmptyQueue
<1>7. toggles \in 0..MaxToggles
  BY OfflineFinite, CpuConstants DEF Init
<1>8. TypeOK
  BY <1>5, <1>7, CpuConstants DEF Init, TypeOK, CE, UCE
<1>9. Waiting /\ ordered \in BOOLEAN
  BY DEF Init, Waiting
<1> QED
  BY <1>4, <1>6, <1>8, <1>9 DEF QueueInv

(* The values the variables take; in particular the count of a CPU never   *)
(* goes below 0 when the loop of do_ce_handler subtracts what it pops.     *)
THEOREM CpuTypes == Spec => []TypeOK
<1>1. QueueInv => TypeOK
  BY DEF QueueInv
<1> QED
  BY <1>1, InitQueue, NextQueue, PTL DEF Spec

(* A CPU is isolated for its corrected errors exactly when those of the    *)
(* last cycle, since its last isolation, reach the threshold, for every    *)
(* sequence of events in time order and every change of CPU states.        *)
THEOREM CpusAreIsolatedOnTheirWindow == Spec => IsolatedOnWindow
  BY InitQueue, NextQueue, PTL DEF Spec, IsolatedOnWindow
=============================================================================
