------------------------- MODULE RowIsolationProofs -------------------------
(***************************************************************************)
(* The row policy counts exactly the errors of the last cycle and offlines *)
(* the pages it should, for every set of rows and pages, every threshold,  *)
(* cycle, list size and sequence of events.                                *)
(*                                                                         *)
(* The sums and the walk over a list are recursive functions.  What they   *)
(* compute is proved by induction on the list, in the form of a smallest   *)
(* counterexample (Induction below).                                       *)
(***************************************************************************)
EXTENDS RowIsolation, FiniteSetTheorems, WellFoundedInduction, TLAPS

(* A set of numbers has a smallest one.                                    *)
LEMMA Smallest == ASSUME NEW S \in SUBSET Nat, S # {} PROVE \E x \in S : \A y \in S : x <= y
<1>1. PICK x \in S : \A y \in S : ~(<<y, x>> \in OpToRel(<, Nat))
  BY NatLessThanWellFounded, WFMin
<1>2. \A y \in S : ~(y < x)
  BY <1>1 DEF OpToRel
<1> QED
  BY <1>2

(* Induction up to L, over a set that stands for the predicate.            *)
LEMMA Induction ==
    ASSUME NEW L \in Nat, NEW S, 0 \in S, \A n \in 0..L : n \in S /\ n < L => n + 1 \in S
    PROVE  \A n \in 0..L : n \in S
<1> DEFINE out == (0..L) \ S
<1> SUFFICES ASSUME out # {} PROVE FALSE
  OBVIOUS
<1>1. out \in SUBSET Nat
  OBVIOUS
<1>2. PICK x \in out : \A y \in out : x <= y
  BY <1>1, Smallest
<1>3. x # 0 /\ x - 1 \in 0..L /\ x \in 0..L
  BY <1>2
<1>4. x - 1 \in S
  BY <1>2, <1>3
<1>5. (x - 1) + 1 \in S
  BY <1>3, <1>4
<1> QED
  BY <1>2, <1>3, <1>5

(* A set of positions that has all positions before each of its own is a   *)
(* beginning of the list.                                                  *)
LEMMA Beginning ==
    ASSUME NEW L \in Nat, NEW D \in SUBSET (1..L), \A n \in D : \A m \in 1..n : m \in D
    PROVE  Cardinality(D) \in 0..L /\ D = 1..Cardinality(D)
<1>1. \E c \in 0..L : D = 1..c
  <2>1. CASE D = 1..L
    BY <2>1
  <2>2. CASE D # 1..L
    <3> DEFINE out == (1..L) \ D
    <3>1. out \in SUBSET Nat
      OBVIOUS
    <3>4. out # {}
      BY <2>2
    <3>2. PICK x \in out : \A y \in out : x <= y
      BY <3>1, <3>4, Smallest
    <3>5. x \in 1..L /\ x \notin D
      BY <3>2
    <3>6. ASSUME NEW n \in D PROVE n < x
      <4>1. n \in 1..L
        OBVIOUS
      <4>2. CASE x <= n
        BY <3>5, <4>1, <4>2
      <4> QED
        BY <3>5, <4>1, <4>2
    <3>7. ASSUME NEW n \in 1..(x - 1) PROVE n \in D
      BY <3>2, <3>5
    <3>8. D \subseteq 1..(x - 1)
      BY <3>5, <3>6
    <3>9. 1..(x - 1) \subseteq D
      BY <3>7
    <3>3. D = 1..(x - 1)
      BY <3>8, <3>9
    <3> QED
      BY <3>2, <3>3
  <2> QED
    BY <2>1, <2>2
<1>2. PICK c \in 0..L : D = 1..c
  BY <1>1
<1>3. Cardinality(1..c) = c
  BY <1>2, FS_Interval
<1> QED
  BY <1>2, <1>3

-----------------------------------------------------------------------------
(* Sums.                                                                   *)

(* f holds the sums of the first 0, 1, ... L of the numbers c.             *)
IsSum(f, L, c) ==
    /\ f \in [0..L -> Nat] /\ f[0] = 0
    /\ \A n \in 1..L : c[n] \in Nat /\ f[n] = f[n - 1] + c[n]

(* There is such a function.                                               *)
LEMMA SumExists ==
    ASSUME NEW L \in Nat, NEW c \in [1..L -> Nat]
    PROVE  \E f : IsSum(f, L, c)
<1> DEFINE S == {m \in 0..L : \E f : IsSum(f, m, c)}
<1>1. 0 \in S
  <2>1. IsSum([n \in 0..0 |-> 0], 0, c)
    BY DEF IsSum
  <2> QED
    BY <2>1
<1>2. ASSUME NEW m \in 0..L, m \in S, m < L PROVE m + 1 \in S
  <2>1. PICK f : IsSum(f, m, c)
    BY <1>2
  <2> DEFINE g == [n \in 0..(m + 1) |-> IF n = m + 1 THEN f[m] + c[m + 1] ELSE f[n]]
  <2>3. c[m + 1] \in Nat /\ f[m] \in Nat /\ f[0] = 0 /\ m \in Nat
    BY <1>2, <2>1 DEF IsSum
  <2>4. g \in [0..(m + 1) -> Nat]
    BY <1>2, <2>1, <2>3 DEF IsSum
  <2>5. g[0] = 0
    BY <2>3
  <2>6. ASSUME NEW n \in 1..(m + 1) PROVE c[n] \in Nat /\ g[n] = g[n - 1] + c[n]
    <3>1. CASE n = m + 1
      BY <2>3, <3>1
    <3>2. CASE n # m + 1
      <4>1. n \in 1..m /\ n \in 0..(m + 1) /\ n - 1 \in 0..(m + 1) /\ n - 1 # m + 1
        BY <2>3, <3>2
      <4>2. f[n] = f[n - 1] + c[n] /\ c[n] \in Nat
        BY <2>1, <4>1 DEF IsSum
      <4> QED
        BY <3>2, <4>1, <4>2
    <3> QED
      BY <3>1, <3>2
  <2> HIDE DEF g
  <2>2. IsSum(g, m + 1, c)
    BY <2>4, <2>5, <2>6 DEF IsSum
  <2> QED
    BY <1>2, <2>2
<1> HIDE DEF S
<1>3. \A n \in 0..L : n \in S
  BY <1>1, <1>2, Induction
<1> QED
  BY <1>3 DEF S

(* The numbers d are those of c from K on.                                 *)
Later(d, c, K, M) == \A n \in 1..M : d[n] = c[K + n]

(* The sums of a later part of the list, from where it begins.             *)
LEMMA SumShift ==
    ASSUME NEW L \in Nat, NEW K \in Nat, NEW M \in Nat, L = K + M,
           NEW f, NEW g, NEW c, NEW d,
           IsSum(f, L, c), IsSum(g, M, d), Later(d, c, K, M)
    PROVE  f[L] = f[K] + g[M]
<1> DEFINE S == {n \in 0..M : f[K + n] = f[K] + g[n]}
<1>1. 0 \in S
  BY DEF IsSum
<1>2. ASSUME NEW n \in 0..M, n \in S, n < M PROVE n + 1 \in S
  <2>1. K + (n + 1) \in 1..L /\ n + 1 \in 1..M /\ K + (n + 1) - 1 = K + n /\ (n + 1) - 1 = n
    BY <1>2
  <2>2. f[K + (n + 1)] = f[K + n] + c[K + (n + 1)]
    BY <2>1 DEF IsSum
  <2>3. g[n + 1] = g[n] + d[n + 1]
    BY <2>1 DEF IsSum
  <2>4. f[K + n] = f[K] + g[n] /\ d[n + 1] = c[K + (n + 1)]
    BY <1>2, <2>1 DEF Later
  <2>5. f[K] \in Nat /\ g[n] \in Nat /\ g[n + 1] \in Nat
    BY <1>2, <2>1 DEF IsSum
  <2>6. d[n + 1] \in Nat
    BY <2>1 DEF IsSum
  <2> QED
    BY <2>1, <2>2, <2>3, <2>4, <2>5, <2>6
<1> HIDE DEF S
<1>3. \A n \in 0..M : n \in S
  BY <1>1, <1>2, Induction
<1>4. M \in S
  BY <1>3
<1> QED
  BY <1>4 DEF S

(* The sums of a beginning of the list.                                    *)
LEMMA SumPrefix ==
    ASSUME NEW L \in Nat, NEW K \in 0..L, NEW f, NEW g, NEW c, NEW d,
           IsSum(f, L, c), IsSum(g, K, d), \A n \in 1..K : d[n] = c[n]
    PROVE  \A n \in 0..K : f[n] = g[n]
<1> DEFINE S == {n \in 0..K : f[n] = g[n]}
<1>1. 0 \in S
  BY DEF IsSum
<1>2. ASSUME NEW n \in 0..K, n \in S, n < K PROVE n + 1 \in S
  <2>1. n + 1 \in 1..K /\ n + 1 \in 1..L /\ (n + 1) - 1 = n
    BY <1>2
  <2>2. f[n + 1] = f[n] + c[n + 1]
    BY <2>1 DEF IsSum
  <2>3. g[n + 1] = g[n] + d[n + 1]
    BY <2>1 DEF IsSum
  <2> QED
    BY <1>2, <2>1, <2>2, <2>3
<1> HIDE DEF S
<1>3. \A n \in 0..K : n \in S
  BY <1>1, <1>2, Induction
<1> QED
  BY <1>3 DEF S

(* Where nothing is counted the sums are 0.                                *)
LEMMA SumZero ==
    ASSUME NEW L \in Nat, NEW f, NEW c, IsSum(f, L, c), \A n \in 1..L : c[n] = 0
    PROVE  \A n \in 0..L : f[n] = 0
<1> DEFINE S == {n \in 0..L : f[n] = 0}
<1>1. 0 \in S
  BY DEF IsSum
<1>2. ASSUME NEW n \in 0..L, n \in S, n < L PROVE n + 1 \in S
  <2>1. n + 1 \in 1..L /\ (n + 1) - 1 = n
    BY <1>2
  <2>2. f[n + 1] = f[n] + c[n + 1]
    BY <2>1 DEF IsSum
  <2> QED
    BY <1>2, <2>1, <2>2
<1> HIDE DEF S
<1>3. \A n \in 0..L : n \in S
  BY <1>1, <1>2, Induction
<1> QED
  BY <1>3 DEF S

(* Lists of entries with counts.                                           *)
Entry(S) == \A e \in S : e.count \in Nat
Count(q) == [n \in 1..Len(q) |-> q[n].count]

(* Total is the last of the sums.                                          *)
LEMMA TotalIsSum ==
    ASSUME NEW S, Entry(S), NEW q \in Seq(S)
    PROVE  \E f : IsSum(f, Len(q), Count(q)) /\ Total(q) = f[Len(q)]
<1> DEFINE R(f) == f = [n \in 0..Len(q) |-> IF n = 0 THEN 0 ELSE f[n-1] + q[n].count]
           s == CHOOSE f : R(f)
<1>1. Len(q) \in Nat /\ \A n \in 1..Len(q) : q[n].count \in Nat
  BY DEF Entry
<1>2. Count(q) \in [1..Len(q) -> Nat] /\ \A n \in 1..Len(q) : Count(q)[n] = q[n].count
  BY <1>1 DEF Count
<1>3. PICK g : IsSum(g, Len(q), Count(q))
  BY <1>1, <1>2, SumExists
<1>4. R(g)
  BY <1>1, <1>2, <1>3 DEF IsSum
<1>5. R(s)
  BY <1>4
<1>6. Total(q) = s[Len(q)]
  BY DEF Total
<1> HIDE DEF s
<1>7. s[0] = 0 /\ \A n \in 1..Len(q) : s[n] = s[n - 1] + q[n].count
  BY <1>1, <1>5
<1> DEFINE T == {n \in 0..Len(q) : s[n] = g[n]}
<1>8. 0 \in T
  BY <1>1, <1>3, <1>7 DEF IsSum
<1>9. ASSUME NEW n \in 0..Len(q), n \in T, n < Len(q) PROVE n + 1 \in T
  <2>1. n + 1 \in 1..Len(q) /\ (n + 1) - 1 = n
    BY <1>1, <1>9
  <2>2. s[n + 1] = s[n] + q[n + 1].count
    BY <1>7, <2>1
  <2>3. g[n + 1] = g[n] + q[n + 1].count
    BY <1>2, <1>3, <2>1 DEF IsSum
  <2> QED
    BY <1>9, <2>1, <2>2, <2>3
<1> HIDE DEF T
<1>10. \A n \in 0..Len(q) : n \in T
  BY <1>1, <1>8, <1>9, Induction
<1>11. s[Len(q)] = g[Len(q)]
  BY <1>1, <1>10 DEF T
<1> QED
  BY <1>3, <1>6, <1>11

(* A sum is a number.                                                      *)
LEMMA TotalNat == ASSUME NEW S, Entry(S), NEW q \in Seq(S) PROVE Total(q) \in Nat
<1>1. PICK f : IsSum(f, Len(q), Count(q)) /\ Total(q) = f[Len(q)]
  BY TotalIsSum
<1> QED
  BY <1>1 DEF IsSum

(* The sum of a list is that of a later part of it, and of what is before. *)
LEMMA TotalSplit ==
    ASSUME NEW S, Entry(S), NEW p \in Seq(S), NEW q \in Seq(S), NEW a \in Seq(S),
           Len(p) <= Len(a), Len(q) = Len(a) - Len(p),
           \A n \in 1..Len(p) : p[n].count = a[n].count,
           \A n \in 1..Len(q) : q[n].count = a[Len(p) + n].count
    PROVE  Total(a) = Total(p) + Total(q)
<1>1. PICK f : IsSum(f, Len(p), Count(p)) /\ Total(p) = f[Len(p)]
  BY TotalIsSum
<1>2. PICK g : IsSum(g, Len(q), Count(q)) /\ Total(q) = g[Len(q)]
  BY TotalIsSum
<1>3. PICK h : IsSum(h, Len(a), Count(a)) /\ Total(a) = h[Len(a)]
  BY TotalIsSum
<1>4. Len(p) \in Nat /\ Len(q) \in Nat /\ Len(a) \in Nat /\ Len(a) = Len(p) + Len(q)
  OBVIOUS
<1>5. /\ \A n \in 1..Len(p) : Count(p)[n] = Count(a)[n]
      /\ \A n \in 1..Len(q) : Count(q)[n] = Count(a)[Len(p) + n]
  BY <1>4 DEF Count
<1>6. h[Len(a)] = h[Len(p)] + g[Len(q)]
  <2>1. IsSum(h, Len(a), Count(a)) /\ IsSum(g, Len(q), Count(q))
    BY <1>2, <1>3
  <2>2. Later(Count(q), Count(a), Len(p), Len(q))
    BY <1>5 DEF Later
  <2> QED
    BY ONLY <1>4, <2>1, <2>2, SumShift
<1>7. \A n \in 0..Len(p) : h[n] = f[n]
  BY <1>1, <1>3, <1>4, <1>5, SumPrefix
<1>8. h[Len(p)] = f[Len(p)]
  BY <1>4, <1>7
<1> QED
  BY <1>1, <1>2, <1>3, <1>6, <1>8

(* Lists with the same counts.                                             *)
LEMMA TotalSame ==
    ASSUME NEW S, Entry(S), NEW p \in Seq(S), NEW q \in Seq(S), Len(p) = Len(q),
           \A n \in 1..Len(p) : p[n].count = q[n].count
    PROVE  Total(p) = Total(q)
<1>1. PICK f : IsSum(f, Len(p), Count(p)) /\ Total(p) = f[Len(p)]
  BY TotalIsSum
<1>2. PICK g : IsSum(g, Len(q), Count(q)) /\ Total(q) = g[Len(q)]
  BY TotalIsSum
<1>3. Count(p) = Count(q)
  BY DEF Count
<1>4. \A n \in 0..Len(p) : f[n] = g[n]
  BY <1>1, <1>2, <1>3, SumPrefix
<1> QED
  BY <1>1, <1>2, <1>4

(* One more entry.                                                         *)
LEMMA TotalAppend ==
    ASSUME NEW S, Entry(S), NEW q \in Seq(S), NEW e \in S
    PROVE  Total(Append(q, e)) = Total(q) + e.count
<1>1. PICK f : IsSum(f, Len(q), Count(q)) /\ Total(q) = f[Len(q)]
  BY TotalIsSum
<1> DEFINE a == Append(q, e)
<1>2. a \in Seq(S) /\ Len(a) = Len(q) + 1 /\ a[Len(q) + 1] = e /\ Len(q) \in Nat
      /\ \A n \in 1..Len(q) : a[n] = q[n]
  OBVIOUS
<1> HIDE DEF a
<1>3. PICK g : IsSum(g, Len(a), Count(a)) /\ Total(a) = g[Len(a)]
  BY <1>2, TotalIsSum
<1>5. \A n \in 1..Len(q) : Count(q)[n] = Count(a)[n]
  BY <1>2 DEF Count
<1>4. Len(a) \in Nat /\ Len(q) \in 0..Len(a)
  BY <1>2
<1>6. \A n \in 0..Len(q) : g[n] = f[n]
  BY <1>1, <1>3, <1>4, <1>5, SumPrefix
<1>7. g[Len(q) + 1] = g[Len(q)] + Count(a)[Len(q) + 1]
  BY <1>2, <1>3 DEF IsSum
<1>8. Count(a)[Len(q) + 1] = e.count
  BY <1>2 DEF Count
<1> QED
  BY <1>1, <1>2, <1>3, <1>6, <1>7, <1>8 DEF a

(* Entries without errors.                                                 *)
LEMMA TotalZero ==
    ASSUME NEW S, Entry(S), NEW q \in Seq(S), \A n \in 1..Len(q) : q[n].count = 0
    PROVE  Total(q) = 0
<1>1. PICK f : IsSum(f, Len(q), Count(q)) /\ Total(q) = f[Len(q)]
  BY TotalIsSum
<1>2. Len(q) \in Nat /\ \A n \in 1..Len(q) : Count(q)[n] = 0
  BY DEF Count
<1> QED
  BY <1>1, <1>2, SumZero

-----------------------------------------------------------------------------
(* The list of a row against the history of its events.                    *)

Event == [start : Nat, count : Nat]

(* The list is the history without its first D events, and the record sums *)
(* it up.                                                                  *)
Account(rr, h, D) ==
    /\ Len(h) = D + Len(rr.pages)
    /\ \A n \in 1..Len(rr.pages) : /\ rr.pages[n].start = h[D + n].start
                                   /\ rr.pages[n].count = h[D + n].count
    /\ rr.count = Total(rr.pages)
    /\ rr.pages # << >> => rr.start = rr.pages[1].start

(* Events are handled in the order of their times, none after t.           *)
Ordered(h, t) ==
    /\ \A n \in 1..Len(h) : h[n].start <= t
    /\ \A m, n \in 1..Len(h) : m <= n => h[m].start <= h[n].start

(* The first D events are out of the cycle at t; the others are in it.     *)
Dropped(h, D, t) == \A n \in 1..D : t - h[n].start > Cycle
Kept(h, D, t) == \A n \in (D + 1)..Len(h) : t - h[n].start <= Cycle

RowOK(rr, h, t) ==
    /\ rr \in RowRecord
    /\ h \in Seq(Event)
    /\ Ordered(h, t)
    /\ \E D \in Nat : /\ Account(rr, h, D)
                      /\ h # << >> => /\ Dropped(h, D, h[Len(h)].start)
                                      /\ Kept(h, D, h[Len(h)].start)

(* Entries and events have counts.                                         *)
LEMMA EntriesCount == Entry(PageAddr) /\ Entry(PageAddr \cup Event)
  BY DEF Entry, PageAddr, Event

(* An empty list adds up to nothing.                                       *)
LEMMA TotalEmpty == Total(<< >>) = 0
<1>1. << >> \in Seq(PageAddr) /\ \A n \in 1..Len(<< >>) : FALSE
  OBVIOUS
<1> QED
  BY <1>1, EntriesCount, TotalZero

(* A row that has seen nothing.                                            *)
LEMMA FirstOK == RowOK(NoRecord, << >>, 0)
<1>1. NoRecord \in RowRecord /\ << >> \in Seq(Event) /\ NoRecord.pages = << >>
      /\ NoRecord.count = 0
  BY DEF NoRecord, RowRecord
<1>2. Ordered(<< >>, 0)
  BY DEF Ordered
<1>3. Account(NoRecord, << >>, 0)
  BY <1>1, TotalEmpty DEF Account
<1> QED
  BY <1>1, <1>2, <1>3 DEF RowOK

(* row_lookup_insert: the new event goes to the end of list and history.   *)
LEMMA InsertOK ==
    ASSUME NEW rr, NEW h, NEW u \in Nat, NEW t \in Nat, u <= t, RowOK(rr, h, u),
           NEW p \in Pages, NEW count \in Nat
    PROVE  LET ins == row_lookup_insert(rr, p, count, t)
               g == Append(h, [start |-> t, count |-> count])
           IN  /\ ins \in RowRecord /\ ins.pages # << >> /\ g \in Seq(Event) /\ Ordered(g, t)
               /\ g[Len(g)].start = t
               /\ \E D \in Nat : Account(ins, g, D) /\ Dropped(g, D, t)
<1> DEFINE ins == row_lookup_insert(rr, p, count, t)
           new == [start |-> t, count |-> count]
           g == Append(h, new)
           e == [addr |-> p, start |-> t, count |-> count, offlined |-> "PAGE_ONLINE"]
<1>1. /\ rr \in RowRecord /\ rr.pages \in Seq(PageAddr) /\ rr.start \in Nat /\ rr.count \in Nat
      /\ h \in Seq(Event) /\ Ordered(h, u)
  BY DEF RowOK, RowRecord
<1>2. e \in PageAddr /\ new \in Event
  BY DEF PageAddr, Event, PStates
<1>3. /\ ins.pages = Append(rr.pages, e) /\ ins.count = rr.count + count
      /\ ins.start = IF rr.pages = << >> THEN t ELSE rr.start
  BY DEF row_lookup_insert
<1>4. ins = [start |-> ins.start, count |-> ins.count, pages |-> ins.pages]
  BY DEF row_lookup_insert
<1> HIDE DEF ins
<1>5. /\ ins.pages \in Seq(PageAddr) /\ ins.pages # << >> /\ Len(rr.pages) \in Nat
      /\ Len(ins.pages) = Len(rr.pages) + 1 /\ ins.pages[Len(rr.pages) + 1] = e
      /\ \A n \in 1..Len(rr.pages) : ins.pages[n] = rr.pages[n]
  BY <1>1, <1>2, <1>3
<1>6. ins \in RowRecord
  <2>1. ins.start \in Nat /\ ins.count \in Nat
    BY <1>1, <1>3
  <2> QED
    BY <1>4, <1>5, <2>1 DEF RowRecord
<1>7. /\ g \in Seq(Event) /\ Len(g) = Len(h) + 1 /\ g[Len(h) + 1] = new /\ Len(h) \in Nat
      /\ \A n \in 1..Len(h) : g[n] = h[n]
  BY <1>1, <1>2
<1>8. g[Len(g)].start = t
  BY <1>7
<1>13. \A n \in 1..Len(h) : h[n].start \in Nat
  <2>1. \A n \in 1..Len(h) : h[n] \in Event
    BY <1>1
  <2> QED
    BY <2>1 DEF Event
<1> HIDE DEF g
<1>9. Ordered(g, t)
  <2>1. ASSUME NEW n \in 1..Len(g) PROVE g[n].start <= t
    <3>1. CASE n = Len(g)
      BY <1>8, <3>1
    <3>2. CASE n # Len(g)
      <4>1. n \in 1..Len(h)
        BY <1>7, <3>2
      <4>2. h[n].start <= u
        BY <1>1, <4>1 DEF Ordered
      <4> QED
        BY <1>7, <1>13, <4>1, <4>2
    <3> QED
      BY <3>1, <3>2
  <2>2. ASSUME NEW m \in 1..Len(g), NEW n \in 1..Len(g), m <= n
        PROVE  g[m].start <= g[n].start
    <3>1. CASE n = Len(g)
      BY <1>8, <2>1, <3>1
    <3>2. CASE n # Len(g)
      <4>1. m \in 1..Len(h) /\ n \in 1..Len(h)
        BY <1>7, <2>2, <3>2
      <4> QED
        BY <1>1, <1>7, <2>2, <4>1 DEF Ordered
    <3> QED
      BY <3>1, <3>2
  <2> QED
    BY <2>1, <2>2 DEF Ordered
<1>10. PICK D \in Nat : /\ Account(rr, h, D)
                        /\ h # << >> => Dropped(h, D, h[Len(h)].start)
  BY DEF RowOK
<1>11. Account(ins, g, D)
  <2>1. Len(h) = D + Len(rr.pages) /\ Len(g) = D + Len(ins.pages)
    BY <1>5, <1>7, <1>10 DEF Account
  <2>2. ASSUME NEW n \in 1..Len(ins.pages)
        PROVE  ins.pages[n].start = g[D + n].start /\ ins.pages[n].count = g[D + n].count
    <3>1. CASE n = Len(rr.pages) + 1
      <4>1. D + n = Len(h) + 1
        BY <1>5, <2>1, <3>1
      <4> QED
        BY <1>5, <1>7, <3>1, <4>1
    <3>2. CASE n # Len(rr.pages) + 1
      <4>1. n \in 1..Len(rr.pages) /\ D + n \in 1..Len(h)
        BY <1>5, <2>1, <3>2
      <4>2. rr.pages[n].start = h[D + n].start /\ rr.pages[n].count = h[D + n].count
        BY <1>10, <4>1 DEF Account
      <4> QED
        BY <1>5, <1>7, <4>1, <4>2
    <3> QED
      BY <3>1, <3>2
  <2>3. ins.count = Total(ins.pages)
    <3>1. rr.count = Total(rr.pages) /\ e.count = count
      BY <1>10 DEF Account
    <3>2. Total(Append(rr.pages, e)) = Total(rr.pages) + e.count
      BY <1>1, <1>2, EntriesCount, TotalAppend
    <3> QED
      BY <1>3, <3>1, <3>2
  <2>4. ins.start = ins.pages[1].start
    <3>1. CASE rr.pages = << >>
      BY <1>3, <1>5, <3>1
    <3>2. CASE rr.pages # << >>
      <4>1. rr.start = rr.pages[1].start /\ 1 \in 1..Len(rr.pages)
        BY <1>1, <1>5, <1>10, <3>2 DEF Account
      <4> QED
        BY <1>3, <1>5, <3>2, <4>1
    <3> QED
      BY <3>1, <3>2
  <2> QED
    BY <2>1, <2>2, <2>3, <2>4 DEF Account
<1>12. Dropped(g, D, t)
  <2> SUFFICES ASSUME NEW n \in 1..D PROVE t - g[n].start > Cycle
    BY DEF Dropped
  <2>1. Len(h) = D + Len(rr.pages) /\ n \in 1..Len(h) /\ Len(h) \in 1..Len(h) /\ h # << >>
    BY <1>5, <1>7, <1>10 DEF Account
  <2>2. h[Len(h)].start - h[n].start > Cycle
    BY <1>10, <2>1 DEF Dropped
  <2>3. h[Len(h)].start <= u /\ h[Len(h)].start \in Nat /\ h[n].start \in Nat
    BY <1>1, <1>13, <2>1 DEF Ordered
  <2>4. g[n].start = h[n].start
    BY <1>7, <2>1
  <2> QED
    BY <2>2, <2>3, <2>4, RowConstants
<1> QED
  BY <1>5, <1>6, <1>7, <1>8, <1>9, <1>11, <1>12 DEF ins, g

(* pr is the record rr of the history g without its first c entries, which *)
(* are out of the cycle; the others are in it.                             *)
Rest(rr, pr, g, D, t, c) ==
    /\ Account(pr, g, D + c) /\ Dropped(g, D + c, t) /\ Kept(g, D + c, t)
    /\ Len(rr.pages) = c + Len(pr.pages)
    /\ \A n \in 1..Len(pr.pages) : pr.pages[n] = rr.pages[c + n]

(* The first half of row_record leaves such a record.                      *)
LEMMA PurgedOK ==
    ASSUME NEW rr \in RowRecord, NEW g \in Seq(Event), NEW t \in Nat, NEW D \in Nat,
           rr.pages # << >>, Ordered(g, t), g[Len(g)].start = t, Account(rr, g, D), Dropped(g, D, t)
    PROVE  /\ Purged(rr, t) \in RowRecord
           /\ \E c \in Nat : Rest(rr, Purged(rr, t), g, D, t, c)
<1> DEFINE pr == Purged(rr, t)
           k == Len(rr.pages)
<1>1. /\ rr.pages \in Seq(PageAddr) /\ rr.start \in Nat /\ rr.count \in Nat
      /\ k \in Nat /\ k > 0 /\ Len(g) = D + k /\ Len(g) \in Nat
  BY DEF RowRecord, Account
<1>2. /\ \A n \in 1..k : rr.pages[n].start = g[D + n].start /\ rr.pages[n].count = g[D + n].count
      /\ rr.count = Total(rr.pages) /\ rr.start = rr.pages[1].start
  BY DEF Account
<1>3. \A n \in 1..Len(g) : g[n].start \in Nat /\ g[n].start <= t
  <2>1. \A n \in 1..Len(g) : g[n] \in Event
    OBVIOUS
  <2> QED
    BY <2>1 DEF Event, Ordered
<1>4. \A m, n \in 1..Len(g) : m <= n => g[m].start <= g[n].start
  BY DEF Ordered
<1>5. CASE t - rr.start <= Cycle
  <2>1. pr = rr
    BY <1>5 DEF Purged
  <2>2. Kept(g, D, t)
    <3> SUFFICES ASSUME NEW n \in (D + 1)..Len(g) PROVE t - g[n].start <= Cycle
      BY DEF Kept
    <3>1. n \in 1..Len(g) /\ D + 1 \in 1..Len(g) /\ D + 1 <= n /\ 1 \in 1..k
      BY <1>1
    <3>2. rr.start = g[D + 1].start
      BY <1>2, <3>1
    <3>3. g[D + 1].start <= g[n].start
      BY <1>4, <3>1
    <3> QED
      BY <1>3, <1>5, <3>1, <3>2, <3>3, RowConstants
  <2>3. D + 0 = D /\ Len(rr.pages) = 0 + Len(pr.pages)
    BY <1>1, <2>1
  <2>4. \A n \in 1..Len(pr.pages) : pr.pages[n] = rr.pages[0 + n]
    BY <1>1, <2>1
  <2>5. Account(pr, g, D + 0) /\ Dropped(g, D + 0, t) /\ Kept(g, D + 0, t) /\ pr \in RowRecord
    BY <2>1, <2>2, <2>3
  <2> HIDE DEF pr, k
  <2>6. Rest(rr, pr, g, D, t, 0)
    BY <2>3, <2>4, <2>5 DEF Rest
  <2> QED
    BY <2>5, <2>6 DEF pr
<1>6. CASE ~(t - rr.start <= Cycle)
  <2> DEFINE old == {n \in 1..k : \A m \in 1..n : t - rr.pages[m].start > Cycle}
             c == Cardinality(old)
             before == SubSeq(rr.pages, 1, c)
             rest == SubSeq(rr.pages, c + 1, k)
  <2>1. \A n \in old : \A m \in 1..n : m \in old
    <3> SUFFICES ASSUME NEW n \in old, NEW m \in 1..n PROVE m \in old
      OBVIOUS
    <3>1. n \in 1..k /\ m \in 1..k /\ \A j \in 1..m : j \in 1..n
      BY <1>1
    <3> QED
      BY <3>1
  <2>2. c \in 0..k /\ old = 1..c
    BY <1>1, <2>1, Beginning
  <2>3. pr = [start |-> IF rest = << >> THEN t ELSE rest[1].start,
              count |-> rr.count - Total(before), pages |-> rest]
    BY <1>6 DEF Purged
  <2>4. \A n \in 1..c : t - rr.pages[n].start > Cycle
    <3> SUFFICES ASSUME NEW n \in 1..c PROVE t - rr.pages[n].start > Cycle
      OBVIOUS
    <3>1. n \in old /\ n \in 1..n
      BY <2>2
    <3> QED
      BY <3>1
  <2>5. c < k
    <3>1. CASE c = k
      <4>1. k \in 1..c /\ k \in 1..k
        BY <1>1, <3>1
      <4>2. t - rr.pages[k].start > Cycle
        BY <2>4, <4>1
      <4>3. rr.pages[k].start = t
        BY <1>1, <1>2, <4>1
      <4> QED
        BY <4>2, <4>3, RowConstants
    <3> QED
      BY <1>1, <2>2, <3>1
  <2>6. t - rr.pages[c + 1].start <= Cycle
    <3>1. c + 1 \in 1..k /\ c + 1 \notin 1..c
      BY <2>2, <2>5
    <3>2. PICK m \in 1..(c + 1) : ~(t - rr.pages[m].start > Cycle)
      BY <2>2, <3>1
    <3>3. m = c + 1
      <4>1. m \notin 1..c
        BY <2>4, <3>2
      <4> QED
        BY <2>2, <4>1
    <3>5. D + (c + 1) \in 1..Len(g)
      BY <1>1, <3>1
    <3>4. rr.pages[c + 1].start \in Nat
      BY <1>2, <1>3, <3>1, <3>5
    <3> QED
      BY <3>2, <3>3, <3>4, RowConstants
  <2> HIDE DEF old, c
  <2>7. /\ before \in Seq(PageAddr) /\ Len(before) = c
        /\ \A n \in 1..c : before[n] = rr.pages[n]
    BY <1>1, <2>2
  <2>8. /\ rest \in Seq(PageAddr) /\ Len(rest) = k - c /\ rest # << >>
        /\ \A n \in 1..Len(rest) : rest[n] = rr.pages[c + n]
    <3>1. rest \in Seq(PageAddr)
      BY <1>1, <2>2, <2>5
    <3>2. Len(rest) = k - c
      BY <1>1, <2>2, <2>5
    <3>3. ASSUME NEW n \in 1..(k - c) PROVE rest[n] = rr.pages[c + n]
      <4>1. (c + 1) + n - 1 = c + n /\ n \in 1..(k - (c + 1) + 1)
        BY <1>1, <2>2
      <4> QED
        BY <1>1, <2>2, <2>5, <4>1
    <3>5. Len(rest) # 0
      BY <1>1, <2>2, <2>5, <3>2
    <3> HIDE DEF rest
    <3>4. rest # << >>
      BY <3>5
    <3> QED
      BY <3>1, <3>2, <3>3, <3>4
  <2> HIDE DEF before, rest
  <2>9. Total(rr.pages) = Total(before) + Total(rest)
    <3>1. Len(before) <= Len(rr.pages) /\ Len(rest) = Len(rr.pages) - Len(before)
      BY <1>1, <2>2, <2>7, <2>8
    <3>2. \A n \in 1..Len(before) : before[n].count = rr.pages[n].count
      BY <2>7
    <3>3. \A n \in 1..Len(rest) : rest[n].count = rr.pages[Len(before) + n].count
      BY <2>7, <2>8
    <3> QED
      BY <1>1, <2>7, <2>8, <3>1, <3>2, <3>3, EntriesCount, TotalSplit
  <2>10. Total(before) \in Nat /\ Total(rest) \in Nat
    BY <2>7, <2>8, EntriesCount, TotalNat
  <2>11. pr.pages = rest /\ pr.count = Total(rest) /\ pr.start = rest[1].start
    BY <1>2, <2>3, <2>8, <2>9, <2>10
  <2>12. \A n \in 1..Len(rest) : c + n \in 1..k /\ rest[n].start = g[(D + c) + n].start
                                 /\ rest[n].count = g[(D + c) + n].count
    <3> SUFFICES ASSUME NEW n \in 1..Len(rest)
                 PROVE  c + n \in 1..k /\ rest[n].start = g[(D + c) + n].start
                        /\ rest[n].count = g[(D + c) + n].count
      OBVIOUS
    <3>1. c + n \in 1..k /\ D + (c + n) = (D + c) + n
      BY <1>1, <2>2, <2>8
    <3>2. rest[n] = rr.pages[c + n]
      BY <2>8
    <3> QED
      BY <1>2, <3>1, <3>2
  <2>13. pr \in RowRecord
    <3>1. 1 \in 1..Len(rest) /\ D + (c + 1) \in 1..Len(g) /\ D + (c + 1) = (D + c) + 1
      BY <1>1, <2>2, <2>5, <2>8
    <3>2. rest[1].start \in Nat
      BY <1>3, <2>12, <3>1
    <3> QED
      BY <2>3, <2>8, <2>10, <2>11, <3>2 DEF RowRecord
  <2> HIDE DEF pr
  <2>14. Account(pr, g, D + c)
    <3>1. Len(g) = (D + c) + Len(rest)
      BY <1>1, <2>2, <2>8
    <3> QED
      BY <2>11, <2>12, <3>1 DEF Account
  <2>15. Dropped(g, D + c, t)
    <3> SUFFICES ASSUME NEW n \in 1..(D + c) PROVE t - g[n].start > Cycle
      BY DEF Dropped
    <3>1. CASE n \in 1..D
      BY <3>1 DEF Dropped
    <3>2. CASE n \notin 1..D
      <4>1. n - D \in 1..c /\ n - D \in 1..k /\ D + (n - D) = n
        BY <1>1, <2>2, <3>2
      <4>2. rr.pages[n - D].start = g[n].start
        BY <1>2, <4>1
      <4> QED
        BY <2>4, <4>1, <4>2
    <3> QED
      BY <3>1, <3>2
  <2>16. Kept(g, D + c, t)
    <3> SUFFICES ASSUME NEW n \in ((D + c) + 1)..Len(g) PROVE t - g[n].start <= Cycle
      BY DEF Kept
    <3>1. /\ n \in 1..Len(g) /\ D + (c + 1) \in 1..Len(g) /\ D + (c + 1) <= n
          /\ c + 1 \in 1..k
      BY <1>1, <2>2, <2>5
    <3>2. rr.pages[c + 1].start = g[D + (c + 1)].start
      BY <1>2, <3>1
    <3>3. g[D + (c + 1)].start <= g[n].start
      BY <1>4, <3>1
    <3> QED
      BY <1>3, <2>6, <3>1, <3>2, <3>3, RowConstants
  <2>17. k = c + Len(rest) /\ c \in Nat
    BY <1>1, <2>2, <2>8
  <2>18. Rest(rr, pr, g, D, t, c)
    BY <2>8, <2>11, <2>14, <2>15, <2>16, <2>17 DEF Rest
  <2> QED
    BY <2>13, <2>17, <2>18 DEF pr
<1> QED
  BY <1>5, <1>6

-----------------------------------------------------------------------------
(* row_offline's walk.                                                     *)

Walks == [pages : Seq(PageAddr), addrs : SUBSET Pages, size : Nat, tried : SUBSET Pages]

(* w is the walk over the first n entries q: their times and counts are    *)
(* kept and none is left online; and what was asked of the kernel.         *)
WalkOK(w, n, q) ==
    /\ w \in Walks /\ Len(w.pages) = n
    /\ \A m \in 1..n : /\ w.pages[m].start = q[m].start
                       /\ w.pages[m].count = q[m].count
                       /\ w.pages[m].offlined # "PAGE_ONLINE"
    /\ w.size \in 0..n

(* While addr_list has room for every entry, it knows every page that was  *)
(* offline, and a page is tried only at an entry that was not offline,     *)
(* with no entry before it that was.                                       *)
Offline(q, m, p) == q[m].addr = p /\ q[m].offlined = "PAGE_OFFLINE"
Cause(q, m, p) ==
    /\ q[m].addr = p /\ q[m].offlined # "PAGE_OFFLINE"
    /\ \A j \in 1..(m - 1) : ~Offline(q, j, p)
Listed(w, n, q) ==
    /\ \A m \in 1..n : q[m].offlined = "PAGE_OFFLINE" => q[m].addr \in w.addrs
    /\ \A p \in w.tried : \E m \in 1..n : Cause(q, m, p)

(* The three ways of an entry e, put back as x: it is known to be offline, *)
(* its page is, or the kernel is asked.                                    *)
Walked(w, e, x, v) ==
    /\ x.addr = e.addr /\ x.start = e.start /\ x.count = e.count
    /\ x.offlined # "PAGE_ONLINE"
    /\ v \in Walks /\ v.pages = Append(w.pages, x)
    /\ \/ /\ e.offlined = "PAGE_OFFLINE" /\ w.size < AddrListMax
          /\ v.size = w.size + 1 /\ v.addrs = w.addrs \cup {e.addr}
          /\ v.tried = w.tried
       \/ /\ e.addr \in w.addrs
          /\ v.size = w.size /\ v.addrs = w.addrs /\ v.tried = w.tried
       \/ /\ ~(e.offlined = "PAGE_OFFLINE" /\ w.size < AddrListMax)
          /\ e.addr \notin w.addrs
          /\ v.size \in {w.size, w.size + 1}
          /\ v.addrs \in {w.addrs, w.addrs \cup {e.addr}}
          /\ v.tried = w.tried \cup {e.addr}

(* WalkEntry is one of them.                                               *)
LEMMA EntryCases ==
    ASSUME NEW w \in Walks, NEW e \in PageAddr, NEW ok \in BOOLEAN
    PROVE  \E x \in PageAddr : Walked(w, e, x, WalkEntry(w, e, ok))
<1> DEFINE room == w.size < AddrListMax
           v == WalkEntry(w, e, ok)
           f(s) == [e EXCEPT !.offlined = s]
<1>1. \A s \in PStates : /\ f(s) \in PageAddr /\ f(s).addr = e.addr /\ f(s).start = e.start
                         /\ f(s).count = e.count /\ f(s).offlined = s
  BY DEF PageAddr
<1>5. ASSUME NEW x \in PageAddr PROVE Append(w.pages, x) \in Seq(PageAddr)
  BY DEF Walks
<1>6. e.addr \in Pages /\ w.addrs \in SUBSET Pages /\ w.tried \in SUBSET Pages /\ w.size \in Nat
  BY DEF Walks, PageAddr
<1>2. CASE e.offlined = "PAGE_OFFLINE" /\ room
  <2>1. v = [pages |-> Append(w.pages, e), addrs |-> w.addrs \cup {e.addr},
             size |-> w.size + 1, tried |-> w.tried \cup {}]
    BY <1>2 DEF WalkEntry
  <2> HIDE DEF v
  <2>2. v \in Walks
    BY <1>5, <1>6, <2>1 DEF Walks
  <2> QED
    BY <1>2, <2>1, <2>2 DEF v, Walked
<1>3. CASE ~(e.offlined = "PAGE_OFFLINE" /\ room) /\ e.addr \in w.addrs
  <2> DEFINE x == f("PAGE_OFFLINE")
  <2>1. v = [w EXCEPT !.pages = Append(w.pages, x)]
    BY <1>3 DEF WalkEntry
  <2>2. /\ x \in PageAddr /\ x.addr = e.addr /\ x.start = e.start /\ x.count = e.count
        /\ x.offlined # "PAGE_ONLINE"
    BY <1>1 DEF PStates
  <2> HIDE DEF v, x
  <2>3. /\ v \in Walks /\ v.pages = Append(w.pages, x) /\ v.addrs = w.addrs
        /\ v.size = w.size /\ v.tried = w.tried
    BY <1>5, <2>1, <2>2 DEF Walks
  <2> QED
    BY <1>3, <2>2, <2>3 DEF v, Walked
<1>4. CASE ~(e.offlined = "PAGE_OFFLINE" /\ room) /\ e.addr \notin w.addrs
  <2> DEFINE x == f(IF ok THEN "PAGE_OFFLINE" ELSE "PAGE_OFFLINE_FAILED")
             put == x.offlined = "PAGE_OFFLINE" /\ room
  <2>1. v = [pages |-> Append(w.pages, x),
             addrs |-> IF put THEN w.addrs \cup {e.addr} ELSE w.addrs,
             size |-> IF put THEN w.size + 1 ELSE w.size,
             tried |-> w.tried \cup {e.addr}]
    BY <1>4 DEF WalkEntry
  <2>2. /\ x \in PageAddr /\ x.addr = e.addr /\ x.start = e.start /\ x.count = e.count
        /\ x.offlined # "PAGE_ONLINE"
    BY <1>1 DEF PStates
  <2> HIDE DEF v, x, put
  <2>3. v \in Walks
    BY <1>5, <1>6, <2>1, <2>2 DEF Walks
  <2>4. /\ v.pages = Append(w.pages, x)
        /\ v.addrs \in {w.addrs, w.addrs \cup {e.addr}}
        /\ v.size \in {w.size, w.size + 1} /\ v.tried = w.tried \cup {e.addr}
    BY <2>1
  <2> QED
    BY <1>4, <2>2, <2>3, <2>4 DEF v, Walked
<1> QED
  BY <1>2, <1>3, <1>4

(* An entry keeps WalkOK.                                                  *)
LEMMA EntryOK ==
    ASSUME NEW w, NEW n \in Nat, NEW q \in Seq(PageAddr), n + 1 \in 1..Len(q), WalkOK(w, n, q),
           NEW ok \in BOOLEAN
    PROVE  LET v == WalkEntry(w, q[n + 1], ok)
           IN  /\ WalkOK(v, n + 1, q)
               /\ Listed(w, n, q) /\ Len(q) <= AddrListMax => Listed(v, n + 1, q)
<1> DEFINE e == q[n + 1]
           v == WalkEntry(w, e, ok)
<1>1. w \in Walks /\ e \in PageAddr /\ w.size \in 0..n
  BY DEF WalkOK
<1>2. PICK x \in PageAddr : Walked(w, e, x, v)
  BY <1>1, EntryCases
<1> HIDE DEF v
<1>3. w.pages \in Seq(PageAddr) /\ Len(w.pages) = n
  BY <1>1 DEF Walks, WalkOK
<1>4. WalkOK(v, n + 1, q)
  <2>1. Len(v.pages) = n + 1 /\ v.pages[n + 1] = x /\ \A m \in 1..n : v.pages[m] = w.pages[m]
    BY <1>2, <1>3 DEF Walked
  <2>2. v.size \in 0..(n + 1)
    BY <1>1, <1>2 DEF Walked
  <2>3. ASSUME NEW m \in 1..(n + 1)
        PROVE  /\ v.pages[m].start = q[m].start /\ v.pages[m].count = q[m].count
               /\ v.pages[m].offlined # "PAGE_ONLINE"
    <3>1. CASE m = n + 1
      BY <1>2, <2>1, <3>1 DEF Walked
    <3>2. CASE m # n + 1
      <4>1. m \in 1..n
        BY <3>2
      <4> QED
        BY <2>1, <4>1 DEF WalkOK
    <3> QED
      BY <3>1, <3>2
  <2> QED
    BY <1>2, <2>1, <2>2, <2>3 DEF WalkOK, Walked
<1>5. ASSUME Listed(w, n, q), Len(q) <= AddrListMax PROVE Listed(v, n + 1, q)
  <2>1. w.size < AddrListMax
    BY <1>1, <1>5, RowConstants
  <2>2. w.addrs \subseteq v.addrs /\ (e.offlined = "PAGE_OFFLINE" => e.addr \in v.addrs)
    BY <1>2, <2>1 DEF Walked
  <2>3. ASSUME NEW m \in 1..(n + 1), q[m].offlined = "PAGE_OFFLINE" PROVE q[m].addr \in v.addrs
    <3>1. CASE m = n + 1
      BY <2>2, <2>3, <3>1
    <3>2. CASE m # n + 1
      <4>1. m \in 1..n
        BY <3>2
      <4> QED
        BY <1>5, <2>2, <2>3, <4>1 DEF Listed
    <3> QED
      BY <3>1, <3>2
  <2>4. ASSUME NEW p \in v.tried PROVE \E m \in 1..(n + 1) : Cause(q, m, p)
    <3>1. CASE p \in w.tried
      <4>1. PICK m \in 1..n : Cause(q, m, p)
        BY <1>5, <3>1 DEF Listed
      <4>2. m \in 1..(n + 1)
        OBVIOUS
      <4> QED
        BY <4>1, <4>2
    <3>2. CASE p \notin w.tried
      <4>1. p = e.addr /\ e.offlined # "PAGE_OFFLINE" /\ e.addr \notin w.addrs
        BY <1>2, <2>1, <2>4, <3>2 DEF Walked
      <4>2. ASSUME NEW j \in 1..((n + 1) - 1) PROVE ~Offline(q, j, p)
        <5>1. j \in 1..n
          OBVIOUS
        <5> QED
          BY <1>5, <4>1, <5>1 DEF Listed, Offline
      <4>3. Cause(q, n + 1, p) /\ n + 1 \in 1..(n + 1)
        BY <4>1, <4>2 DEF Cause
      <4> QED
        BY <4>3
    <3> QED
      BY <3>1, <3>2
  <2> QED
    BY <2>3, <2>4 DEF Listed
<1> QED
  BY <1>4, <1>5 DEF v

(* f holds the walks over the first 0, 1, ... L entries.                   *)
IsWalk(f, L, q, ok) ==
    f = [n \in 0..L |-> IF n = 0 THEN WalkStart ELSE WalkEntry(f[n-1], q[n], ok[n])]

(* There is such a function.                                               *)
LEMMA WalkExists ==
    ASSUME NEW L \in Nat, NEW q, NEW ok PROVE \E f : IsWalk(f, L, q, ok)
<1> DEFINE S == {m \in 0..L : \E f : IsWalk(f, m, q, ok)}
<1>1. 0 \in S
  <2> DEFINE g == [n \in 0..0 |-> WalkStart]
  <2>1. IsWalk(g, 0, q, ok)
    BY DEF IsWalk
  <2> QED
    BY <2>1
<1>2. ASSUME NEW m \in 0..L, m \in S, m < L PROVE m + 1 \in S
  <2>1. PICK f : IsWalk(f, m, q, ok)
    BY <1>2
  <2> DEFINE g == [n \in 0..(m + 1) |->
                     IF n = m + 1 THEN WalkEntry(f[m], q[m + 1], ok[m + 1]) ELSE f[n]]
             b == [n \in 0..(m + 1) |->
                     IF n = 0 THEN WalkStart ELSE WalkEntry(g[n-1], q[n], ok[n])]
  <2>2. ASSUME NEW n \in 0..(m + 1) PROVE g[n] = b[n]
    <3>1. CASE n = m + 1
      <4>1. g[m] = f[m] /\ m \in 0..(m + 1) /\ m = (m + 1) - 1 /\ m + 1 # 0
        OBVIOUS
      <4> QED
        BY <3>1, <4>1
    <3>2. CASE n = 0
      <4>1. f[0] = WalkStart
        BY <2>1 DEF IsWalk
      <4> QED
        BY <3>2, <4>1
    <3>3. CASE n # 0 /\ n # m + 1
      <4>1. n \in 1..m /\ n \in 0..m /\ n - 1 \in 0..(m + 1) /\ n - 1 # m + 1
        BY <3>3
      <4>2. f[n] = WalkEntry(f[n - 1], q[n], ok[n])
        BY <2>1, <4>1 DEF IsWalk
      <4>3. g[n] = f[n] /\ g[n - 1] = f[n - 1]
        BY <4>1
      <4> HIDE DEF g
      <4> QED
        BY <3>3, <4>2, <4>3
    <3> QED
      BY <3>1, <3>2, <3>3
  <2>3. g = b
    BY <2>2
  <2>4. IsWalk(g, m + 1, q, ok)
    BY <2>3 DEF IsWalk
  <2> QED
    BY <1>2, <2>4
<1> HIDE DEF S
<1>3. \A n \in 0..L : n \in S
  BY <1>1, <1>2, Induction
<1> QED
  BY <1>3 DEF S

(* The walk over a whole list.                                             *)
LEMMA RowWalkOK ==
    ASSUME NEW q \in Seq(PageAddr), NEW ok \in [DOMAIN q -> BOOLEAN]
    PROVE  /\ WalkOK(RowWalk(q, ok), Len(q), q)
           /\ Len(q) <= AddrListMax => Listed(RowWalk(q, ok), Len(q), q)
<1> DEFINE L == Len(q)
           s == CHOOSE f : IsWalk(f, L, q, ok)
           S == {n \in 0..L : /\ WalkOK(s[n], n, q)
                              /\ L <= AddrListMax => Listed(s[n], n, q)}
<1>1. L \in Nat /\ \A n \in 1..L : ok[n] \in BOOLEAN
  OBVIOUS
<1>2. IsWalk(s, L, q, ok)
  BY <1>1, WalkExists
<1>3. RowWalk(q, ok) = s[L]
  BY DEF RowWalk, IsWalk
<1> HIDE DEF s
<1>4. s[0] = WalkStart
  BY <1>1, <1>2 DEF IsWalk
<1>5. ASSUME NEW n \in 0..L, n < L PROVE s[n + 1] = WalkEntry(s[n], q[n + 1], ok[n + 1])
  <2>1. n + 1 \in 0..L /\ n + 1 # 0 /\ (n + 1) - 1 = n
    BY <1>1, <1>5
  <2> QED
    BY <1>2, <2>1 DEF IsWalk
<1>6. 0 \in S
  <2>1. WalkStart \in Walks /\ WalkStart.pages = << >> /\ WalkStart.size = 0 /\ WalkStart.tried = {}
    BY DEF WalkStart, Walks
  <2>2. WalkOK(WalkStart, 0, q) /\ Listed(WalkStart, 0, q)
    BY <2>1 DEF WalkOK, Listed
  <2> QED
    BY <1>1, <1>4, <2>2
<1>7. ASSUME NEW n \in 0..L, n \in S, n < L PROVE n + 1 \in S
  <2>1. n \in Nat /\ n + 1 \in 1..L /\ n + 1 \in 0..L /\ ok[n + 1] \in BOOLEAN
    BY <1>1, <1>7
  <2>2. WalkOK(s[n], n, q) /\ (L <= AddrListMax => Listed(s[n], n, q))
    BY <1>7
  <2>3. /\ WalkOK(s[n + 1], n + 1, q)
        /\ L <= AddrListMax => Listed(s[n + 1], n + 1, q)
    BY <1>5, <1>7, <2>1, <2>2, EntryOK
  <2> QED
    BY <2>1, <2>3
<1> HIDE DEF S
<1>8. \A n \in 0..L : n \in S
  BY <1>1, <1>6, <1>7, Induction
<1>9. L \in S
  BY <1>1, <1>8
<1> QED
  BY <1>3, <1>9 DEF S

-----------------------------------------------------------------------------
(* The record that row_record leaves, with or without the walk.            *)
LEMMA RecordOK ==
    ASSUME NEW pr \in RowRecord, NEW g \in Seq(Event), NEW t \in Nat, NEW D \in Nat,
           Ordered(g, t), g[Len(g)].start = t, Account(pr, g, D), Dropped(g, D, t), Kept(g, D, t)
    PROVE  /\ RowOK(pr, g, t)
           /\ \A ok \in [DOMAIN pr.pages -> BOOLEAN] :
                 RowOK([pr EXCEPT !.pages = RowWalk(pr.pages, ok).pages], g, t)
<1>1. RowOK(pr, g, t)
  BY DEF RowOK
<1>2. ASSUME NEW ok \in [DOMAIN pr.pages -> BOOLEAN]
      PROVE  RowOK([pr EXCEPT !.pages = RowWalk(pr.pages, ok).pages], g, t)
  <2> DEFINE q == pr.pages
             w == RowWalk(pr.pages, ok)
             new == [pr EXCEPT !.pages = w.pages]
  <2>1. q \in Seq(PageAddr)
    BY DEF RowRecord
  <2>2. WalkOK(w, Len(q), q)
    BY <2>1, RowWalkOK
  <2> HIDE DEF w
  <2>3. /\ w.pages \in Seq(PageAddr) /\ Len(w.pages) = Len(q)
        /\ \A m \in 1..Len(q) : w.pages[m].start = q[m].start /\ w.pages[m].count = q[m].count
    BY <2>2 DEF WalkOK, Walks
  <2>4. /\ new \in RowRecord /\ new.pages = w.pages /\ new.count = pr.count
        /\ new.start = pr.start
    BY <2>3 DEF RowRecord
  <2> HIDE DEF new
  <2>5. Account(new, g, D)
    <3>1. Total(w.pages) = Total(q)
      BY <2>1, <2>3, EntriesCount, TotalSame
    <3>2. new.pages # << >> => new.start = new.pages[1].start
      <4> SUFFICES ASSUME w.pages # << >> PROVE pr.start = w.pages[1].start
        BY <2>4
      <4>1. Len(q) \in Nat /\ Len(q) > 0 /\ q # << >>
        BY <2>1, <2>3
      <4>2. pr.start = q[1].start
        BY <4>1 DEF Account
      <4> QED
        BY <2>3, <4>1, <4>2
    <3> QED
      BY <2>3, <2>4, <3>1, <3>2 DEF Account
  <2> QED
    BY <2>4, <2>5 DEF RowOK, new, w
<1> QED
  BY <1>1, <1>2

RowInv ==
    /\ TypeOK
    /\ history \in [Rows -> Seq(Event)]
    /\ \A r \in Rows : RowOK(rows[r], history[r], now)

(* What one step does to the row it is about: the list it finds, with the  *)
(* new entry e at the end and without the c entries at the head that are   *)
(* out of the cycle, is pr.pages; then the walk, if it is due.             *)
Handled(r, e, pr, c) ==
    /\ pr \in RowRecord /\ c \in Nat
    /\ Len(rows[r].pages) + 1 = c + Len(pr.pages)
    /\ \A n \in 1..Len(pr.pages) : pr.pages[n] = Append(rows[r].pages, e)[c + n]
    /\ \A n \in 1..Len(rows[r].pages) : n <= c => now' - rows[r].pages[n].start > Cycle
    /\ IF pr.count >= Threshold /\ row_offline_action > OFFLINE_ACCOUNT
       THEN \E ok \in [DOMAIN pr.pages -> BOOLEAN] :
               /\ rows'[r] = [pr EXCEPT !.pages = RowWalk(pr.pages, ok).pages]
               /\ tried' = RowWalk(pr.pages, ok).tried
       ELSE rows'[r] = pr /\ tried' = {}

(* Every step keeps the invariant and handles one row that way.            *)
LEMMA RowStep ==
    ASSUME RowInv,
           NEW r \in Rows, NEW p \in Pages, NEW reported \in Counts, NEW t \in 0..MaxTime,
           ras_record_row_error(r, p, reported, t)
    PROVE  /\ RowInv'
           /\ now' = t
           /\ \A s \in Rows : s # r => history'[s] = history[s]
           /\ \E e \in PageAddr, pr \in RowRecord, c \in Nat :
                 /\ e.addr = p /\ e.start = t /\ e.offlined = "PAGE_ONLINE"
                 /\ Handled(r, e, pr, c)
<1> DEFINE count == ErrorCount(reported)
           rr == rows[r]
           h == history[r]
           ins == row_lookup_insert(rr, p, count, t)
           g == Append(h, [start |-> t, count |-> count])
           pr == Purged(ins, t)
           e == [addr |-> p, start |-> t, count |-> count, offlined |-> "PAGE_ONLINE"]
<1>1. /\ now' = t /\ now <= t /\ t \in Nat /\ now \in Nat /\ count \in Nat /\ MaxTime \in Nat
      /\ row_offline_action' = row_offline_action
  BY RowConstants DEF ras_record_row_error, RowInv, TypeOK, ErrorCount
<1>2. history' = [history EXCEPT ![r] = g] /\ row_record(r, ins, t)
  BY DEF ras_record_row_error
<1>3. RowOK(rr, h, now)
  BY DEF RowInv
<1> HIDE DEF count, ins, pr, rr, h, g
<1>4. /\ ins \in RowRecord /\ ins.pages # << >> /\ g \in Seq(Event) /\ Ordered(g, t)
      /\ g[Len(g)].start = t
      /\ \E D \in Nat : Account(ins, g, D) /\ Dropped(g, D, t)
  BY <1>1, <1>3, InsertOK DEF ins, g
<1>5. PICK D \in Nat : Account(ins, g, D) /\ Dropped(g, D, t)
  BY <1>4
<1>6. pr \in RowRecord /\ \E c \in Nat : Rest(ins, pr, g, D, t, c)
  BY <1>1, <1>4, <1>5, PurgedOK DEF pr
<1>17. PICK c \in Nat : Rest(ins, pr, g, D, t, c)
  BY <1>6
<1>7. /\ Account(pr, g, D + c) /\ Dropped(g, D + c, t) /\ Kept(g, D + c, t)
      /\ Len(ins.pages) = c + Len(pr.pages)
      /\ \A n \in 1..Len(pr.pages) : pr.pages[n] = ins.pages[c + n]
  BY <1>17 DEF Rest
<1>8. D + c \in Nat
  OBVIOUS
<1>9. /\ RowOK(pr, g, t)
      /\ \A ok \in [DOMAIN pr.pages -> BOOLEAN] :
            RowOK([pr EXCEPT !.pages = RowWalk(pr.pages, ok).pages], g, t)
  BY <1>1, <1>4, <1>6, <1>7, <1>8, RecordOK
<1>10. rows \in [Rows -> RowRecord] /\ history \in [Rows -> Seq(Event)]
  BY DEF RowInv, TypeOK
<1>11. PICK new \in RowRecord :
          /\ rows' = [rows EXCEPT ![r] = new]
          /\ RowOK(new, g, t)
          /\ tried' \in SUBSET Pages
          /\ IF pr.count >= Threshold /\ row_offline_action > OFFLINE_ACCOUNT
             THEN \E ok \in [DOMAIN pr.pages -> BOOLEAN] :
                     /\ new = [pr EXCEPT !.pages = RowWalk(pr.pages, ok).pages]
                     /\ tried' = RowWalk(pr.pages, ok).tried
             ELSE new = pr /\ tried' = {}
  <2>1. CASE pr.count >= Threshold /\ row_offline_action > OFFLINE_ACCOUNT
    <3>1. PICK ok \in [DOMAIN pr.pages -> BOOLEAN] :
            /\ rows' = [rows EXCEPT ![r] = [pr EXCEPT !.pages = RowWalk(pr.pages, ok).pages]]
            /\ tried' = RowWalk(pr.pages, ok).tried
      BY <1>2, <2>1 DEF row_record, pr
    <3>2. RowOK([pr EXCEPT !.pages = RowWalk(pr.pages, ok).pages], g, t)
      BY <1>9
    <3>3. [pr EXCEPT !.pages = RowWalk(pr.pages, ok).pages] \in RowRecord
      BY <3>2 DEF RowOK
    <3>4. pr.pages \in Seq(PageAddr)
      BY <1>6 DEF RowRecord
    <3>5. RowWalk(pr.pages, ok) \in Walks
      BY <3>4, RowWalkOK DEF WalkOK
    <3>6. tried' \in SUBSET Pages
      BY <3>1, <3>5 DEF Walks
    <3> QED
      BY <2>1, <3>1, <3>2, <3>3, <3>6
  <2>2. CASE ~(pr.count >= Threshold /\ row_offline_action > OFFLINE_ACCOUNT)
    <3>1. rows' = [rows EXCEPT ![r] = pr] /\ tried' = {}
      BY <1>2, <2>2 DEF row_record, pr
    <3> QED
      BY <1>6, <1>9, <2>2, <3>1
  <2> QED
    BY <2>1, <2>2
<1>12. /\ rows' \in [Rows -> RowRecord] /\ history' \in [Rows -> Seq(Event)]
       /\ rows'[r] = new /\ history'[r] = g
       /\ \A s \in Rows : s # r => rows'[s] = rows[s] /\ history'[s] = history[s]
  BY <1>2, <1>4, <1>10, <1>11
<1>13. RowInv'
  <2>1. TypeOK'
    BY <1>1, <1>11, <1>12 DEF TypeOK, RowInv
  <2>2. ASSUME NEW s \in Rows PROVE RowOK(rows'[s], history'[s], now')
    <3>1. CASE s = r
      BY <1>1, <1>11, <1>12, <3>1
    <3>2. CASE s # r
      <4>1. RowOK(rows[s], history[s], now)
        BY DEF RowInv
      <4>2. \A n \in 1..Len(history[s]) : history[s][n].start \in Nat
        <5>1. \A n \in 1..Len(history[s]) : history[s][n] \in Event
          BY <1>10
        <5> QED
          BY <5>1 DEF Event
      <4>3. Ordered(history[s], t)
        BY <1>1, <4>1, <4>2 DEF RowOK, Ordered
      <4>4. RowOK(rows[s], history[s], t)
        BY <4>1, <4>3 DEF RowOK
      <4> QED
        BY <1>1, <1>12, <3>2, <4>4
    <3> QED
      BY <3>1, <3>2
  <2> QED
    BY <1>12, <2>1, <2>2 DEF RowInv
<1>14. e \in PageAddr /\ e.addr = p /\ e.start = t /\ e.offlined = "PAGE_ONLINE"
  BY <1>1 DEF PageAddr, PStates
<1>15. ins.pages = Append(rows[r].pages, e)
  BY DEF ins, row_lookup_insert, rr
<1>16. Handled(r, e, pr, c)
  <2>1. rows[r].pages \in Seq(PageAddr)
    BY <1>10 DEF RowRecord
  <2>2. Len(ins.pages) = Len(rows[r].pages) + 1
    BY <1>14, <1>15, <2>1
  <2>3. \A n \in 1..Len(pr.pages) : pr.pages[n] = Append(rows[r].pages, e)[c + n]
    BY <1>7, <1>15
  <2>4. ASSUME NEW n \in 1..Len(rows[r].pages), n <= c
        PROVE  now' - rows[r].pages[n].start > Cycle
    <3>1. n \in 1..Len(ins.pages) /\ D + n \in 1..(D + c)
      BY <2>1, <2>2, <2>4
    <3>2. ins.pages[n] = rows[r].pages[n]
      BY <1>14, <1>15, <2>1
    <3>3. ins.pages[n].start = g[D + n].start
      BY <1>5, <3>1 DEF Account
    <3>4. t - g[D + n].start > Cycle
      BY <1>7, <3>1 DEF Dropped
    <3> QED
      BY <1>1, <3>2, <3>3, <3>4
  <2> HIDE DEF e
  <2> QED
    BY <1>6, <1>7, <1>11, <1>12, <2>2, <2>3, <2>4 DEF Handled
<1> HIDE DEF e
<1> QED
  BY <1>1, <1>6, <1>12, <1>13, <1>14, <1>16

(* The step leaves the row with its pages offlined or tried, or asks for   *)
(* nothing.                                                                *)
LEMMA HotRow ==
    ASSUME NEW r \in Rows, NEW e, NEW pr, NEW c, Handled(r, e, pr, c)
    PROVE  IF rows'[r].count >= Threshold /\ row_offline_action > OFFLINE_ACCOUNT
           THEN \A n \in DOMAIN rows'[r].pages : rows'[r].pages[n].offlined # "PAGE_ONLINE"
           ELSE tried' = {}
<1>1. CASE pr.count >= Threshold /\ row_offline_action > OFFLINE_ACCOUNT
  <2>1. PICK ok \in [DOMAIN pr.pages -> BOOLEAN] :
               /\ rows'[r] = [pr EXCEPT !.pages = RowWalk(pr.pages, ok).pages]
               /\ tried' = RowWalk(pr.pages, ok).tried
    BY <1>1 DEF Handled
  <2>2. pr \in RowRecord /\ pr.pages \in Seq(PageAddr)
    BY DEF Handled, RowRecord
  <2> DEFINE w == RowWalk(pr.pages, ok)
  <2>3. WalkOK(w, Len(pr.pages), pr.pages)
    BY <2>2, RowWalkOK
  <2> HIDE DEF w
  <2>4. rows'[r].pages = w.pages /\ rows'[r].count = pr.count
    BY <2>1, <2>2 DEF RowRecord, w
  <2>5. DOMAIN w.pages = 1..Len(pr.pages)
    BY <2>3 DEF WalkOK, Walks
  <2>6. \A n \in 1..Len(pr.pages) : w.pages[n].offlined # "PAGE_ONLINE"
    BY <2>3 DEF WalkOK
  <2> QED
    BY <1>1, <2>4, <2>5, <2>6
<1>2. CASE ~(pr.count >= Threshold /\ row_offline_action > OFFLINE_ACCOUNT)
  BY <1>2 DEF Handled
<1> QED
  BY <1>1, <1>2

(* A page is tried only if an entry of it is not offline or too old, or    *)
(* the row did not know it.                                                *)
LEMMA Remembered ==
    ASSUME RowInv, NEW r \in Rows, NEW e \in PageAddr, NEW pr, NEW c, Handled(r, e, pr, c),
           NEW p \in tried', Len(rows'[r].pages) <= AddrListMax,
           NEW n \in Entries(r, p)
    PROVE  \E m \in Entries(r, p) : \/ rows[r].pages[m].offlined # "PAGE_OFFLINE"
                                    \/ now' - rows[r].pages[m].start > Cycle
<1> DEFINE q == pr.pages
           old == rows[r].pages
           k == Len(rows[r].pages)
<1> SUFFICES ASSUME \A m \in Entries(r, p) : /\ old[m].offlined = "PAGE_OFFLINE"
                                            /\ ~(now' - old[m].start > Cycle)
             PROVE  FALSE
  OBVIOUS
<1>1. PICK ok \in [DOMAIN q -> BOOLEAN] :
               /\ rows'[r] = [pr EXCEPT !.pages = RowWalk(q, ok).pages]
               /\ tried' = RowWalk(q, ok).tried
  BY DEF Handled
<1>2. /\ pr \in RowRecord /\ q \in Seq(PageAddr) /\ Len(q) \in Nat /\ c \in Nat
      /\ k + 1 = c + Len(q)
  BY DEF Handled, RowRecord
<1>3. old \in Seq(PageAddr) /\ k \in Nat /\ DOMAIN old = 1..k
  BY DEF RowInv, TypeOK, RowRecord
<1> DEFINE w == RowWalk(q, ok)
<1>4. WalkOK(w, Len(q), q) /\ (Len(q) <= AddrListMax => Listed(w, Len(q), q))
  BY <1>2, RowWalkOK
<1> HIDE DEF w
<1>5. rows'[r].pages = w.pages /\ Len(w.pages) = Len(q)
  BY <1>1, <1>2, <1>4 DEF RowRecord, WalkOK, w
<1>6. PICK m \in 1..Len(q) : Cause(q, m, p)
  BY <1>1, <1>4, <1>5 DEF Listed, w
<1>7. \A j \in 1..Len(q) : q[j] = Append(old, e)[c + j]
  BY DEF Handled
<1>8. \A j \in 1..k : Append(old, e)[j] = old[j]
  BY <1>3
<1>9. c + m \notin 1..k
  <2>1. CASE c + m \in 1..k
    <3>1. q[m] = old[c + m]
      BY <1>7, <1>8, <2>1
    <3>2. c + m \in Entries(r, p)
      BY <1>3, <1>6, <2>1, <3>1 DEF Cause, Entries
    <3> QED
      BY <1>6, <3>1, <3>2 DEF Cause
  <2> QED
    BY <2>1
<1>10. m = Len(q)
  BY <1>2, <1>3, <1>9
<1>11. n \in 1..k /\ old[n].addr = p /\ old[n].offlined = "PAGE_OFFLINE"
  BY <1>3 DEF Entries
<1>12. ~(n <= c)
  BY <1>11 DEF Handled
<1>13. n - c \in 1..(m - 1) /\ n - c \in 1..Len(q) /\ c + (n - c) = n
  BY <1>2, <1>3, <1>10, <1>11, <1>12
<1>14. q[n - c] = old[n]
  BY <1>7, <1>8, <1>11, <1>13
<1> QED
  BY <1>6, <1>11, <1>13, <1>14 DEF Cause, Offline

(* A step of the specification.                                            *)
LEMMA NextRow ==
    ASSUME RowInv, [Next]_vars PROVE RowInv' /\ [HotRowStep]_vars /\ [RememberedStep]_vars
<1>1. CASE UNCHANGED vars
  BY <1>1 DEF RowInv, TypeOK, vars
<1>2. CASE Next
  <2>1. PICK r \in Rows, p \in Pages, reported \in Counts, t \in 0..MaxTime :
            ras_record_row_error(r, p, reported, t)
    BY <1>2 DEF Next
  <2>2. /\ RowInv'
        /\ \A s \in Rows : s # r => history'[s] = history[s]
        /\ \E e \in PageAddr, pr \in RowRecord, c \in Nat : Handled(r, e, pr, c)
    BY <2>1, RowStep
  <2>3. PICK e \in PageAddr, pr \in RowRecord, c \in Nat : Handled(r, e, pr, c)
    BY <2>2
  <2>4. HotRowStep
    <3> SUFFICES ASSUME NEW s \in Rows, Touched(s)
                 PROVE  IF rows'[s].count >= Threshold /\ row_offline_action > OFFLINE_ACCOUNT
                        THEN \A n \in DOMAIN rows'[s].pages : rows'[s].pages[n].offlined # "PAGE_ONLINE"
                        ELSE tried' = {}
      BY DEF HotRowStep
    <3>1. s = r
      BY <2>2 DEF Touched
    <3> QED
      BY <2>3, <3>1, HotRow
  <2>5. RememberedStep
    <3> SUFFICES ASSUME NEW s \in Rows, NEW x \in tried', Touched(s),
                        Len(rows'[s].pages) <= AddrListMax, NEW n \in Entries(s, x)
                 PROVE  \E m \in Entries(s, x) : \/ rows[s].pages[m].offlined # "PAGE_OFFLINE"
                                                 \/ now' - rows[s].pages[m].start > Cycle
      BY DEF RememberedStep
    <3>1. s = r
      BY <2>2 DEF Touched
    <3> QED
      BY <2>3, <3>1, Remembered
  <2> QED
    BY <2>2, <2>4, <2>5
<1> QED
  BY <1>1, <1>2

(* RowInv is an invariant of the specification.                            *)
LEMMA RowsAlways == Spec => []RowInv
<1>1. Init => RowInv
  <2> SUFFICES ASSUME Init PROVE RowInv
    OBVIOUS
  <2>1. row_offline_action \in OTypes
    BY DEF Init, row_offline_init, OTypes, OFFLINE_OFF, OFFLINE_ACCOUNT, OFFLINE_SOFT, OFFLINE_HARD,
           OFFLINE_SOFT_THEN_HARD
  <2>2. \A r \in Rows : rows[r] = NoRecord /\ history[r] = << >>
    BY DEF Init
  <2>3. NoRecord \in RowRecord /\ << >> \in Seq(Event)
    BY FirstOK DEF RowOK
  <2>4. /\ rows = [r \in Rows |-> NoRecord] /\ history = [r \in Rows |-> << >>]
        /\ now = 0 /\ tried = {}
    BY DEF Init
  <2>5. TypeOK /\ history \in [Rows -> Seq(Event)]
    BY <2>1, <2>3, <2>4, RowConstants DEF TypeOK
  <2> QED
    BY <2>2, <2>4, <2>5, FirstOK DEF RowInv
<1>2. RowInv /\ [Next]_vars => RowInv'
  BY NextRow
<1> QED
  BY <1>1, <1>2, PTL DEF Spec

(* The count of a row is the number of errors of its last cycle: the list  *)
(* row_record keeps is exactly the part of the history it is the sum of.   *)
THEOREM RowCountsItsWindow == Spec => []SlidingWindow
<1>1. RowInv => SlidingWindow
  <2> SUFFICES ASSUME RowInv, NEW r \in Rows, history[r] # << >>
               PROVE  rows[r].count = Total(Window(r))
    BY DEF SlidingWindow
  <2> DEFINE h == history[r]
             S == PageAddr \cup Event
             a == Window(r)
             q == rows[r].pages
  <2>1. /\ rows[r] \in RowRecord /\ h \in Seq(Event) /\ q \in Seq(PageAddr)
        /\ \E D \in Nat : Account(rows[r], h, D) /\ Dropped(h, D, Last(r)) /\ Kept(h, D, Last(r))
    BY DEF RowInv, RowOK, RowRecord, Last
  <2>2. PICK D \in Nat : Account(rows[r], h, D) /\ Dropped(h, D, Last(r)) /\ Kept(h, D, Last(r))
    BY <2>1
  <2>3. Len(h) \in Nat /\ Len(q) \in Nat /\ Len(h) = D + Len(q) /\ rows[r].count = Total(q)
    BY <2>1, <2>2 DEF Account
  <2>4. ASSUME NEW n \in 1..Len(h)
        PROVE  /\ a[n] \in Event
               /\ a[n].count = IF Last(r) - h[n].start <= Cycle THEN h[n].count ELSE 0
    <3>1. h[n] \in Event
      BY <2>1
    <3> QED
      BY <3>1 DEF Window, Event
  <2>5. a \in Seq(S) /\ Len(a) = Len(h)
    <3>1. a = [n \in 1..Len(h) |-> a[n]]
      BY DEF Window
    <3> HIDE DEF a
    <3>2. \A n \in 1..Len(h) : a[n] \in S
      BY <2>4
    <3>3. a \in [1..Len(h) -> S]
      BY <3>1, <3>2
    <3> HIDE DEF S, h
    <3>4. a \in Seq(S)
      BY <2>3, <3>3
    <3> QED
      BY <2>3, <3>3, <3>4
  <2> HIDE DEF a
  <2> DEFINE b == [n \in 1..D |-> a[n]]
  <2>6. b \in Seq(S) /\ Len(b) = D /\ \A n \in 1..D : b[n] = a[n]
    <3>1. \A n \in 1..D : n \in 1..Len(h)
      BY <2>3
    <3> QED
      BY <2>4, <3>1
  <2> HIDE DEF b
  <2>7. \A n \in 1..Len(b) : b[n].count = 0
    <3> SUFFICES ASSUME NEW n \in 1..D PROVE b[n].count = 0
      BY <2>6
    <3>1. n \in 1..Len(h) /\ Last(r) - h[n].start > Cycle
      BY <2>2, <2>3 DEF Dropped
    <3>2. Last(r) \in Nat /\ h[n].start \in Nat
      <4>1. h[n] \in Event /\ h[Len(h)] \in Event
        BY <2>1, <2>3, <3>1
      <4> QED
        BY <4>1 DEF Event, Last
    <3>3. ~(Last(r) - h[n].start <= Cycle)
      BY <3>1, <3>2, RowConstants
    <3> QED
      BY <2>4, <2>6, <3>1, <3>3
  <2>8. \A n \in 1..Len(q) : q[n].count = a[Len(b) + n].count
    <3> SUFFICES ASSUME NEW n \in 1..Len(q) PROVE q[n].count = a[D + n].count
      BY <2>6
    <3>1. D + n \in 1..Len(h) /\ D + n \in (D + 1)..Len(h)
      BY <2>3
    <3>2. Last(r) - h[D + n].start <= Cycle
      BY <2>2, <3>1 DEF Kept
    <3>3. a[D + n].count = h[D + n].count
      BY <2>4, <3>1, <3>2
    <3> QED
      BY <2>2, <3>3 DEF Account
  <2>9. Total(b) = 0
    BY <2>6, <2>7, EntriesCount, TotalZero
  <2>10. q \in Seq(S)
    BY <2>1
  <2>11. /\ Len(b) <= Len(a) /\ Len(q) = Len(a) - Len(b)
         /\ \A n \in 1..Len(b) : b[n].count = a[n].count
    BY <2>3, <2>5, <2>6
  <2> HIDE DEF q, S
  <2>12. Total(a) = Total(b) + Total(q)
    BY <2>5, <2>6, <2>8, <2>10, <2>11, EntriesCount, TotalSplit DEF S
  <2>13. Total(q) \in Nat
    BY <2>1, EntriesCount, TotalNat DEF q
  <2> QED
    BY <2>3, <2>9, <2>12, <2>13 DEF a, q
<1> QED
  BY <1>1, RowsAlways, PTL

(* An event leaves no page of a row over the threshold online, and asks    *)
(* for nothing below it.                                                   *)
THEOREM HotRowsGoOffline == Spec => HotRowsAreOfflined
<1>1. RowInv /\ [Next]_vars => [HotRowStep]_vars
  BY NextRow
<1> QED
  BY <1>1, RowsAlways, PTL DEF Spec, HotRowsAreOfflined

(* While addr_list holds the row, row_offline does not ask again for a     *)
(* page all of whose entries say it is offline.                            *)
THEOREM OfflinePagesAreRemembered == Spec => OfflinedIsRemembered
<1>1. RowInv /\ [Next]_vars => [RememberedStep]_vars
  BY NextRow
<1> QED
  BY <1>1, RowsAlways, PTL DEF Spec, OfflinedIsRemembered
=============================================================================
