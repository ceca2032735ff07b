------------------------ MODULE PageIsolationProofs ------------------------
(***************************************************************************)
(* The page policy isolates exactly the pages it should, for every set of  *)
(* pages, every threshold, cycle and integer width.                        *)
(***************************************************************************)
EXTENDS PageIsolation, TLAPS

-----------------------------------------------------------------------------
(* The inductive invariant.                                                *)

\* Records of the tree: a page without one stands for the record that
\* page_lookup_insert would allocate, and a page with one has begun a cycle.
RecordsBegun ==
    \A p \in Pages :
        /\ records[p].start <= MaxTime
        /\ p \in known => records[p].start >= 1
        /\ p \notin known => records[p] = NewRecord

\* What one record says when events come in the order of their times: the
\* errors of the cycle are split into `count' and `excess', and `excess' is
\* filled only by reaching the threshold.
InOrderRecord(p) ==
    /\ records[p].start <= now
    /\ records[p].count + records[p].excess = cycleCE[p]
    /\ cycleCE[p] <= peakCE[p]
    /\ records[p].excess # 0 => peakCE[p] >= Threshold
    /\ records[p].offlined # "PAGE_ONLINE" <=>
          offline > OFFLINE_ACCOUNT /\ peakCE[p] >= Threshold

IInv ==
    /\ TypeOK
    /\ RecordsBegun
    /\ CountBelowThreshold
    /\ ~OutOfOrder => \A p \in Pages : InOrderRecord(p)

-----------------------------------------------------------------------------
(* Arithmetic of the refresh branch.                                       *)

(* `tolerate' is at least the threshold once a whole cycle has passed.     *)
LEMMA ToleranceCoversThreshold ==
    ASSUME NEW a \in Nat, NEW T \in Nat, NEW C \in Nat \ {0}, a >= C
    PROVE  (a * T) \div C >= T
<1>1. a * T >= C * T
  BY Z3
<1> DEFINE q == (a * T) \div C
<1>2. q \in Int /\ a * T < C * (q + 1)
  BY Z3
<1>3. SUFFICES ASSUME q < T PROVE FALSE
  BY <1>2
<1>4. C * (q + 1) <= C * T
  BY <1>2, <1>3, Z3
<1> QED
  BY <1>1, <1>2, <1>4, Z3

(* A quotient is not above its dividend.                                   *)
LEMMA QuotientBelow ==
    ASSUME NEW x \in Nat, NEW C \in Nat \ {0}
    PROVE  x \div C \in Nat /\ x \div C <= x
BY Z3

(* The product of naturals is monotone.                                    *)
LEMMA ProductMonotone ==
    ASSUME NEW a \in Nat, NEW b \in Nat, NEW T \in Nat, a <= b
    PROVE  a * T \in Nat /\ a * T <= b * T
BY Z3

(* The tolerated number of errors is a natural number, whatever the        *)
(* conversion from double makes of it.                                     *)
LEMMA TolerateNat ==
    ASSUME NEW a \in Nat, NEW tol \in Tolerate(a)
    PROVE  tol \in Nat
<1>1. a * Threshold \in Nat
  BY PageConstants, ProductMonotone
<1>2. (a * Threshold) \div Cycle \in Nat
  BY <1>1, PageConstants, QuotientBelow
<1>3. ULONG - 1 \in Nat
  BY PageConstants
<1> QED
  BY <1>2, <1>3 DEF Tolerate

(* A whole cycle within the bounds of time tolerates the threshold exactly *)
(* as the code means it: nothing wraps and nothing is undefined.           *)
LEMMA TolerateExact ==
    ASSUME NEW a \in Nat, a >= Cycle, a <= MaxTime, NEW tol \in Tolerate(a)
    PROVE  tol >= Threshold
<1>1. a * Threshold \in Nat /\ a * Threshold <= MaxTime * Threshold
  BY PageConstants, ProductMonotone
<1>2. MaxTime * Threshold \in Nat /\ MaxTime * Threshold < ULONG
  BY PageConstants, ProductMonotone
<1>3. (a * Threshold) \div Cycle \in Nat /\ (a * Threshold) \div Cycle <= a * Threshold
  BY <1>1, PageConstants, QuotientBelow
<1>4. (a * Threshold) \div Cycle < ULONG
  BY <1>1, <1>2, <1>3, PageConstants
<1>5. tol = (a * Threshold) \div Cycle
  BY <1>4 DEF Tolerate
<1> QED
  BY <1>5, PageConstants, ToleranceCoversThreshold

-----------------------------------------------------------------------------
(* The steps of page_record.                                               *)

(* The refresh branch keeps a record a record, never raises its count and  *)
(* never touches what is known of the page's isolation.                    *)
LEMMA RefreshedRecord ==
    ASSUME NEW pr \in PageRecord, NEW t \in 0..MaxTime, pr.start <= MaxTime,
           NEW r \in Refreshed(pr, t)
    PROVE  /\ r \in PageRecord
           /\ r.count <= pr.count
           /\ r.offlined = pr.offlined
           /\ r.start \in {pr.start, t}
           /\ r.excess \in {pr.excess, 0}
<1>1. Period(pr, t) \in Nat
  BY PageConstants DEF Period, PageRecord
<1>2. CASE Period(pr, t) < Cycle
  BY <1>2 DEF Refreshed, PageRecord
<1>3. CASE ~(Period(pr, t) < Cycle)
  <2>1. PICK tol \in Tolerate(Period(pr, t)) :
           r = [pr EXCEPT !.count = @ - (IF tol > @ THEN @ ELSE tol),
                          !.start = t, !.excess = 0]
    BY <1>3 DEF Refreshed
  <2>2. tol \in Nat
    BY <1>1, TolerateNat
  <2>3. t \in Nat
    BY PageConstants
  <2> DEFINE c == pr.count - (IF tol > pr.count THEN pr.count ELSE tol)
  <2>4. c \in Nat /\ c <= pr.count
    BY <2>2 DEF PageRecord
  <2>5. r = [start |-> t, count |-> c, excess |-> 0, offlined |-> pr.offlined]
    BY <2>1 DEF PageRecord
  <2> HIDE DEF c
  <2> QED
    BY <2>3, <2>4, <2>5 DEF PageRecord
<1> QED
  BY <1>2, <1>3

(* In time order the refresh branch is taken exactly when a cycle has      *)
(* elapsed, and then it clears the count.                                  *)
LEMMA RefreshedInOrder ==
    ASSUME NEW pr \in PageRecord, NEW t \in 0..MaxTime, pr.start <= t,
           pr.count < Threshold, NEW r \in Refreshed(pr, t)
    PROVE  IF t >= pr.start + Cycle
           THEN r = [pr EXCEPT !.count = 0, !.start = t, !.excess = 0]
           ELSE r = pr
<1>1. Period(pr, t) = t - pr.start /\ t - pr.start \in Nat /\ t - pr.start <= MaxTime
  BY PageConstants DEF Period, PageRecord
<1>2. CASE t >= pr.start + Cycle
  <2>1. ~(Period(pr, t) < Cycle) /\ t - pr.start >= Cycle
    BY <1>1, <1>2, PageConstants DEF PageRecord
  <2>2. PICK tol \in Tolerate(Period(pr, t)) :
           r = [pr EXCEPT !.count = @ - (IF tol > @ THEN @ ELSE tol),
                          !.start = t, !.excess = 0]
    BY <2>1 DEF Refreshed
  <2>3. tol \in Nat /\ tol >= Threshold
    BY <1>1, <2>1, TolerateNat, TolerateExact
  <2>4. pr.count - (IF tol > pr.count THEN pr.count ELSE tol) = 0
    BY <2>3, PageConstants DEF PageRecord
  <2> QED
    BY <1>2, <2>2, <2>4
<1>3. CASE ~(t >= pr.start + Cycle)
  <2>1. Period(pr, t) < Cycle
    BY <1>1, <1>3, PageConstants DEF PageRecord
  <2> QED
    BY <1>3, <2>1 DEF Refreshed
<1> QED
  BY <1>2, <1>3

(* Two requests are a sequence of requests.                                *)
LEMMA PairIsSeq ==
    ASSUME NEW S, NEW a \in S, NEW b \in S
    PROVE  <<a, b>> \in Seq(S)
OBVIOUS

(* What page_offline writes and what it leaves in the record.              *)
LEMMA OfflineWrites ==
    ASSUME NEW p \in Pages, NEW hot \in PageRecord, offline \in OTypes,
           NEW reqs \in page_offline(p, hot)
    PROVE  /\ reqs \in Seq(Request)
           /\ \A i \in DOMAIN reqs : reqs[i].page = p
           /\ hot.offlined = "PAGE_OFFLINE" => reqs = << >>
           /\ OfflineState(hot, reqs) \in PStates
           /\ offline <= OFFLINE_ACCOUNT => OfflineState(hot, reqs) = hot.offlined
           /\ hot.offlined = "PAGE_OFFLINE" => OfflineState(hot, reqs) = "PAGE_OFFLINE"
           /\ offline > OFFLINE_ACCOUNT => OfflineState(hot, reqs) # "PAGE_ONLINE"
           /\ \A i \in DOMAIN reqs :
                 reqs[i].type = OFFLINE_HARD =>
                    \/ offline = OFFLINE_HARD
                    \/ i > 1 /\ reqs[i-1] = do_page_offline(reqs[i].page, OFFLINE_SOFT, FALSE)
<1> USE DEF OFFLINE_OFF, OFFLINE_ACCOUNT, OFFLINE_SOFT, OFFLINE_HARD, OFFLINE_SOFT_THEN_HARD
<1>1. CASE offline <= OFFLINE_ACCOUNT \/ hot.offlined = "PAGE_OFFLINE"
  <2>1. reqs = << >>
    BY <1>1 DEF page_offline
  <2> QED
    BY <1>1, <2>1 DEF OfflineState, PageRecord, PStates, OTypes
<1>2. CASE /\ ~(offline <= OFFLINE_ACCOUNT \/ hot.offlined = "PAGE_OFFLINE")
           /\ offline = OFFLINE_SOFT_THEN_HARD
  <2>1. CASE reqs = <<do_page_offline(p, OFFLINE_SOFT, TRUE)>>
    <3>1. do_page_offline(p, OFFLINE_SOFT, TRUE) \in Request
      BY DEF do_page_offline, Request
    <3>2. OfflineState(hot, reqs) = "PAGE_OFFLINE"
      BY <2>1 DEF OfflineState, do_page_offline
    <3> QED
      BY <1>2, <2>1, <3>1, <3>2 DEF do_page_offline, PStates, OTypes
  <2>2. CASE \E ok \in BOOLEAN : reqs = <<do_page_offline(p, OFFLINE_SOFT, FALSE),
                                          do_page_offline(p, OFFLINE_HARD, ok)>>
    <3>1. PICK ok \in BOOLEAN : reqs = <<do_page_offline(p, OFFLINE_SOFT, FALSE),
                                         do_page_offline(p, OFFLINE_HARD, ok)>>
      BY <2>2
    <3>2. /\ do_page_offline(p, OFFLINE_SOFT, FALSE) \in Request
          /\ do_page_offline(p, OFFLINE_HARD, ok) \in Request
      BY DEF do_page_offline, Request
    <3>3. Len(reqs) = 2 /\ reqs # << >> /\ DOMAIN reqs = 1..2
      BY <3>1
    <3>4. OfflineState(hot, reqs) = IF ok THEN "PAGE_OFFLINE" ELSE "PAGE_OFFLINE_FAILED"
      BY <3>1, <3>3 DEF OfflineState, do_page_offline
    <3>5. reqs \in Seq(Request)
      BY <3>1, <3>2, PairIsSeq
    <3>6. \A i \in DOMAIN reqs : reqs[i].page = p
      BY <3>1, <3>3 DEF do_page_offline
    <3>7. \A i \in DOMAIN reqs : reqs[i].type = OFFLINE_HARD =>
             i > 1 /\ reqs[i-1] = do_page_offline(reqs[i].page, OFFLINE_SOFT, FALSE)
      <4>1. reqs[1].type # OFFLINE_HARD /\ reqs[2].page = p
        BY <3>1 DEF do_page_offline
      <4>2. reqs[2-1] = do_page_offline(p, OFFLINE_SOFT, FALSE)
        BY <3>1
      <4>3. ASSUME NEW i \in DOMAIN reqs, reqs[i].type = OFFLINE_HARD
            PROVE  i > 1 /\ reqs[i-1] = do_page_offline(reqs[i].page, OFFLINE_SOFT, FALSE)
        <5>1. i = 2
          BY <3>3, <4>1, <4>3
        <5> QED
          BY <5>1, <4>1, <4>2
      <4> QED
        BY <4>3
    <3> QED
      BY <1>2, <3>4, <3>5, <3>6, <3>7 DEF PStates, OTypes
  <2> QED
    BY <1>2, <2>1, <2>2 DEF page_offline
<1>3. CASE /\ ~(offline <= OFFLINE_ACCOUNT \/ hot.offlined = "PAGE_OFFLINE")
           /\ offline # OFFLINE_SOFT_THEN_HARD
  <2>1. PICK ok \in BOOLEAN : reqs = <<do_page_offline(p, offline, ok)>>
    BY <1>3 DEF page_offline
  <2>2. offline \in {OFFLINE_SOFT, OFFLINE_HARD}
    BY <1>3 DEF OTypes
  <2>3. do_page_offline(p, offline, ok) \in Request
    BY <2>2 DEF do_page_offline, Request
  <2>4. OfflineState(hot, reqs) = IF ok THEN "PAGE_OFFLINE" ELSE "PAGE_OFFLINE_FAILED"
    BY <2>1 DEF OfflineState, do_page_offline
  <2> QED
    BY <1>3, <2>1, <2>2, <2>3, <2>4 DEF do_page_offline, PStates
<1> QED
  BY <1>1, <1>2, <1>3

-----------------------------------------------------------------------------
(* One event.                                                              *)

(* The record that ras_record_page_error works on: page_lookup_insert and  *)
(* the beginning of the first cycle.                                       *)
LEMMA StartedRecord ==
    ASSUME IInv, NEW p \in Pages, NEW t \in 1..MaxTime
    PROVE  LET pr == Started(page_lookup_insert(p), t) IN
           /\ pr = [records[p] EXCEPT !.start = IF records[p].start = 0 THEN t ELSE @]
           /\ pr \in PageRecord
           /\ pr.start \in 1..MaxTime
           /\ pr.count < Threshold
<1>1. page_lookup_insert(p) = records[p]
  BY DEF page_lookup_insert, IInv, RecordsBegun
<1>2. records[p] \in PageRecord /\ records[p].start <= MaxTime /\ records[p].count < Threshold
  BY DEF IInv, TypeOK, RecordsBegun, CountBelowThreshold
<1>3. t \in Nat /\ MaxTime \in Nat
  BY PageConstants
<1> QED
  BY <1>1, <1>2, <1>3 DEF Started, PageRecord

(* What one event may make of the record of its page: nr is the record     *)
(* left by page_record.  In time order the event either falls into the     *)
(* present cycle or begins one.                                            *)
LEMMA EventEffect ==
    ASSUME IInv, NEW p \in Pages, NEW count \in Nat, NEW t \in 1..MaxTime,
           OutOfOrder \/ t >= now, RecordError(p, count, t)
    PROVE  \E nr \in PageRecord :
             /\ records' = [records EXCEPT ![p] = nr]
             /\ nr.start \in 1..MaxTime
             /\ nr.count < Threshold
             /\ requests' \in Seq(Request)
             /\ \A i \in DOMAIN requests' :
                   /\ requests'[i].page = p
                   /\ requests'[i].type = OFFLINE_HARD =>
                        \/ offline = OFFLINE_HARD
                        \/ i > 1 /\ requests'[i-1] =
                              do_page_offline(requests'[i].page, OFFLINE_SOFT, FALSE)
             /\ records[p].offlined = "PAGE_OFFLINE" =>
                   nr.offlined = "PAGE_OFFLINE" /\ requests' = << >>
             /\ ~OutOfOrder =>
                  /\ nr.start # records[p].start /\ p \in known =>
                        nr.start >= records[p].start + Cycle
                  /\ nr.start <= t
                  /\ nr.count + nr.excess = cycleCE'[p]
                  /\ cycleCE'[p] <= peakCE'[p]
                  /\ nr.excess # 0 => peakCE'[p] >= Threshold
                  /\ nr.offlined # "PAGE_ONLINE" <=>
                        offline > OFFLINE_ACCOUNT /\ peakCE'[p] >= Threshold
<1> DEFINE pr == Started(page_lookup_insert(p), t)
           c == IF t >= pr.start + Cycle THEN count ELSE cycleCE[p] + count
<1>1. /\ pr = [records[p] EXCEPT !.start = IF records[p].start = 0 THEN t ELSE @]
      /\ pr \in PageRecord
      /\ pr.start \in 1..MaxTime
      /\ pr.count < Threshold
  BY StartedRecord
<1>2. page_record(p, pr, count, t) /\ Account(p, pr, count, t)
  BY DEF RecordError
<1>3. /\ records[p] \in PageRecord /\ cycleCE \in [Pages -> Nat] /\ peakCE \in [Pages -> Nat]
      /\ offline \in OTypes /\ t \in Nat /\ t <= MaxTime /\ t \in 0..MaxTime
  BY PageConstants DEF IInv, TypeOK
<1>4. /\ c <= MaxTotal /\ cycleCE'[p] = c
      /\ peakCE'[p] = IF c > peakCE[p] THEN c ELSE peakCE[p]
  BY <1>2, <1>3 DEF Account
<1> HIDE DEF pr
<1>5. PICK r \in Refreshed(pr, t) :
         LET sum == (r.count + count) % ULONG
             hot == [r EXCEPT !.excess = (@ + sum) % ULONG, !.count = 0]
         IN  IF sum >= Threshold
             THEN \E reqs \in page_offline(p, hot) :
                     /\ requests' = reqs
                     /\ records' = [records EXCEPT ![p] =
                                      [hot EXCEPT !.offlined = OfflineState(hot, reqs)]]
             ELSE /\ requests' = << >>
                  /\ records' = [records EXCEPT ![p] = [r EXCEPT !.count = sum]]
  BY <1>2 DEF page_record
<1> DEFINE sum == (r.count + count) % ULONG
           hot == [r EXCEPT !.excess = (@ + sum) % ULONG, !.count = 0]
<1>6. /\ r \in PageRecord /\ r.count <= pr.count /\ r.offlined = pr.offlined
      /\ r.start \in {pr.start, t}
  BY <1>1, <1>3, RefreshedRecord DEF PageRecord
<1>7. sum \in Nat /\ (r.excess + sum) % ULONG \in Nat
  BY <1>6, PageConstants DEF PageRecord
<1>8. r.offlined = records[p].offlined
  BY <1>1, <1>3, <1>6 DEF PageRecord
<1>9. ASSUME ~OutOfOrder
      PROVE  /\ IF t >= pr.start + Cycle
                THEN r = [pr EXCEPT !.count = 0, !.start = t, !.excess = 0]
                ELSE r = pr
             /\ r.start <= t
             /\ r.start # records[p].start /\ p \in known =>
                   r.start >= records[p].start + Cycle
             /\ r.count + r.excess + count = c
             /\ sum = r.count + count
             /\ (r.excess + sum) % ULONG = r.excess + sum
             /\ r.excess # 0 => peakCE[p] >= Threshold
             /\ records[p].offlined # "PAGE_ONLINE" <=>
                   offline > OFFLINE_ACCOUNT /\ peakCE[p] >= Threshold
  <2>1. InOrderRecord(p) /\ now \in Nat /\ now <= t
    BY <1>9, PageConstants DEF IInv, TypeOK
  <2>2. pr.start <= t
    BY <1>1, <1>3, <2>1 DEF InOrderRecord, PageRecord
  <2>3. IF t >= pr.start + Cycle
        THEN r = [pr EXCEPT !.count = 0, !.start = t, !.excess = 0]
        ELSE r = pr
    BY <1>1, <1>3, <2>2, RefreshedInOrder
  <2>4. pr.count + pr.excess = cycleCE[p]
    BY <1>1, <1>3, <2>1 DEF InOrderRecord, PageRecord
  <2>5. r.start <= t /\ r.count + r.excess + count = c
    <3>1. /\ pr.start \in Nat /\ pr.count \in Nat /\ pr.excess \in Nat
          /\ cycleCE[p] \in Nat /\ Cycle \in Nat
      BY <1>1, <1>3, PageConstants DEF PageRecord
    <3>2. CASE t >= pr.start + Cycle
      <4>1. r.start = t /\ r.count = 0 /\ r.excess = 0
        BY <1>1, <2>3, <3>2 DEF PageRecord
      <4>2. c = count
        BY <3>2
      <4> QED
        BY <1>3, <4>1, <4>2
    <3>3. CASE ~(t >= pr.start + Cycle)
      <4>1. r = pr /\ c = cycleCE[p] + count
        BY <2>3, <3>3
      <4> QED
        BY <2>2, <2>4, <3>1, <4>1
    <3> QED
      BY <3>2, <3>3
  <2>6. p \in known => pr.start = records[p].start
    BY <1>1, <1>3 DEF IInv, RecordsBegun, PageRecord
  <2>7. r.start # records[p].start /\ p \in known => r.start >= records[p].start + Cycle
    BY <1>1, <1>3, <2>3, <2>6 DEF PageRecord
  <2>8. /\ sum = r.count + count
        /\ (r.excess + sum) % ULONG = r.excess + sum
    <3>1. /\ r.count \in Nat /\ r.excess \in Nat /\ r.count + count < ULONG
          /\ r.excess + (r.count + count) < ULONG
      BY <1>4, <1>6, <2>5, PageConstants DEF PageRecord
    <3>2. \A x \in Nat : x < ULONG => x % ULONG = x
      BY PageConstants
    <3> QED
      BY <3>1, <3>2
  <2>9. r.excess # 0 => peakCE[p] >= Threshold
    BY <1>1, <1>3, <2>1, <2>3 DEF InOrderRecord, PageRecord
  <2> QED
    BY <2>1, <2>3, <2>5, <2>7, <2>8, <2>9 DEF InOrderRecord
<1>10. CASE sum >= Threshold
  <2>1. PICK reqs \in page_offline(p, hot) :
           /\ requests' = reqs
           /\ records' = [records EXCEPT ![p] = [hot EXCEPT !.offlined = OfflineState(hot, reqs)]]
    BY <1>5, <1>10
  <2>2. hot \in PageRecord /\ hot.offlined = records[p].offlined
    BY <1>6, <1>7, <1>8 DEF PageRecord
  <2> HIDE DEF hot
  <2> DEFINE os == OfflineState(hot, reqs)
             nr == [hot EXCEPT !.offlined = os]
  <2>3. /\ reqs \in Seq(Request)
        /\ \A i \in DOMAIN reqs : reqs[i].page = p
        /\ hot.offlined = "PAGE_OFFLINE" => reqs = << >>
        /\ os \in PStates
        /\ offline <= OFFLINE_ACCOUNT => os = hot.offlined
        /\ hot.offlined = "PAGE_OFFLINE" => os = "PAGE_OFFLINE"
        /\ offline > OFFLINE_ACCOUNT => os # "PAGE_ONLINE"
        /\ \A i \in DOMAIN reqs :
              reqs[i].type = OFFLINE_HARD =>
                 \/ offline = OFFLINE_HARD
                 \/ i > 1 /\ reqs[i-1] = do_page_offline(reqs[i].page, OFFLINE_SOFT, FALSE)
    BY <1>3, <2>2, OfflineWrites
  <2> HIDE DEF os
  <2> USE DEF hot
  <2>4. /\ nr.start = r.start /\ nr.count = 0 /\ nr.excess = (r.excess + sum) % ULONG
        /\ nr.offlined = os /\ nr \in PageRecord
    BY <1>6, <1>7, <2>3 DEF PageRecord
  <2>5. nr.start \in 1..MaxTime /\ nr.count < Threshold
    BY <1>1, <1>3, <1>6, <2>4, PageConstants
  <2>6. ASSUME ~OutOfOrder
        PROVE  /\ nr.start # records[p].start /\ p \in known =>
                     nr.start >= records[p].start + Cycle
               /\ nr.start <= t
               /\ nr.count + nr.excess = cycleCE'[p]
               /\ cycleCE'[p] <= peakCE'[p]
               /\ peakCE'[p] >= Threshold
               /\ nr.offlined # "PAGE_ONLINE" <=> offline > OFFLINE_ACCOUNT
    <3>1. /\ nr.start # records[p].start /\ p \in known => nr.start >= records[p].start + Cycle
          /\ nr.start <= t
      BY <1>9, <2>4, <2>6
    <3>2. c \in Nat /\ nr.count + nr.excess = c /\ c >= Threshold
      BY <1>3, <1>6, <1>9, <1>10, <2>4, <2>6, PageConstants DEF PageRecord
    <3>3. cycleCE'[p] = c /\ c <= peakCE'[p] /\ peakCE'[p] >= Threshold
      BY <1>3, <1>4, <3>2, PageConstants
    <3>4. offline \in Int
      BY <1>3 DEF OTypes, OFFLINE_OFF, OFFLINE_ACCOUNT, OFFLINE_SOFT, OFFLINE_HARD,
                  OFFLINE_SOFT_THEN_HARD
    <3>5. nr.offlined # "PAGE_ONLINE" <=> offline > OFFLINE_ACCOUNT
      BY <1>9, <2>2, <2>3, <2>4, <2>6, <3>4 DEF OFFLINE_ACCOUNT
    <3> QED
      BY <3>1, <3>2, <3>3, <3>5
  <2>7. records' = [records EXCEPT ![p] = nr]
    BY <2>1 DEF os
  <2> HIDE DEF nr
  <2> QED
    BY <2>1, <2>2, <2>3, <2>4, <2>5, <2>6, <2>7
<1>11. CASE ~(sum >= Threshold)
  <2> DEFINE nr == [r EXCEPT !.count = sum]
  <2>1. requests' = << >> /\ records' = [records EXCEPT ![p] = nr]
    BY <1>5, <1>11
  <2>2. /\ nr.start = r.start /\ nr.count = sum /\ nr.excess = r.excess
        /\ nr.offlined = r.offlined /\ nr \in PageRecord
    BY <1>6, <1>7 DEF PageRecord
  <2>3. nr.start \in 1..MaxTime /\ nr.count < Threshold
    BY <1>1, <1>3, <1>6, <1>7, <1>11, <2>2, PageConstants
  <2>4. ASSUME ~OutOfOrder
        PROVE  /\ nr.start # records[p].start /\ p \in known =>
                     nr.start >= records[p].start + Cycle
               /\ nr.start <= t
               /\ nr.count + nr.excess = cycleCE'[p]
               /\ cycleCE'[p] <= peakCE'[p]
               /\ nr.excess # 0 => peakCE'[p] >= Threshold
               /\ nr.offlined # "PAGE_ONLINE" <=>
                     offline > OFFLINE_ACCOUNT /\ peakCE'[p] >= Threshold
    <3>1. /\ nr.start # records[p].start /\ p \in known => nr.start >= records[p].start + Cycle
          /\ nr.start <= t
      BY <1>9, <2>2, <2>4
    <3>2. /\ c \in Nat /\ nr.count + nr.excess = c
          /\ r.excess = 0 => c < Threshold
      BY <1>3, <1>6, <1>9, <1>11, <2>2, <2>4, PageConstants DEF PageRecord
    <3>3. cycleCE'[p] = c /\ c <= peakCE'[p] /\ peakCE[p] <= peakCE'[p]
      BY <1>3, <1>4, <3>2
    <3>4. peakCE'[p] >= Threshold <=> peakCE[p] >= Threshold
      BY <1>3, <1>4, <1>9, <2>4, <3>2, PageConstants DEF PageRecord
    <3>5. nr.excess # 0 => peakCE'[p] >= Threshold
      BY <1>9, <2>2, <2>4, <3>4
    <3> QED
      BY <1>8, <1>9, <2>2, <2>4, <3>1, <3>2, <3>3, <3>4, <3>5
  <2>5. requests' \in Seq(Request) /\ \A i \in DOMAIN requests' : FALSE
    BY <2>1
  <2> HIDE DEF nr
  <2> QED
    BY <1>8, <2>1, <2>2, <2>3, <2>4, <2>5
<1> QED
  BY <1>10, <1>11

(* IInv is kept by every event, and the action properties follow.          *)
LEMMA EventStep ==
    ASSUME IInv, NEW p \in Pages, NEW count \in Nat, NEW t \in 1..MaxTime,
           OutOfOrder \/ t >= now, RecordError(p, count, t)
    PROVE  /\ IInv'
           /\ \A q \in Pages :
                 records[q].offlined = "PAGE_OFFLINE" =>
                    /\ records'[q].offlined = "PAGE_OFFLINE"
                    /\ \A i \in DOMAIN requests' : requests'[i].page # q
           /\ \A i \in DOMAIN requests' :
                 requests'[i].type = OFFLINE_HARD =>
                    \/ offline = OFFLINE_HARD
                    \/ i > 1 /\ requests'[i-1] =
                          do_page_offline(requests'[i].page, OFFLINE_SOFT, FALSE)
           /\ ~OutOfOrder =>
                 \A q \in known :
                    records'[q].start # records[q].start =>
                       records'[q].start >= records[q].start + Cycle
<1>1. PICK nr \in PageRecord :
        /\ records' = [records EXCEPT ![p] = nr]
        /\ nr.start \in 1..MaxTime
        /\ nr.count < Threshold
        /\ requests' \in Seq(Request)
        /\ \A i \in DOMAIN requests' :
              /\ requests'[i].page = p
              /\ requests'[i].type = OFFLINE_HARD =>
                   \/ offline = OFFLINE_HARD
                   \/ i > 1 /\ requests'[i-1] =
                         do_page_offline(requests'[i].page, OFFLINE_SOFT, FALSE)
        /\ records[p].offlined = "PAGE_OFFLINE" =>
              nr.offlined = "PAGE_OFFLINE" /\ requests' = << >>
        /\ ~OutOfOrder =>
             /\ nr.start # records[p].start /\ p \in known =>
                   nr.start >= records[p].start + Cycle
             /\ nr.start <= t
             /\ nr.count + nr.excess = cycleCE'[p]
             /\ cycleCE'[p] <= peakCE'[p]
             /\ nr.excess # 0 => peakCE'[p] >= Threshold
             /\ nr.offlined # "PAGE_ONLINE" <=>
                   offline > OFFLINE_ACCOUNT /\ peakCE'[p] >= Threshold
  BY EventEffect
<1>2. /\ records \in [Pages -> PageRecord] /\ known \in SUBSET Pages /\ now \in 0..MaxTime
      /\ offline \in OTypes /\ cycleCE \in [Pages -> Nat] /\ peakCE \in [Pages -> Nat]
  BY DEF IInv, TypeOK
<1>3. /\ records'[p] = nr
      /\ \A q \in Pages : q # p => records'[q] = records[q]
  BY <1>1, <1>2
<1>4. /\ known' = known \cup {p} /\ offline' = offline
      /\ now' = IF t > now THEN t ELSE now
  BY DEF RecordError
<1>5. now' \in 0..MaxTime /\ now <= now' /\ t <= now'
  BY <1>2, <1>4, PageConstants
<1>6. /\ cycleCE' \in [Pages -> Nat] /\ peakCE' \in [Pages -> Nat]
      /\ \A q \in Pages : q # p => cycleCE'[q] = cycleCE[q] /\ peakCE'[q] = peakCE[q]
  <2>1. PICK c : /\ c \in Nat
                 /\ cycleCE' = [cycleCE EXCEPT ![p] = c]
                 /\ peakCE' = [peakCE EXCEPT ![p] = IF c > @ THEN c ELSE @]
    <3> DEFINE pr == Started(page_lookup_insert(p), t)
               c == IF t >= pr.start + Cycle THEN count ELSE cycleCE[p] + count
    <3>1. Account(p, pr, count, t)
      BY DEF RecordError
    <3>2. c \in Nat
      BY <1>2
    <3>3. /\ cycleCE' = [cycleCE EXCEPT ![p] = c]
          /\ peakCE' = [peakCE EXCEPT ![p] = IF c > @ THEN c ELSE @]
      BY <3>1 DEF Account
    <3> HIDE DEF c
    <3> QED
      BY <3>2, <3>3
  <2>2. (IF c > peakCE[p] THEN c ELSE peakCE[p]) \in Nat
    BY <1>2, <2>1
  <2> QED
    BY <1>2, <2>1, <2>2
<1>7. TypeOK'
  <2>1. records' \in [Pages -> PageRecord]
    BY <1>1, <1>2
  <2> QED
    BY <1>1, <1>2, <1>4, <1>5, <1>6, <2>1 DEF TypeOK
<1>8. RecordsBegun'
  <2>1. ASSUME NEW q \in Pages
        PROVE  /\ records'[q].start <= MaxTime
               /\ q \in known' => records'[q].start >= 1
               /\ q \notin known' => records'[q] = NewRecord
    <3>1. CASE q = p
      BY <1>1, <1>3, <1>4, <3>1, PageConstants
    <3>2. CASE q # p
      BY <1>3, <1>4, <3>2 DEF IInv, RecordsBegun
    <3> QED
      BY <3>1, <3>2
  <2> QED
    BY <2>1 DEF RecordsBegun, NewRecord
<1>9. CountBelowThreshold'
  BY <1>1, <1>3 DEF IInv, CountBelowThreshold
<1>10. ASSUME ~OutOfOrder, NEW q \in Pages
       PROVE  InOrderRecord(q)'
  <2>1. CASE q = p
    <3>1. nr.start <= now'
      BY <1>1, <1>2, <1>5, <1>10, PageConstants DEF PageRecord
    <3> QED
      BY <1>1, <1>3, <1>4, <1>10, <2>1, <3>1 DEF InOrderRecord
  <2>2. CASE q # p
    <3>1. InOrderRecord(q) /\ records'[q] = records[q]
          /\ cycleCE'[q] = cycleCE[q] /\ peakCE'[q] = peakCE[q]
      BY <1>3, <1>6, <1>10, <2>2 DEF IInv
    <3>2. records[q].start <= now'
      BY <1>2, <1>5, <3>1, PageConstants DEF InOrderRecord, PageRecord
    <3> QED
      BY <1>4, <3>1, <3>2 DEF InOrderRecord
  <2> QED
    BY <2>1, <2>2
<1>11. IInv'
  BY <1>7, <1>8, <1>9, <1>10 DEF IInv
<1>12. ASSUME NEW q \in Pages, records[q].offlined = "PAGE_OFFLINE"
       PROVE  /\ records'[q].offlined = "PAGE_OFFLINE"
              /\ \A i \in DOMAIN requests' : requests'[i].page # q
  <2>1. CASE q = p
    <3>1. nr.offlined = "PAGE_OFFLINE" /\ requests' = << >>
      BY <1>1, <1>12, <2>1
    <3> QED
      BY <1>3, <2>1, <3>1
  <2>2. CASE q # p
    BY <1>1, <1>3, <1>12, <2>2
  <2> QED
    BY <2>1, <2>2
<1>13. ASSUME ~OutOfOrder, NEW q \in known, records'[q].start # records[q].start
       PROVE  records'[q].start >= records[q].start + Cycle
  <2>1. q = p
    BY <1>2, <1>3, <1>13
  <2> QED
    BY <1>1, <1>3, <1>13, <2>1
<1> QED
  BY <1>1, <1>11, <1>12, <1>13

-----------------------------------------------------------------------------
(* The theorems.                                                           *)

(* The initial states satisfy the inductive invariant.                     *)
LEMMA InitIInv == Init => IInv
<1> SUFFICES ASSUME Init PROVE IInv
  OBVIOUS
<1>1. offline \in OTypes
  <2>1. PICK choice \in OTypes, supported \in BOOLEAN, rowPolicy \in BOOLEAN :
           offline = page_offline_init(choice, supported, rowPolicy)
    BY DEF Init
  <2> QED
    BY <2>1 DEF page_offline_init, OTypes
<1>2. NewRecord \in PageRecord
  BY DEF NewRecord, PageRecord, PStates
<1>3. \A p \in Pages : records[p] = NewRecord /\ cycleCE[p] = 0 /\ peakCE[p] = 0
  BY DEF Init
<1>4. TypeOK
  BY <1>1, <1>2, PageConstants DEF Init, TypeOK
<1>5. RecordsBegun
  BY <1>3, PageConstants DEF Init, RecordsBegun, NewRecord
<1>6. CountBelowThreshold
  BY <1>3, PageConstants DEF CountBelowThreshold, NewRecord
<1>7. \A p \in Pages : InOrderRecord(p)
  BY <1>3, PageConstants DEF Init, InOrderRecord, NewRecord
<1> QED
  BY <1>4, <1>5, <1>6, <1>7 DEF IInv

(* Every step of the daemon is one event of one page.                      *)
LEMMA NextIsEvent ==
    ASSUME Next
    PROVE  \E p \in Pages, count \in Nat, t \in 1..MaxTime :
              (OutOfOrder \/ t >= now) /\ RecordError(p, count, t)
<1>1. PICK p \in Pages, t \in 1..MaxTime :
        \/ \E count \in 0..MaxTotal : ras_record_page_error(p, count, t)
        \/ ras_hw_threshold_pageoffline(p, t)
  BY DEF Next
<1>2. CASE \E count \in 0..MaxTotal : ras_record_page_error(p, count, t)
  BY <1>2, PageConstants DEF ras_record_page_error
<1>3. CASE ras_hw_threshold_pageoffline(p, t)
  <2>1. Threshold % UINT \in Nat
    BY PageConstants
  <2> QED
    BY <1>3, <2>1 DEF ras_hw_threshold_pageoffline
<1> QED
  BY <1>1, <1>2, <1>3

(* The bodies of the action properties.                                    *)
OfflinedForGoodStep ==
    \A p \in Pages :
        records[p].offlined = "PAGE_OFFLINE" =>
            /\ records'[p].offlined = "PAGE_OFFLINE"
            /\ \A i \in DOMAIN requests' : requests'[i].page # p

HardIsLastResortStep ==
    \A i \in DOMAIN requests' :
        requests'[i].type = OFFLINE_HARD =>
            \/ offline = OFFLINE_HARD
            \/ /\ i > 1
               /\ requests'[i-1] = do_page_offline(requests'[i].page, OFFLINE_SOFT, FALSE)

RefreshStep ==
    \A p \in known :
        records'[p].start # records[p].start =>
            records'[p].start >= records[p].start + Cycle

(* A step of the daemon keeps IInv and is allowed by the action properties.*)
LEMMA NextKeepsIInv ==
    ASSUME IInv, [Next]_vars
    PROVE  /\ IInv'
           /\ [OfflinedForGoodStep]_vars
           /\ [HardIsLastResortStep]_vars
           /\ ~OutOfOrder => [RefreshStep]_vars
<1>1. CASE Next
  <2>1. PICK p \in Pages, count \in Nat, t \in 1..MaxTime :
           (OutOfOrder \/ t >= now) /\ RecordError(p, count, t)
    BY <1>1, NextIsEvent
  <2> QED
    BY <2>1, EventStep DEF OfflinedForGoodStep, HardIsLastResortStep, RefreshStep
<1>2. CASE UNCHANGED vars
  BY <1>2 DEF vars, IInv, TypeOK, RecordsBegun, CountBelowThreshold, InOrderRecord
<1> QED
  BY <1>1, <1>2

(* The inductive invariant holds in every reachable state.                 *)
LEMMA Inductive == Spec => []IInv
<1>1. IInv /\ [Next]_vars => IInv'
  BY NextKeepsIInv
<1> QED
  BY <1>1, InitIInv, PTL DEF Spec

(* The records, counters and requests of the page policy keep their types: *)
(* no count of page_record goes below zero when the refresh branch         *)
(* subtracts `tolerate', in whatever order the events come.                *)
THEOREM TypeCorrect == Spec => []TypeOK
<1>1. IInv => TypeOK
  BY DEF IInv
<1> QED
  BY <1>1, Inductive, PTL

(* Between two events no page keeps a count that reached the threshold.    *)
THEOREM CountsStayBelow == Spec => []CountBelowThreshold
<1>1. IInv => CountBelowThreshold
  BY DEF IInv
<1> QED
  BY <1>1, Inductive, PTL

(* In time order, a page is isolated exactly when some cycle of it brought *)
(* PAGE_CE_THRESHOLD errors and the action asks for isolation.             *)
THEOREM IsolatesExactlyHotPages == Spec => []IsolatedIffHot
<1>1. IInv => IsolatedIffHot
  BY DEF IInv, InOrderRecord, IsolatedIffHot
<1> QED
  BY <1>1, Inductive, PTL

(* In time order, `count' and `excess' account for every error of a cycle. *)
THEOREM ConservesErrors == Spec => []CycleConserved
<1>1. IInv => CycleConserved
  BY DEF IInv, InOrderRecord, CycleConserved
<1> QED
  BY <1>1, Inductive, PTL

(* A page the kernel confirmed offline is never written again and never    *)
(* forgotten.                                                              *)
THEOREM NeverOfflinedTwice == Spec => OfflinedForGood
<1>1. IInv /\ [Next]_vars => [OfflinedForGoodStep]_vars
  BY NextKeepsIInv
<1> QED
  BY <1>1, Inductive, PTL DEF Spec, OfflinedForGood, OfflinedForGoodStep

(* A hard request is the choice `hard' or follows a refused soft one.      *)
THEOREM HardOnlyWhenAsked == Spec => HardIsLastResort
<1>1. IInv /\ [Next]_vars => [HardIsLastResortStep]_vars
  BY NextKeepsIInv
<1> QED
  BY <1>1, Inductive, PTL DEF Spec, HardIsLastResort, HardIsLastResortStep

(* In time order, a cycle is restarted only when it has elapsed.           *)
THEOREM CyclesRunOut ==
    ASSUME ~OutOfOrder
    PROVE  Spec => RefreshOnlyAfterCycle
<1>1. IInv /\ [Next]_vars => [RefreshStep]_vars
  BY NextKeepsIInv
<1> QED
  BY <1>1, Inductive, PTL DEF Spec, RefreshOnlyAfterCycle, RefreshStep
=============================================================================
