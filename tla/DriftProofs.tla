---------------------------- MODULE DriftProofs ----------------------------
(***************************************************************************)
(* Proofs about the reference, the window and the reports of Drift, for any  *)
(* samples, bins, window and number of readers.                             *)
(***************************************************************************)
EXTENDS Drift, SequenceTheorems, Counting

\* A window holds the newest of the first `total` observations of a log.
Newest(window, log, total) ==
    /\ window \in Seq(Live)
    /\ total \in 0..Len(log)
    /\ Len(window) = IF total > Window THEN Window ELSE total
    /\ \A i \in 1..Len(window) : window[i] = log[total - Len(window) + i]

\* The strengthening: the monitor's window, and the copies of the readers.
WindowFits ==
    /\ seen \in Seq(Live)
    /\ totalSeen = Len(seen)
    /\ Newest(scores, seen, totalSeen)

CopiesFit ==
    /\ pc \in [Readers -> {"idle", "compare"}]
    /\ DOMAIN snapshot = Readers
    /\ DOMAIN report = Readers
    /\ \A r \in Readers : pc[r] = "compare" \/ report[r].status # "none" =>
         Newest(snapshot[r].scores, seen, snapshot[r].total)
    /\ \A r \in Readers : report[r].status # "none" =>
         /\ report[r].totalSeen = snapshot[r].total
         /\ report[r].observed = Len(snapshot[r].scores)
         /\ reference.kind # "none" =>
              (report[r].status = "insufficient_data" <=>
                 Len(snapshot[r].scores) < MinSamples)

\* What was the newest stays the newest of as many observations.
LEMMA NewestStays ==
    ASSUME NEW log \in Seq(Live), NEW score \in Live, NEW window, NEW total,
           Newest(window, log, total)
    PROVE  Newest(window, Append(log, score), total)
<1>1. /\ Append(log, score) \in Seq(Live)
      /\ Len(Append(log, score)) = Len(log) + 1
      /\ \A i \in 1..Len(log) : Append(log, score)[i] = log[i]
  BY AppendProperties
<1>2. Len(window) \in Nat /\ Len(log) \in Nat
  BY LenProperties DEF Newest
<1>3. \A i \in 1..Len(window) : total - Len(window) + i \in 1..Len(log)
  BY <1>2, DriftAssumption DEF Newest
<1> QED
  BY <1>1, <1>2, <1>3 DEF Newest

\* observe keeps the newest in the window, whether it was full or not.
LEMMA ObserveKeepsNewest ==
    ASSUME WindowFits, NEW score \in Live, Observe(score)
    PROVE  WindowFits'
<1> DEFINE kept == IF Len(scores) < Window THEN scores ELSE Tail(scores)
           n == Len(seen)
<1>1. /\ scores' = Append(kept, score)
      /\ totalSeen' = totalSeen + 1
      /\ seen' = Append(seen, score)
  BY DEF Observe
<1>2. /\ seen' \in Seq(Live)
      /\ Len(seen') = n + 1
      /\ \A i \in 1..n : seen'[i] = seen[i]
      /\ seen'[n + 1] = score
      /\ n \in Nat
  BY <1>1, AppendProperties, LenProperties DEF WindowFits
<1>3. /\ scores \in Seq(Live)
      /\ totalSeen = n
      /\ Len(scores) = IF n > Window THEN Window ELSE n
      /\ \A i \in 1..Len(scores) : scores[i] = seen[n - Len(scores) + i]
      /\ Window \in Nat \ {0}
  BY DriftAssumption DEF WindowFits, Newest
<1> HIDE DEF n
<1>4. /\ kept \in Seq(Live)
      /\ Len(kept) = IF n < Window THEN n ELSE Window - 1
      /\ \A i \in 1..Len(kept) : kept[i] = seen[n - Len(kept) + i]
  <2>1. CASE n < Window
    <3>1. kept = scores /\ Len(scores) = n
      BY <1>2, <1>3, <2>1
    <3> QED
      BY <1>3, <2>1, <3>1
  <2>2. CASE n >= Window
    <3>1. Len(scores) = Window
      BY <1>2, <1>3, <2>2
    <3>2. kept = Tail(scores) /\ scores # << >>
      BY <1>3, <3>1, EmptySeq
    <3>3. /\ Tail(scores) \in Seq(Live)
          /\ Len(Tail(scores)) = Window - 1
          /\ \A i \in 1..(Window - 1) : Tail(scores)[i] = scores[i + 1]
      BY <1>3, <3>1, <3>2, HeadTailProperties
    <3>4. \A i \in 1..(Window - 1) : scores[i + 1] = seen[n - (Window - 1) + i]
      <4> SUFFICES ASSUME NEW i \in 1..(Window - 1)
                   PROVE  scores[i + 1] = seen[n - (Window - 1) + i]
        OBVIOUS
      <4>1. i + 1 \in 1..Len(scores)
        <5>1. Window \in Nat
          BY <1>3
        <5> QED
          BY <3>1, <5>1
      <4>2. n - Len(scores) + (i + 1) = n - (Window - 1) + i
        <5>1. i \in Int /\ n \in Int /\ Window \in Int
          BY <1>2, <1>3
        <5> QED
          BY <3>1, <5>1
      <4> QED
        BY <1>3, <4>1, <4>2
    <3>5. /\ kept \in Seq(Live)
          /\ Len(kept) = Window - 1
          /\ \A i \in 1..(Window - 1) : kept[i] = seen[n - (Window - 1) + i]
      BY <3>2, <3>3, <3>4
    <3>6. ~(n < Window)
      BY <1>2, <1>3, <2>2
    <3> HIDE DEF kept
    <3> QED
      BY <3>5, <3>6
  <2> HIDE DEF kept
  <2> QED
    BY <1>2, <1>3, <2>1, <2>2
<1> HIDE DEF kept
<1>5. /\ scores' \in Seq(Live)
      /\ Len(scores') = Len(kept) + 1
      /\ \A i \in 1..Len(kept) : scores'[i] = kept[i]
      /\ scores'[Len(kept) + 1] = score
      /\ Len(kept) \in Nat
  BY <1>1, <1>4, AppendProperties, LenProperties
<1>6. \A i \in 1..Len(scores') : scores'[i] = seen'[(n + 1) - Len(scores') + i]
  <2> SUFFICES ASSUME NEW i \in 1..Len(scores')
               PROVE  scores'[i] = seen'[(n + 1) - Len(scores') + i]
    OBVIOUS
  <2>1. (n + 1) - Len(scores') + i = n - Len(kept) + i
    BY <1>2, <1>5
  <2>2. CASE i \in 1..Len(kept)
    <3>1. n - Len(kept) + i \in 1..n
      BY <1>2, <1>3, <1>4, <1>5, <2>2
    <3> QED
      BY <1>2, <1>4, <1>5, <2>1, <2>2, <3>1
  <2>3. CASE i = Len(kept) + 1
    <3>1. n - Len(kept) + i = n + 1
      BY <1>2, <1>5, <2>3
    <3> QED
      BY <1>2, <1>5, <2>1, <2>3, <3>1
  <2> QED
    BY <1>5, <2>2, <2>3
<1>7. Len(scores') = IF n + 1 > Window THEN Window ELSE n + 1
  BY <1>2, <1>3, <1>4, <1>5
<1>8. totalSeen' = n + 1 /\ n + 1 \in 0..Len(seen')
  BY <1>1, <1>2, <1>3
<1>9. Newest(scores', seen', n + 1)
  <2>1. scores' \in Seq(Live)
    BY <1>5
  <2>2. n + 1 \in 0..Len(seen')
    BY <1>8
  <2> QED
    BY <1>6, <1>7, <2>1, <2>2 DEF Newest
<1> QED
  BY <1>2, <1>8, <1>9 DEF WindowFits, Newest

\* A report repeats the numbers of the copy, and lacks data if the copy is short.
LEMMA ComparedFits ==
    ASSUME NEW copy
    PROVE  /\ Compared(copy).status # "none"
           /\ Compared(copy).observed = Len(copy.scores)
           /\ Compared(copy).totalSeen = copy.total
           /\ reference.kind # "none" =>
                (Compared(copy).status = "insufficient_data" <=>
                   Len(copy.scores) < MinSamples)
<1> DEFINE places == [i \in DOMAIN copy.scores |-> Place(copy.scores[i])]
           counts == Tally(places, Len(reference.counts))
           brief(status) == [NoReport EXCEPT !.status = status, !.observed = Len(copy.scores),
                                             !.totalSeen = copy.total]
           unknown == Cardinality({i \in DOMAIN places : places[i] = 0})
           full == [brief(Verdict(counts)) EXCEPT !.counts = counts, !.unseen = unknown]
<1>1. \A status : /\ brief(status).status = status
                  /\ brief(status).observed = Len(copy.scores)
                  /\ brief(status).totalSeen = copy.total
  BY DEF NoReport
<1>2. Verdict(counts) \in {"significant_shift", "moderate_shift", "stable"}
  BY DEF Verdict
<1>3. /\ full.status = Verdict(counts)
      /\ full.observed = Len(copy.scores)
      /\ full.totalSeen = copy.total
  BY DEF NoReport
<1>4. CASE reference.kind = "none"
  <2>1. Compared(copy) = brief("no_reference")
    BY <1>4 DEF Compared
  <2> QED
    BY <1>1, <1>4, <2>1
<1>5. CASE reference.kind # "none" /\ Len(copy.scores) < MinSamples
  <2>1. Compared(copy) = brief("insufficient_data")
    BY <1>5 DEF Compared
  <2> QED
    BY <1>1, <1>5, <2>1
<1>6. CASE reference.kind # "none" /\ ~(Len(copy.scores) < MinSamples)
  <2>1. Compared(copy) = full
    BY <1>6 DEF Compared
  <2> QED
    BY <1>2, <1>3, <1>6, <2>1
<1> QED
  BY <1>4, <1>5, <1>6

\* Every step keeps the window and the copies what they should be.
LEMMA ReportStep == WindowFits /\ CopiesFit /\ [Next]_vars => (WindowFits /\ CopiesFit)'
<1> SUFFICES ASSUME WindowFits, CopiesFit, [Next]_vars PROVE (WindowFits /\ CopiesFit)'
  OBVIOUS
<1>1. ASSUME NEW score \in Live, Observe(score) PROVE (WindowFits /\ CopiesFit)'
  <2>1. WindowFits'
    BY <1>1, ObserveKeepsNewest
  <2>2. \A window, total :
          Newest(window, seen, total) => Newest(window, seen', total)
    BY <1>1, NewestStays DEF Observe, WindowFits
  <2>3. UNCHANGED <<reference, pc, snapshot, report>>
    BY <1>1 DEF Observe
  <2>4. \A r \in Readers : pc'[r] = "compare" \/ report'[r].status # "none" =>
          Newest(snapshot'[r].scores, seen', snapshot'[r].total)
    BY <2>2, <2>3 DEF CopiesFit
  <2> HIDE DEF Newest
  <2> QED
    BY <2>1, <2>3, <2>4 DEF CopiesFit, Newest
<1>2. ASSUME NEW r \in Readers, Snapshot(r) PROVE (WindowFits /\ CopiesFit)'
  <2>1. UNCHANGED <<reference, scores, totalSeen, seen>>
    BY <1>2 DEF Snapshot
  <2>2. WindowFits'
    BY <2>1 DEF WindowFits, Newest
  <2>3. /\ snapshot'[r].scores = scores
        /\ snapshot'[r].total = totalSeen
        /\ report'[r].status = "none"
    BY <1>2 DEF Snapshot, CopiesFit, NoReport
  <2>4. \A q \in Readers \ {r} : /\ snapshot'[q] = snapshot[q]
                                 /\ report'[q] = report[q]
                                 /\ pc'[q] = pc[q]
    BY <1>2 DEF Snapshot, CopiesFit
  <2>5. /\ pc' \in [Readers -> {"idle", "compare"}]
        /\ DOMAIN snapshot' = Readers
        /\ DOMAIN report' = Readers
    BY <1>2 DEF Snapshot, CopiesFit
  <2>6. Newest(snapshot'[r].scores, seen', snapshot'[r].total)
    BY <2>1, <2>3 DEF WindowFits
  <2>7. \A q \in Readers : pc'[q] = "compare" \/ report'[q].status # "none" =>
          Newest(snapshot'[q].scores, seen', snapshot'[q].total)
    BY <2>1, <2>4, <2>6 DEF CopiesFit
  <2>8. \A q \in Readers : report'[q].status # "none" =>
          /\ report'[q].totalSeen = snapshot'[q].total
          /\ report'[q].observed = Len(snapshot'[q].scores)
          /\ reference'.kind # "none" =>
               (report'[q].status = "insufficient_data" <=>
                  Len(snapshot'[q].scores) < MinSamples)
    BY <2>1, <2>3, <2>4 DEF CopiesFit
  <2> QED
    BY <2>2, <2>5, <2>7, <2>8 DEF CopiesFit, Newest
<1>3. ASSUME NEW r \in Readers, Compare(r) PROVE (WindowFits /\ CopiesFit)'
  <2>1. UNCHANGED <<reference, scores, totalSeen, seen, snapshot>>
    BY <1>3 DEF Compare
  <2>2. WindowFits'
    BY <2>1 DEF WindowFits, Newest
  <2>3. pc[r] = "compare" /\ report'[r] = Compared(snapshot[r])
    BY <1>3 DEF Compare, CopiesFit
  <2>4. \A q \in Readers \ {r} : report'[q] = report[q] /\ pc'[q] = pc[q]
    BY <1>3 DEF Compare, CopiesFit
  <2>5. /\ pc' \in [Readers -> {"idle", "compare"}]
        /\ DOMAIN snapshot' = Readers
        /\ DOMAIN report' = Readers
    BY <1>3 DEF Compare, CopiesFit
  <2>6. \A q \in Readers : pc'[q] = "compare" \/ report'[q].status # "none" =>
          Newest(snapshot'[q].scores, seen', snapshot'[q].total)
    BY <2>1, <2>3, <2>4 DEF CopiesFit
  <2>7. \A q \in Readers : report'[q].status # "none" =>
          /\ report'[q].totalSeen = snapshot'[q].total
          /\ report'[q].observed = Len(snapshot'[q].scores)
          /\ reference'.kind # "none" =>
               (report'[q].status = "insufficient_data" <=>
                  Len(snapshot'[q].scores) < MinSamples)
    <3>1. ASSUME NEW q \in Readers \ {r}, report'[q].status # "none"
          PROVE  /\ report'[q].totalSeen = snapshot'[q].total
                 /\ report'[q].observed = Len(snapshot'[q].scores)
                 /\ reference'.kind # "none" =>
                      (report'[q].status = "insufficient_data" <=>
                         Len(snapshot'[q].scores) < MinSamples)
      BY <2>1, <2>4, <3>1 DEF CopiesFit
    <3>2. /\ report'[r].totalSeen = snapshot'[r].total
          /\ report'[r].observed = Len(snapshot'[r].scores)
          /\ reference'.kind # "none" =>
               (report'[r].status = "insufficient_data" <=>
                  Len(snapshot'[r].scores) < MinSamples)
      BY <2>1, <2>3, ComparedFits
    <3> QED
      BY <3>1, <3>2
  <2> QED
    BY <2>2, <2>5, <2>6, <2>7 DEF CopiesFit, Newest
<1>4. CASE Restart
  <2>1. WindowFits'
    BY <1>4, EmptySeq, DriftAssumption DEF Restart, WindowFits, Newest
  <2>2. CopiesFit'
    BY <1>4 DEF Restart, CopiesFit, NoReport
  <2> QED
    BY <2>1, <2>2
<1>5. CASE UNCHANGED vars
  BY <1>5 DEF vars, WindowFits, CopiesFit, Newest
<1> QED
  BY <1>1, <1>2, <1>3, <1>4, <1>5 DEF Next

\* An element-wise description of the newest observations gives the subsequence.
LEMMA NewestIsSubSeq ==
    ASSUME NEW log \in Seq(Live), NEW window, NEW total, Newest(window, log, total)
    PROVE  window = SubSeq(log, IF total > Window THEN total - Window + 1 ELSE 1, total)
<1> DEFINE first == IF total > Window THEN total - Window + 1 ELSE 1
<1>1. /\ Len(log) \in Nat
      /\ total \in 0..Len(log)
      /\ Window \in Nat \ {0}
      /\ window \in Seq(Live)
      /\ Len(window) = IF total > Window THEN Window ELSE total
      /\ \A i \in 1..Len(window) : window[i] = log[total - Len(window) + i]
  BY LenProperties, DriftAssumption DEF Newest
<1>2. /\ first \in Int
      /\ total \in Int
      /\ first \in 1..(total + 1)
      /\ total - first + 1 = Len(window)
  BY <1>1
<1> HIDE DEF first
<1>3. \A i \in first..total : log[i] \in Live
  <2>1. \A i \in first..total : i \in 1..Len(log)
    BY <1>1, <1>2
  <2> QED
    BY <2>1, ElementOfSeq
<1>4. /\ SubSeq(log, first, total) \in Seq(Live)
      /\ Len(SubSeq(log, first, total)) = IF first <= total THEN total - first + 1 ELSE 0
      /\ \A i \in 1..(total - first + 1) : SubSeq(log, first, total)[i] = log[first + i - 1]
  BY <1>2, <1>3, SubSeqProperties
<1>5. Len(SubSeq(log, first, total)) = Len(window)
  BY <1>2, <1>4
<1>6. \A i \in 1..Len(window) : window[i] = SubSeq(log, first, total)[i]
  <2> SUFFICES ASSUME NEW i \in 1..Len(window)
               PROVE  window[i] = SubSeq(log, first, total)[i]
    OBVIOUS
  <2>1. total - Len(window) + i = first + i - 1
    BY <1>1, <1>2
  <2> QED
    BY <1>1, <1>2, <1>4, <2>1
<1>7. window = SubSeq(log, first, total)
  BY <1>1, <1>4, <1>5, <1>6, SeqEqual
<1> QED
  BY <1>7 DEF first

\* What the strengthening says of a report.
LEMMA FitsImpliesOneMoment == WindowFits /\ CopiesFit => ReportIsOfOneMoment
<1> SUFFICES ASSUME WindowFits, CopiesFit, NEW r \in Readers, report[r].status # "none"
             PROVE  /\ report[r].totalSeen <= Len(seen)
                    /\ snapshot[r].scores =
                         SubSeq(seen, IF report[r].totalSeen > Window
                                      THEN report[r].totalSeen - Window + 1 ELSE 1,
                                report[r].totalSeen)
                    /\ report[r].observed = Len(snapshot[r].scores)
                    /\ reference.kind # "none" =>
                         (report[r].status = "insufficient_data" <=>
                            report[r].totalSeen < MinSamples)
  BY DEF ReportIsOfOneMoment
<1> DEFINE total == report[r].totalSeen
<1>1. /\ total = snapshot[r].total
      /\ report[r].observed = Len(snapshot[r].scores)
      /\ reference.kind # "none" =>
           (report[r].status = "insufficient_data" <=> Len(snapshot[r].scores) < MinSamples)
  BY DEF CopiesFit
<1>2. Newest(snapshot[r].scores, seen, total)
  <2>1. Newest(snapshot[r].scores, seen, snapshot[r].total)
    BY DEF CopiesFit
  <2> QED
    BY <1>1, <2>1
<1> HIDE DEF total
<1>3. snapshot[r].scores = SubSeq(seen, IF total > Window THEN total - Window + 1 ELSE 1, total)
  BY <1>2, NewestIsSubSeq DEF WindowFits
<1>4. /\ total \in 0..Len(seen)
      /\ Len(seen) \in Nat
      /\ Len(snapshot[r].scores) = IF total > Window THEN Window ELSE total
  BY <1>2, LenProperties DEF Newest, WindowFits
<1>5. Len(snapshot[r].scores) < MinSamples <=> total < MinSamples
  BY <1>4, DriftAssumption
<1>6. total <= Len(seen)
  BY <1>4
<1>7. reference.kind # "none" =>
        (report[r].status = "insufficient_data" <=> total < MinSamples)
  BY <1>1, <1>5
<1> QED
  BY <1>1, <1>3, <1>6, <1>7 DEF total

\* A report speaks of one moment, and never lacks data once there were enough,
\* whatever the size of the window and however long it waited (drift.py:175-194).
THEOREM ReportsOfOneMoment == Spec => []ReportIsOfOneMoment
<1>1. Init => WindowFits /\ CopiesFit
  <2> SUFFICES ASSUME Init PROVE WindowFits /\ CopiesFit
    OBVIOUS
  <2>1. WindowFits
    BY EmptySeq, DriftAssumption DEF Init, WindowFits, Newest
  <2>2. CopiesFit
    BY DEF Init, CopiesFit, NoReport
  <2> QED
    BY <2>1, <2>2
<1>2. WindowFits /\ CopiesFit /\ [Next]_vars => (WindowFits /\ CopiesFit)'
  BY ReportStep
<1>3. WindowFits /\ CopiesFit => ReportIsOfOneMoment
  BY FitsImpliesOneMoment
<1> QED
  BY <1>1, <1>2, <1>3, PTL DEF Spec
-----------------------------------------------------------------------------
(* The reference.                                                          *)

\* Ascending lists every element of a finite set, and each before the higher ones.
LEMMA AscendingLists ==
    ASSUME NEW S \in SUBSET Int, IsFiniteSet(S)
    PROVE  /\ Ascending(S) \in Seq(Int)
           /\ Len(Ascending(S)) = Cardinality(S)
           /\ DOMAIN Ascending(S) = 1..Cardinality(S)
           /\ \A k \in 1..Cardinality(S) : Ascending(S)[k] \in S
           /\ \A x \in S : \E k \in 1..Cardinality(S) : Ascending(S)[k] = x
           /\ \A j, k \in 1..Cardinality(S) : j < k => Ascending(S)[j] < Ascending(S)[k]
<1> DEFINE n == Cardinality(S)
           at(k) == CHOOSE x \in S : Cardinality(Above(S, x)) = n - k
<1>1. n \in Nat
  BY FS_CardinalityType
<1>2. Ascending(S) = [k \in 1..n |-> at(k)]
  BY DEF Ascending, Above
<1>3. \A k \in 1..n : at(k) \in S /\ Cardinality(Above(S, at(k))) = n - k
  <2> SUFFICES ASSUME NEW k \in 1..n PROVE \E x \in S : Cardinality(Above(S, x)) = n - k
    OBVIOUS
  <2>1. n - k \in 0..(n - 1)
    BY <1>1
  <2> QED
    BY <2>1, RankTaken
<1> HIDE DEF at
<1>4. ASSUME NEW x \in S PROVE \E k \in 1..n : at(k) = x
  <2> DEFINE rank == Cardinality(Above(S, x))
  <2>1. rank \in 0..(n - 1)
    BY RankBound
  <2> HIDE DEF rank, n
  <2>2. n - rank \in 1..n /\ n - (n - rank) = rank
    BY <1>1, <2>1
  <2>3. at(n - rank) \in S /\ Cardinality(Above(S, at(n - rank))) = rank
    BY <1>3, <2>2
  <2>4. at(n - rank) = x
    <3> DEFINE y == at(n - rank)
    <3>1. y \in S /\ Cardinality(Above(S, y)) = Cardinality(Above(S, x))
      BY <2>3 DEF rank
    <3> HIDE DEF y
    <3>2. y = x
      BY <3>1, RankIsOne
    <3> QED
      BY <3>2 DEF y
  <2> QED
    BY <2>2, <2>4
<1>5. ASSUME NEW j \in 1..n, NEW k \in 1..n, j < k PROVE at(j) < at(k)
  <2>1. /\ at(j) \in S /\ at(k) \in S
        /\ Cardinality(Above(S, at(j))) = n - j
        /\ Cardinality(Above(S, at(k))) = n - k
    BY <1>3
  <2>2. n - k < n - j
    BY <1>1, <1>5
  <2>3. ~(at(k) < at(j)) /\ at(j) # at(k)
    <3>1. at(k) < at(j) => n - j < n - k
      BY <2>1, FewerAbove
    <3>2. at(j) = at(k) => n - j = n - k
      BY <2>1
    <3> HIDE DEF n
    <3> QED
      BY <1>1, <2>2, <3>1, <3>2
  <2>4. at(j) \in Int /\ at(k) \in Int
    BY <2>1
  <2> QED
    BY <2>3, <2>4
<1> HIDE DEF n
<1>6. \A k \in 1..n : at(k) \in Int
  BY <1>3
<1> QED
  BY <1>1, <1>2, <1>3, <1>4, <1>5, <1>6 DEF n

\* The values of a sequence of integers are finitely many.
LEMMA ValuesFinite ==
    ASSUME NEW s \in Seq(Int)
    PROVE  /\ IsFiniteSet(Range(s))
           /\ Range(s) \in SUBSET Int
           /\ \A i \in 1..Len(s) : s[i] \in Range(s)
           /\ DOMAIN s = 1..Len(s)
           /\ Len(s) \in Nat
<1>1. DOMAIN s = 1..Len(s) /\ Len(s) \in Nat /\ \A i \in 1..Len(s) : s[i] \in Int
  BY LenProperties, ElementOfSeq
<1>2. IsFiniteSet(1..Len(s))
  BY <1>1, FS_Interval
<1>3. s \in Surjection(1..Len(s), Range(s))
  BY <1>1 DEF Surjection, Range
<1>4. IsFiniteSet(Range(s))
  BY <1>2, <1>3, FS_Surjection
<1> QED
  BY <1>1, <1>4 DEF Range

\* Each place of the sorted sample holds one of its values.
LEMMA PlaceIsHeld ==
    ASSUME NEW s \in Seq(Int), NEW k \in 1..Len(s)
    PROVE  \E v \in Range(s) : /\ Cardinality({i \in DOMAIN s : s[i] < v}) < k
                               /\ k <= Cardinality({i \in DOMAIN s : s[i] <= v})
<1> DEFINE n == Len(s)
           below(v) == {i \in DOMAIN s : s[i] < v}
           upto(v) == {i \in DOMAIN s : s[i] <= v}
           High == {v \in Range(s) : k <= Cardinality(upto(v))}
<1>1. /\ n \in Nat
      /\ DOMAIN s = 1..n
      /\ IsFiniteSet(1..n)
      /\ Cardinality(1..n) = n
      /\ IsFiniteSet(Range(s))
      /\ Range(s) \in SUBSET Int
      /\ \A i \in 1..n : s[i] \in Range(s)
  <2>1. IsFiniteSet(1..n) /\ Cardinality(1..n) = n
    BY ValuesFinite, FS_Interval
  <2> QED
    BY <2>1, ValuesFinite
<1>2. \A v : IsFiniteSet(below(v)) /\ Cardinality(below(v)) \in Nat
  BY <1>1, FS_Subset, FS_CardinalityType
<1>3. PICK top \in Range(s) : \A v \in Range(s) : v <= top
  <2>1. Range(s) # {}
    BY <1>1
  <2> QED
    BY <1>1, <2>1, GreatestOf
<1>4. top \in High
  <2>1. upto(top) = 1..n
    BY <1>1, <1>3
  <2> HIDE DEF upto
  <2>2. k <= Cardinality(upto(top))
    BY <1>1, <2>1
  <2> QED
    BY <2>2
<1>5. PICK v \in High : \A w \in High : v <= w
  <2>1. High \in SUBSET Int /\ IsFiniteSet(High)
    <3>1. High \in SUBSET Range(s)
      OBVIOUS
    <3> QED
      BY <1>1, <3>1, FS_Subset
  <2> HIDE DEF High
  <2> QED
    BY <1>4, <2>1, LeastOf
<1>6. ASSUME k <= Cardinality(below(v)) PROVE FALSE
  <2> DEFINE Lower == {w \in Range(s) : w < v}
  <2>1. Lower # {}
    <3>1. Cardinality(below(v)) # 0
      <4> HIDE DEF below
      <4> QED
        BY <1>1, <1>2, <1>6
    <3>2. below(v) # {}
      BY <3>1, FS_EmptySet
    <3> QED
      BY <1>1, <3>2
  <2>2. Lower \in SUBSET Int /\ IsFiniteSet(Lower)
    <3>1. Lower \in SUBSET Range(s)
      OBVIOUS
    <3> QED
      BY <1>1, <3>1, FS_Subset
  <2>3. PICK w \in Lower : \A u \in Lower : u <= w
    <3> HIDE DEF Lower
    <3> QED
      BY <2>1, <2>2, GreatestOf
  <2>4. upto(w) = below(v)
    <3>1. \A i \in 1..n : s[i] <= w <=> s[i] < v
      <4> SUFFICES ASSUME NEW i \in 1..n PROVE s[i] <= w <=> s[i] < v
        OBVIOUS
      <4>1. s[i] \in Int /\ w \in Int /\ v \in Int /\ w < v
        BY <1>1
      <4>2. s[i] < v => s[i] <= w
        BY <1>1, <2>3
      <4> QED
        BY <4>1, <4>2
    <3> QED
      BY <1>1, <3>1
  <2>5. w \in High /\ w < v
    BY <1>6, <2>4
  <2>6. w \in Int /\ v \in Int
    BY <1>1
  <2> QED
    BY <1>5, <2>5, <2>6
<1> HIDE DEF below
<1>7. Cardinality(below(v)) < k
  BY <1>2, <1>6
<1> QED
  BY <1>7 DEF below

\* Quantiles are values of the sample, the lowest and the highest among them.
LEMMA QuantilesAreValues ==
    ASSUME NEW s \in Seq(Int), s # << >>
    PROVE  /\ DOMAIN Quantiles(s) = 1..(Bins + 1)
           /\ \A k \in 1..(Bins + 1) : Quantiles(s)[k] \in Range(s)
           /\ \A i \in 1..Len(s) : Quantiles(s)[1] <= s[i] /\ s[i] <= Quantiles(s)[Bins + 1]
<1> DEFINE n == Len(s)
           place(k) == IF k > Bins THEN n ELSE (n * (k - 1)) \div Bins + 1
           below(v) == {i \in DOMAIN s : s[i] < v}
           upto(v) == {i \in DOMAIN s : s[i] <= v}
           at(k) == CHOOSE v \in Range(s) : /\ Cardinality(below(v)) < place(k)
                                            /\ place(k) <= Cardinality(upto(v))
<1>1. /\ n \in Nat \ {0}
      /\ DOMAIN s = 1..n
      /\ IsFiniteSet(1..n)
      /\ Cardinality(1..n) = n
      /\ Range(s) \in SUBSET Int
      /\ \A i \in 1..n : s[i] \in Range(s)
      /\ Bins \in Nat \ {0}
  <2>1. n \in Nat \ {0}
    BY ValuesFinite, EmptySeq
  <2>2. IsFiniteSet(1..n) /\ Cardinality(1..n) = n
    BY <2>1, FS_Interval
  <2> QED
    BY <2>1, <2>2, ValuesFinite, DriftAssumption
<1>2. Quantiles(s) = [k \in 1..(Bins + 1) |-> at(k)]
  BY DEF Quantiles
<1> HIDE DEF n
<1>3. ASSUME NEW k \in 1..(Bins + 1) PROVE place(k) \in 1..n
  <2>1. CASE k > Bins
    BY <1>1, <2>1
  <2>2. CASE k <= Bins
    <3>1. k - 1 \in 0..(Bins - 1)
      BY <1>1, <2>2
    <3>2. \A m \in 0..(Bins - 1) : n * m < n * Bins /\ 0 <= n * m /\ n * m \in Int
      BY <1>1
    <3>3. \A a \in Int : 0 <= a /\ a < n * Bins => a \div Bins \in 0..(n - 1)
      BY <1>1
    <3>4. (n * (k - 1)) \div Bins \in 0..(n - 1)
      BY <3>1, <3>2, <3>3
    <3> QED
      BY <1>1, <2>2, <3>4
  <2> QED
    BY <1>1, <2>1, <2>2
<1>4. /\ place(1) = 1
      /\ place(Bins + 1) = n
  <2>1. (n * (1 - 1)) \div Bins = 0
    BY <1>1
  <2> QED
    BY <1>1, <2>1
<1> HIDE DEF place
<1>5. \A k \in 1..(Bins + 1) : /\ at(k) \in Range(s)
                              /\ Cardinality(below(at(k))) < place(k)
                              /\ place(k) <= Cardinality(upto(at(k)))
  BY <1>3, PlaceIsHeld DEF n
<1> HIDE DEF at
<1>6. \A v : /\ below(v) \in SUBSET (1..n) /\ IsFiniteSet(below(v))
             /\ Cardinality(below(v)) \in Nat
             /\ upto(v) \in SUBSET (1..n) /\ IsFiniteSet(upto(v))
             /\ Cardinality(upto(v)) \in Nat /\ Cardinality(upto(v)) <= n
  BY <1>1, FS_Subset, FS_CardinalityType
<1>7. ASSUME NEW i \in 1..n PROVE at(1) <= s[i] /\ s[i] <= at(Bins + 1)
  <2>1. 1 \in 1..(Bins + 1) /\ Bins + 1 \in 1..(Bins + 1)
    BY <1>1
  <2>2. Cardinality(below(at(1))) = 0
    <3> HIDE DEF below, upto
    <3>1. Cardinality(below(at(1))) < 1
      BY <1>4, <1>5, <2>1
    <3> QED
      BY <1>6, <3>1
  <2>3. below(at(1)) = {}
    BY <1>6, <2>2, FS_EmptySet
  <2>4. Cardinality(upto(at(Bins + 1))) = n
    <3> HIDE DEF below, upto
    <3>1. n <= Cardinality(upto(at(Bins + 1)))
      BY <1>4, <1>5, <2>1
    <3> QED
      BY <1>1, <1>6, <3>1
  <2>5. upto(at(Bins + 1)) = 1..n
    BY <1>1, <1>6, <2>4, FS_Subset
  <2>6. s[i] \in Int /\ at(1) \in Int
    BY <1>1, <1>5, <2>1
  <2>7. ~(s[i] < at(1))
    BY <1>1, <2>3
  <2>8. s[i] <= at(Bins + 1)
    BY <2>5
  <2> QED
    BY <2>6, <2>7, <2>8
<1>8. 1 \in 1..(Bins + 1) /\ Bins + 1 \in 1..(Bins + 1)
  BY <1>1
<1> QED
  BY <1>2, <1>5, <1>7, <1>8 DEF n

\* What was built from the sample: nothing, or marks in ascending order, taken from the
\* sample, and how many of its elements each place got.
ReferenceFits ==
    /\ training \in Samples
    /\ \E kind \in {"none", "categorical", "numeric"} : reference = Build(kind, training)

Places == IF reference.kind = "categorical" THEN Len(reference.marks)
                                            ELSE Len(reference.marks) - 1

Shaped ==
    /\ reference.kind \in {"categorical", "numeric"}
    /\ training \in Seq(Int) /\ training # << >>
    /\ reference.n = Len(training)
    /\ reference.marks \in Seq(Int)
    /\ \A i, j \in 1..Len(reference.marks) : i < j => reference.marks[i] < reference.marks[j]
    /\ \A i \in 1..Len(reference.marks) : reference.marks[i] \in Range(training)
    /\ reference.kind = "categorical" =>
         \A x \in Range(training) : \E i \in 1..Len(reference.marks) : reference.marks[i] = x
    /\ Places \in Nat \ {0}
    /\ reference.counts = Tally([i \in DOMAIN training |-> Place(training[i])], Places)
    /\ reference = [kind |-> reference.kind, marks |-> reference.marks, n |-> reference.n,
                    counts |-> reference.counts]

\* The classes of a sample, sorted, have that shape.
LEMMA CategoricalShaped ==
    ASSUME training \in Samples, training # << >>, reference = CategoricalReference(training)
    PROVE  Shaped
<1> DEFINE classes == Ascending(Range(training))
           n == Cardinality(Range(training))
<1>1. /\ training \in Seq(Int)
      /\ Len(training) \in Nat \ {0}
      /\ DOMAIN training = 1..Len(training)
      /\ IsFiniteSet(Range(training))
      /\ Range(training) \in SUBSET Int
      /\ \A i \in 1..Len(training) : training[i] \in Range(training)
  BY DriftAssumption, ValuesFinite, EmptySeq
<1>2. n \in Nat \ {0}
  <2>1. Range(training) # {}
    BY <1>1
  <2> QED
    BY <1>1, <2>1, FS_CardinalityType, FS_EmptySet
<1>3. /\ classes \in Seq(Int)
      /\ Len(classes) = n
      /\ \A k \in 1..n : classes[k] \in Range(training)
      /\ \A x \in Range(training) : \E k \in 1..n : classes[k] = x
      /\ \A j, k \in 1..n : j < k => classes[j] < classes[k]
  BY <1>1, AscendingLists
<1>4. /\ reference.kind = "categorical"
      /\ reference.marks = classes
      /\ reference.n = Len(training)
      /\ reference.counts = Tally([i \in DOMAIN training |-> ClassIndex(training[i], classes)],
                                  Len(classes))
      /\ reference = [kind |-> reference.kind, marks |-> reference.marks, n |-> reference.n,
                      counts |-> reference.counts]
  BY DEF CategoricalReference
<1>5. [i \in DOMAIN training |-> ClassIndex(training[i], classes)]
        = [i \in DOMAIN training |-> Place(training[i])]
  BY <1>4 DEF Place
<1> HIDE DEF classes, n
<1>6. Places = n
  BY <1>3, <1>4 DEF Places
<1> QED
  BY <1>1, <1>2, <1>3, <1>4, <1>5, <1>6 DEF Shaped

\* So have the quantiles of a sample that is not of one value only.
LEMMA NumericShaped ==
    ASSUME training \in Samples, training # << >>, Cardinality(Range(training)) # 1,
           reference = NumericReference(training)
    PROVE  Shaped
<1> DEFINE edges == Edges(training)
           values == Range(Quantiles(training))
           n == Cardinality(values)
<1>1. /\ training \in Seq(Int)
      /\ Len(training) \in Nat \ {0}
      /\ DOMAIN training = 1..Len(training)
      /\ IsFiniteSet(Range(training))
      /\ Range(training) \in SUBSET Int
      /\ \A i \in 1..Len(training) : training[i] \in Range(training)
  BY DriftAssumption, ValuesFinite, EmptySeq
<1>2. /\ DOMAIN Quantiles(training) = 1..(Bins + 1)
      /\ \A k \in 1..(Bins + 1) : Quantiles(training)[k] \in Range(training)
      /\ \A i \in 1..Len(training) : /\ Quantiles(training)[1] <= training[i]
                                     /\ training[i] <= Quantiles(training)[Bins + 1]
  BY <1>1, QuantilesAreValues
<1>3. values \in SUBSET Range(training)
  BY <1>2 DEF Range
<1>4. values \in SUBSET Int /\ IsFiniteSet(values) /\ n \in Nat
  BY <1>1, <1>3, FS_Subset, FS_CardinalityType
<1>5. n >= 2
  <2>1. 1 \in 1..(Bins + 1) /\ Bins + 1 \in 1..(Bins + 1)
    BY DriftAssumption
  <2> DEFINE low == Quantiles(training)[1]
             high == Quantiles(training)[Bins + 1]
  <2>2. low \in values /\ high \in values
    BY <1>2, <2>1 DEF Range
  <2>3. \A i \in 1..Len(training) : low <= training[i] /\ training[i] <= high
    BY <1>2
  <2> HIDE DEF low, high, values
  <2>4. ASSUME low = high PROVE FALSE
    <3>1. \A x \in Range(training) : x = low
      <4> SUFFICES ASSUME NEW i \in 1..Len(training) PROVE training[i] = low
        BY <1>1 DEF Range
      <4>1. low <= training[i] /\ training[i] <= low /\ training[i] \in Int /\ low \in Int
        BY <1>1, <1>4, <2>2, <2>3, <2>4
      <4> QED
        BY <4>1
    <3>2. low \in Range(training)
      BY <1>3, <2>2
    <3>3. Range(training) = {low}
      BY <3>1, <3>2
    <3> QED
      BY <3>3, FS_Singleton
  <2>5. values # {} /\ \A x : values # {x}
    BY <2>2, <2>4
  <2>6. n # 0 /\ n # 1
    BY <1>4, <2>5, FS_EmptySet, FS_Singleton
  <2> QED
    BY <1>4, <2>6
<1>6. /\ edges \in Seq(Int)
      /\ Len(edges) = n
      /\ \A k \in 1..n : edges[k] \in Range(training)
      /\ \A j, k \in 1..n : j < k => edges[j] < edges[k]
  <2>1. edges = Ascending(values)
    BY DEF Edges
  <2> HIDE DEF edges, values
  <2> QED
    BY <1>3, <1>4, <2>1, AscendingLists
<1>7. /\ reference.kind = "numeric"
      /\ reference.marks = edges
      /\ reference.n = Len(training)
      /\ reference.counts = Tally([i \in DOMAIN training |-> BinIndex(training[i], edges)],
                                  Len(edges) - 1)
      /\ reference = [kind |-> reference.kind, marks |-> reference.marks, n |-> reference.n,
                      counts |-> reference.counts]
  BY DEF NumericReference
<1>8. [i \in DOMAIN training |-> BinIndex(training[i], edges)]
        = [i \in DOMAIN training |-> Place(training[i])]
  BY <1>7 DEF Place
<1> HIDE DEF edges, n
<1>9. Places = n - 1
  BY <1>6, <1>7 DEF Places
<1>10. Places \in Nat \ {0}
  BY <1>4, <1>5, <1>9 DEF n
<1> QED
  BY <1>1, <1>6, <1>7, <1>8, <1>9, <1>10 DEF Shaped

\* Whatever was built has it, or is no reference.
LEMMA ReferenceShape == ReferenceFits => reference = NoReference \/ Shaped
<1> SUFFICES ASSUME training \in Samples,
                    NEW kind \in {"none", "categorical", "numeric"},
                    reference = Build(kind, training), reference # NoReference
             PROVE  Shaped
  BY DEF ReferenceFits
<1>1. /\ kind # "none"
      /\ training # << >>
      /\ kind = "numeric" => Cardinality(Range(training)) # 1
  BY DEF Build, BuildRaises
<1>2. CASE kind = "categorical"
  BY <1>1, <1>2, CategoricalShaped DEF Build, BuildRaises
<1>3. CASE kind = "numeric"
  BY <1>1, <1>3, NumericShaped DEF Build, BuildRaises
<1> QED
  BY <1>1, <1>2, <1>3

\* The bin of a score is the last one that starts at or below it, if any does.
LEMMA BinIndexIs ==
    ASSUME NEW edges \in Seq(Int), Len(edges) >= 2, NEW score \in Int
    PROVE  /\ BinIndex(score, edges) \in 1..(Len(edges) - 1)
           /\ BinIndex(score, edges) = 1 \/ score >= edges[BinIndex(score, edges)]
           /\ \A i \in 1..(Len(edges) - 1) : score >= edges[i] => i <= BinIndex(score, edges)
<1> DEFINE n == Len(edges) - 1
           reached == {1} \cup {i \in 1..n : score >= edges[i]}
<1>1. n \in Nat \ {0}
  <2>1. Len(edges) \in Nat
    BY LenProperties
  <2>2. \A k \in Nat : k >= 2 => k - 1 \in Nat \ {0}
    OBVIOUS
  <2> QED
    BY <2>1, <2>2
<1>2. IsFiniteSet(1..n)
  BY <1>1, FS_Interval
<1> HIDE DEF n
<1>3. reached \in SUBSET (1..n) /\ reached # {}
  BY <1>1
<1>4. reached \in SUBSET Int /\ IsFiniteSet(reached)
  <2> HIDE DEF reached
  <2>1. IsFiniteSet(reached)
    BY <1>2, <1>3, FS_Subset
  <2>2. reached \in SUBSET Int
    BY <1>1, <1>3
  <2> QED
    BY <2>1, <2>2
<1> DEFINE bin == CHOOSE x \in reached : \A y \in reached : x >= y
<1>5. bin \in reached /\ \A y \in reached : bin >= y
  <2>1. PICK x \in reached : \A y \in reached : y <= x
    <3> HIDE DEF reached
    <3> QED
      BY <1>3, <1>4, GreatestOf
  <2>2. \A y \in reached : x >= y
    BY <1>4, <2>1
  <2> HIDE DEF reached
  <2> QED
    BY <2>2
<1>6. BinIndex(score, edges) = bin
  BY DEF BinIndex, Max, n
<1> HIDE DEF bin
<1>7. bin \in 1..n /\ (bin = 1 \/ score >= edges[bin])
  BY <1>1, <1>5
<1>8. \A i \in 1..n : score >= edges[i] => i <= bin
  BY <1>1, <1>5, <1>7
<1> QED
  BY <1>6, <1>7, <1>8 DEF n

\* A score has the one place it belongs to; only unknown classes have none.
LEMMA PlaceBelongs ==
    ASSUME Shaped, NEW score \in Int
    PROVE  /\ Place(score) \in 0..Places
           /\ \A b \in 1..Places : Place(score) = b <=> Belongs(score, b)
           /\ (Place(score) = 0 => reference.kind = "categorical" /\ score \notin Range(training))
<1> DEFINE marks == reference.marks
           n == Len(marks)
<1>1. /\ marks \in Seq(Int)
      /\ n \in Nat
      /\ DOMAIN marks = 1..n
      /\ \A i \in 1..n : marks[i] \in Int
      /\ \A i, j \in 1..n : i < j => marks[i] < marks[j]
  BY LenProperties, ElementOfSeq DEF Shaped
<1>2. CASE reference.kind = "categorical"
  <2>1. Places = n /\ Place(score) = ClassIndex(score, marks)
    BY <1>2 DEF Places, Place
  <2>2. \A b \in 1..n : Belongs(score, b) <=> marks[b] = score
    BY <1>2 DEF Belongs
  <2>3. score \in Range(training) => score \in Range(marks)
    BY <1>1, <1>2 DEF Shaped, Range
  <2> HIDE DEF marks, n
  <2>4. CASE score \in Range(marks)
    <3>1. PICK i \in DOMAIN marks : marks[i] = score
      BY <2>4 DEF Range
    <3> DEFINE at == CHOOSE k \in DOMAIN marks : marks[k] = score
    <3>2. at \in DOMAIN marks /\ marks[at] = score
      BY <3>1
    <3>3. Place(score) = at
      BY <2>1, <2>4 DEF ClassIndex
    <3> HIDE DEF at
    <3>4. \A b \in 1..n : marks[b] = score => b = at
      <4> SUFFICES ASSUME NEW b \in 1..n, marks[b] = score, b # at PROVE FALSE
        OBVIOUS
      <4>1. b \in Int /\ at \in 1..n /\ at \in Int
        BY <1>1, <3>2
      <4>2. b < at \/ at < b
        BY <4>1
      <4> QED
        BY <1>1, <3>2, <4>1, <4>2
    <3> QED
      BY <1>1, <2>1, <2>2, <3>2, <3>3, <3>4
  <2>5. CASE score \notin Range(marks)
    <3>1. Place(score) = 0
      BY <2>1, <2>5 DEF ClassIndex
    <3>2. \A b \in 1..n : marks[b] # score
      BY <1>1, <2>5 DEF Range
    <3> QED
      BY <1>1, <1>2, <2>1, <2>2, <2>3, <2>5, <3>1, <3>2
  <2> QED
    BY <2>4, <2>5
<1>3. CASE reference.kind # "categorical"
  <2>1. Places = n - 1 /\ Place(score) = BinIndex(score, marks) /\ n >= 2
    <3>1. Place(score) = BinIndex(score, marks)
      BY <1>3 DEF Place
    <3>2. Places = n - 1 /\ Places \in Nat \ {0}
      BY <1>3 DEF Places, Shaped
    <3> HIDE DEF n
    <3>3. n >= 2
      BY <1>1, <3>2
    <3> QED
      BY <3>1, <3>2, <3>3
  <2> DEFINE bin == BinIndex(score, marks)
  <2>2. \A b \in 1..(n - 1) : Belongs(score, b) <=>
          /\ b = 1 \/ marks[b] <= score
          /\ b = n - 1 \/ score < marks[b + 1]
    BY <1>3 DEF Belongs
  <2> HIDE DEF n, marks
  <2>3. /\ bin \in 1..(n - 1)
        /\ bin = 1 \/ score >= marks[bin]
        /\ \A i \in 1..(n - 1) : score >= marks[i] => i <= bin
    BY <1>1, <2>1, BinIndexIs DEF n
  <2> HIDE DEF bin
  <2>4. Belongs(score, bin)
    <3>1. bin = 1 \/ marks[bin] <= score
      BY <1>1, <2>3
    <3>2. bin = n - 1 \/ score < marks[bin + 1]
      <4> SUFFICES ASSUME bin # n - 1 PROVE score < marks[bin + 1]
        OBVIOUS
      <4>1. bin + 1 \in 1..(n - 1) /\ ~(bin + 1 <= bin)
        BY <1>1, <2>3
      <4>2. ~(score >= marks[bin + 1]) /\ marks[bin + 1] \in Int
        BY <1>1, <2>3, <4>1
      <4> QED
        BY <4>2
    <3> QED
      BY <2>2, <2>3, <3>1, <3>2
  <2>5. ASSUME NEW b \in 1..(n - 1), Belongs(score, b) PROVE b = bin
    <3>1. b <= bin
      <4>1. CASE b = 1
        BY <2>3, <4>1
      <4>2. CASE marks[b] <= score
        <5>1. score >= marks[b]
          BY <1>1, <4>2
        <5> QED
          BY <2>3, <5>1
      <4> QED
        BY <2>2, <2>5, <4>1, <4>2
    <3>2. ~(b < bin)
      <4> SUFFICES ASSUME b < bin PROVE FALSE
        OBVIOUS
      <4>1. b # n - 1 /\ bin # 1 /\ b + 1 \in 1..n /\ bin \in 1..n /\ (b + 1 = bin \/ b + 1 < bin)
        BY <1>1, <2>3
      <4>2. score < marks[b + 1] /\ score >= marks[bin]
        BY <2>2, <2>3, <2>5, <4>1
      <4>3. marks[b + 1] <= marks[bin]
        BY <1>1, <4>1
      <4>4. marks[b + 1] \in Int /\ marks[bin] \in Int
        BY <1>1, <4>1
      <4> QED
        BY <4>2, <4>3, <4>4
    <3> QED
      BY <1>1, <2>3, <3>1, <3>2
  <2>6. Place(score) = bin
    BY <2>1 DEF bin
  <2> QED
    BY <1>1, <2>1, <2>3, <2>4, <2>5, <2>6
<1> QED
  BY <1>2, <1>3

\* Counting places gives the size of each, and all of them together.
LEMMA TallyCounts ==
    ASSUME NEW n \in Nat, NEW p, DOMAIN p = 1..n, NEW size \in Nat
    PROVE  /\ Tally(p, size) \in Seq(Nat)
           /\ DOMAIN Tally(p, size) = 1..size
           /\ Len(Tally(p, size)) = size
           /\ \A b \in 1..size : Tally(p, size)[b] = Cardinality(At(p, n, {b}))
           /\ Total(Tally(p, size)) = Cardinality(At(p, n, 1..size))
<1> DEFINE counts == Tally(p, size)
<1>1. \A b : {i \in DOMAIN p : p[i] = b} = At(p, n, {b})
  BY DEF At
<1>2. /\ DOMAIN counts = 1..size
      /\ \A b \in 1..size : counts[b] = Cardinality(At(p, n, {b}))
      /\ counts = [b \in 1..size |-> Cardinality(At(p, n, {b}))]
  BY <1>1 DEF Tally
<1>3. \A b : Cardinality(At(p, n, {b})) \in Nat
  BY AtFinite
<1> HIDE DEF counts
<1>4. counts \in Seq(Nat) /\ Len(counts) = size
  <2>1. counts \in [1..size -> Nat]
    BY <1>2, <1>3
  <2> QED
    BY <2>1
<1>5. Total(counts) = Sum(counts, 1..size)
  BY <1>2 DEF Total, Sum, FoldFunction
<1>6. IsFiniteSet(1..size)
  BY FS_Interval
<1>7. Sum(counts, 1..size) = Cardinality(At(p, n, 1..size))
  BY <1>2, <1>6, BinsAddUp
<1> QED
  BY <1>2, <1>4, <1>5, <1>7 DEF counts

\* Everything is at some place, or nowhere.
LEMMA AllAreCounted ==
    ASSUME NEW n \in Nat, NEW size \in Nat, NEW p \in [1..n -> 0..size]
    PROVE  Total(Tally(p, size)) + Cardinality({i \in DOMAIN p : p[i] = 0}) = n
<1>1. At(p, n, 0..size) = 1..n
  BY DEF At
<1>2. Cardinality(At(p, n, 0..size)) = n
  BY <1>1, FS_Interval
<1>3. (0..size) \ {0} = 1..size /\ 0 \in 0..size
  OBVIOUS
<1>4. Cardinality(At(p, n, 0..size)) = Cardinality(At(p, n, {0})) + Cardinality(At(p, n, 1..size))
  BY <1>3, AtRemove
<1>5. {i \in DOMAIN p : p[i] = 0} = At(p, n, {0})
  BY DEF At
<1>6. Total(Tally(p, size)) = Cardinality(At(p, n, 1..size))
  BY TallyCounts
<1>7. Cardinality(At(p, n, {0})) \in Nat /\ Cardinality(At(p, n, 1..size)) \in Nat
  BY AtFinite
<1>8. Total(Tally(p, size)) + Cardinality({i \in DOMAIN p : p[i] = 0})
        = Cardinality(At(p, n, 1..size)) + Cardinality(At(p, n, {0}))
  BY <1>5, <1>6
<1> QED
  BY <1>2, <1>4, <1>7, <1>8

\* The places of the sample, and what is counted there.
LEMMA SampleIsPlaced ==
    ASSUME Shaped
    PROVE  LET p == [i \in DOMAIN training |-> Place(training[i])]
               n == Len(training)
           IN  /\ n \in Nat \ {0}
               /\ p \in [1..n -> 1..Places]
               /\ reference.counts \in Seq(Nat)
               /\ DOMAIN reference.counts = 1..Places
               /\ Len(reference.counts) = Places
               /\ \A b \in 1..Places : reference.counts[b] = Cardinality(At(p, n, {b}))
               /\ Total(reference.counts) = n
<1> DEFINE p == [i \in DOMAIN training |-> Place(training[i])]
           n == Len(training)
<1>1. /\ n \in Nat \ {0}
      /\ DOMAIN training = 1..n
      /\ \A i \in 1..n : training[i] \in Int /\ training[i] \in Range(training)
  BY ValuesFinite, EmptySeq, ElementOfSeq DEF Shaped
<1>2. Places \in Nat
  BY DEF Shaped
<1>3. p \in [1..n -> 1..Places]
  <2> SUFFICES ASSUME NEW i \in 1..n PROVE Place(training[i]) \in 1..Places
    BY <1>1
  <2>1. Place(training[i]) \in 0..Places /\ Place(training[i]) # 0
    BY <1>1, PlaceBelongs
  <2> QED
    BY <1>2, <2>1
<1>4. reference.counts = Tally(p, Places)
  BY DEF Shaped
<1> HIDE DEF p, n
<1>5. /\ DOMAIN p = 1..n
      /\ At(p, n, 1..Places) = 1..n
  BY <1>3 DEF At
<1>6. Cardinality(1..n) = n
  BY <1>1, FS_Interval
<1>7. /\ reference.counts \in Seq(Nat)
      /\ DOMAIN reference.counts = 1..Places
      /\ Len(reference.counts) = Places
      /\ \A b \in 1..Places : reference.counts[b] = Cardinality(At(p, n, {b}))
      /\ Total(reference.counts) = Cardinality(At(p, n, 1..Places))
  <2>1. n \in Nat /\ DOMAIN p = 1..n
    BY <1>1, <1>5
  <2> DEFINE counts == Tally(p, Places)
  <2>2. counts \in Seq(Nat) /\ DOMAIN counts = 1..Places /\ Len(counts) = Places
    BY <1>2, <2>1, TallyCounts
  <2>3. ASSUME NEW b \in 1..Places PROVE counts[b] = Cardinality(At(p, n, {b}))
    <3>1. {i \in DOMAIN p : p[i] = b} = At(p, n, {b})
      BY <2>1 DEF At
    <3> QED
      BY <3>1 DEF Tally
  <2>4. Total(counts) = Cardinality(At(p, n, 1..Places))
    BY <1>2, <2>1, TallyCounts
  <2> HIDE DEF counts
  <2> QED
    BY <1>4, <2>2, <2>3, <2>4 DEF counts
<1>8. Total(reference.counts) = n
  BY <1>5, <1>6, <1>7
<1> QED
  BY <1>1, <1>3, <1>7, <1>8 DEF p, n

\* A place starts at a value of the sample, which is counted there.
LEMMA ShapedIsFilled == Shaped => BinsAreFilled
<1> SUFFICES ASSUME Shaped PROVE BinsAreFilled
  OBVIOUS
<1> DEFINE p == [i \in DOMAIN training |-> Place(training[i])]
           n == Len(training)
           marks == reference.marks
<1>1. /\ n \in Nat
      /\ p \in [1..n -> 1..Places]
      /\ DOMAIN reference.counts = 1..Places
      /\ \A b \in 1..Places : reference.counts[b] = Cardinality(At(p, n, {b}))
      /\ Total(reference.counts) = n
  BY SampleIsPlaced
<1>2. reference.n = n /\ Places \in Nat
  BY DEF Shaped
<1>3. /\ training \in Seq(Int)
      /\ DOMAIN training = 1..n
  BY ValuesFinite DEF Shaped
<1>4. ASSUME NEW b \in 1..Places PROVE reference.counts[b] > 0
  <2>1. /\ b \in 1..Len(marks)
        /\ marks \in Seq(Int)
        /\ Len(marks) \in Nat
    <3>1. marks \in Seq(Int) /\ Len(marks) \in Nat
      BY LenProperties DEF Shaped
    <3> QED
      BY <1>2, <3>1 DEF Places
  <2>2. marks[b] \in Int /\ marks[b] \in Range(training)
    BY <2>1, ElementOfSeq DEF Shaped
  <2>3. Belongs(marks[b], b)
    <3>1. CASE reference.kind = "categorical"
      BY <3>1 DEF Belongs
    <3>2. CASE reference.kind # "categorical"
      <4>1. Places = Len(marks) - 1
        BY <3>2 DEF Places
      <4> HIDE DEF marks
      <4>2. b + 1 \in 1..Len(marks) /\ b < b + 1
        BY <2>1, <4>1
      <4>3. marks[b] < marks[b + 1]
        BY <2>1, <4>2 DEF Shaped, marks
      <4> QED
        BY <2>2, <3>2, <4>3 DEF Belongs, marks
    <3> QED
      BY <3>1, <3>2
  <2>4. Place(marks[b]) = b
    BY <2>2, <2>3, PlaceBelongs
  <2>5. PICK i \in 1..n : training[i] = marks[b]
    BY <1>3, <2>2 DEF Range
  <2>6. p[i] = b
    BY <1>3, <2>4, <2>5
  <2> HIDE DEF p, n
  <2>7. At(p, n, {b}) # {}
    BY <2>6 DEF At
  <2>8. IsFiniteSet(At(p, n, {b})) /\ Cardinality(At(p, n, {b})) \in Nat
    BY <1>1, AtFinite
  <2>9. Cardinality(At(p, n, {b})) # 0
    BY <2>7, <2>8, FS_EmptySet
  <2> QED
    BY <1>1, <2>8, <2>9
<1> HIDE DEF p, n, marks
<1> QED
  BY <1>1, <1>2, <1>4 DEF BinsAreFilled

\* The sum over no bins.
LEMMA TotalOfNone == Total(<< >>) = 0
<1>1. DOMAIN << >> = {}
  OBVIOUS
<1> QED
  BY <1>1, SumEmpty DEF Total, FoldFunction, Sum

\* Nothing changes the sample or the reference.
LEMMA ReferenceStep == ReferenceFits /\ [Next]_vars => ReferenceFits'
<1> SUFFICES ASSUME ReferenceFits, [Next]_vars PROVE ReferenceFits'
  OBVIOUS
<1>1. training' = training /\ reference' = reference
  BY DEF Next, Observe, Snapshot, Compare, Restart, vars
<1> QED
  BY <1>1 DEF ReferenceFits

\* The reference is always what was built from the sample.
LEMMA ReferenceInvariant == Spec => []ReferenceFits
<1>1. Init => ReferenceFits
  BY DEF Init, ReferenceFits
<1> QED
  BY <1>1, ReferenceStep, PTL DEF Spec

\* No bin or class of a reference is empty and none of the sample is lost, for every
\* sample, however its scores tie (drift.py:101-113).
THEOREM ReferenceIsFilled == Spec => []BinsAreFilled
<1>1. ReferenceFits => BinsAreFilled
  <2> SUFFICES ASSUME ReferenceFits PROVE BinsAreFilled
    OBVIOUS
  <2>1. CASE reference = NoReference
    BY <2>1, TotalOfNone DEF NoReference, BinsAreFilled
  <2> QED
    BY <2>1, ReferenceShape, ShapedIsFilled
<1> QED
  BY <1>1, ReferenceInvariant, PTL
-----------------------------------------------------------------------------
(* The report.                                                             *)

\* The strengthening: what a reader has is what report makes of its copy.
MonitorFits ==
    /\ snapshot \in [Readers -> [scores : Seq(Live), total : Nat]]
    /\ report = [r \in Readers |-> report[r]]
    /\ \A r \in Readers : report[r] = NoReport \/ report[r] = Compared(snapshot[r])
    /\ restarts \in Nat

\* The same copy makes the same report while the reference stays.
LEMMA ComparedStays ==
    ASSUME reference' = reference
    PROVE  \A copy : Compared(copy)' = Compared(copy)
<1>1. \A x : Place(x)' = Place(x)
  BY DEF Place
<1>2. \A counts, threshold : Reaches(counts, threshold)' <=> Reaches(counts, threshold)
  BY DEF Reaches
<1>3. \A counts : Verdict(counts)' = Verdict(counts)
  BY <1>2 DEF Verdict
<1> QED
  BY <1>1, <1>3 DEF Compared

\* Every step keeps copies and reports together.
LEMMA MonitorStep == WindowFits /\ MonitorFits /\ [Next]_vars => MonitorFits'
<1> SUFFICES ASSUME WindowFits, MonitorFits, [Next]_vars PROVE MonitorFits'
  OBVIOUS
<1>1. reference' = reference
  BY DEF Next, Observe, Snapshot, Compare, Restart, vars
<1>2. \A copy : Compared(copy)' = Compared(copy)
  BY <1>1, ComparedStays
<1>3. ASSUME UNCHANGED <<snapshot, report, restarts>> PROVE MonitorFits'
  BY <1>2, <1>3 DEF MonitorFits
<1>4. ASSUME NEW score \in Live, Observe(score) PROVE MonitorFits'
  BY <1>3, <1>4 DEF Observe
<1>5. ASSUME NEW r \in Readers, Snapshot(r) PROVE MonitorFits'
  <2>1. [scores |-> scores, total |-> totalSeen] \in [scores : Seq(Live), total : Nat]
    BY LenProperties DEF WindowFits, Newest
  <2>2. /\ snapshot' = [snapshot EXCEPT ![r] = [scores |-> scores, total |-> totalSeen]]
        /\ report' = [report EXCEPT ![r] = NoReport]
        /\ restarts' = restarts
    BY <1>5 DEF Snapshot
  <2>3. snapshot' \in [Readers -> [scores : Seq(Live), total : Nat]]
    BY <2>1, <2>2 DEF MonitorFits
  <2>4. \A q \in Readers : report'[q] = NoReport \/ report'[q] = Compared(snapshot'[q])
    BY <2>2 DEF MonitorFits
  <2> QED
    BY <1>2, <2>2, <2>3, <2>4 DEF MonitorFits
<1>6. ASSUME NEW r \in Readers, Compare(r) PROVE MonitorFits'
  <2>1. /\ snapshot' = snapshot
        /\ report' = [report EXCEPT ![r] = Compared(snapshot[r])]
        /\ restarts' = restarts
    BY <1>6 DEF Compare
  <2> QED
    BY <1>2, <2>1 DEF MonitorFits
<1>7. CASE Restart
  <2>1. [scores |-> << >>, total |-> 0] \in [scores : Seq(Live), total : Nat]
    OBVIOUS
  <2> QED
    BY <1>7, <2>1 DEF Restart, MonitorFits
<1>8. CASE UNCHANGED vars
  BY <1>3, <1>8 DEF vars
<1> QED
  BY <1>4, <1>5, <1>6, <1>7, <1>8 DEF Next

\* Everything that holds of the monitor in every state.
DriftFits == ReferenceFits /\ WindowFits /\ CopiesFit /\ MonitorFits

\* It is an invariant.
LEMMA DriftInvariant == Spec => []DriftFits
<1>1. Init => DriftFits
  <2> SUFFICES ASSUME Init PROVE DriftFits
    OBVIOUS
  <2>1. WindowFits
    BY EmptySeq, DriftAssumption DEF Init, WindowFits, Newest
  <2>2. CopiesFit
    BY DEF Init, CopiesFit, NoReport
  <2>3. ReferenceFits
    BY DEF Init, ReferenceFits
  <2>4. [scores |-> << >>, total |-> 0] \in [scores : Seq(Live), total : Nat]
    OBVIOUS
  <2>5. MonitorFits
    BY <2>4 DEF Init, MonitorFits
  <2> QED
    BY <2>1, <2>2, <2>3, <2>5 DEF DriftFits
<1>2. DriftFits /\ [Next]_vars => DriftFits'
  BY ReferenceStep, ReportStep, MonitorStep DEF DriftFits
<1> QED
  BY <1>1, <1>2, PTL DEF Spec

Observed(r) == Len(snapshot[r].scores)
Spots(r) == [i \in DOMAIN snapshot[r].scores |-> Place(snapshot[r].scores[i])]

\* The places of a window.
LEMMA WindowIsPlaced ==
    ASSUME Shaped, MonitorFits, NEW r \in Readers
    PROVE  /\ Observed(r) \in Nat
           /\ snapshot[r].scores \in Seq(Int)
           /\ DOMAIN snapshot[r].scores = 1..Observed(r)
           /\ \A i \in 1..Observed(r) : snapshot[r].scores[i] \in Int
           /\ Spots(r) \in [1..Observed(r) -> 0..Places]
<1> DEFINE window == snapshot[r].scores
<1>1. window \in Seq(Live)
  BY DEF MonitorFits
<1> HIDE DEF window
<1>2. /\ Len(window) \in Nat
      /\ DOMAIN window = 1..Len(window)
      /\ \A i \in 1..Len(window) : window[i] \in Int
  BY <1>1, LenProperties, ElementOfSeq, DriftAssumption
<1>3. window \in Seq(Int)
  <2>1. window \in [1..Len(window) -> Live]
    BY <1>1, LenProperties
  <2>2. window \in [1..Len(window) -> Int]
    BY <2>1, DriftAssumption
  <2> QED
    BY <1>2, <2>2
<1>4. [i \in DOMAIN window |-> Place(window[i])] \in [1..Len(window) -> 0..Places]
  BY <1>2, PlaceBelongs
<1> QED
  BY <1>2, <1>3, <1>4 DEF Observed, Spots, window

\* What a report says beside its verdict.
LEMMA ComparedIs ==
    ASSUME Shaped, MonitorFits, NEW r \in Readers, Observed(r) >= MinSamples
    PROVE  Compared(snapshot[r]) =
             [status |-> Verdict(Tally(Spots(r), Places)), observed |-> Observed(r),
              totalSeen |-> snapshot[r].total, counts |-> Tally(Spots(r), Places),
              unseen |-> Cardinality({i \in DOMAIN Spots(r) : Spots(r)[i] = 0})]
<1>1. reference.kind # "none"
  BY DEF Shaped
<1>2. Places = Len(reference.counts)
  BY SampleIsPlaced
<1>3. ~(Len(snapshot[r].scores) < MinSamples)
  BY WindowIsPlaced, DriftAssumption DEF Observed
<1> QED
  BY <1>1, <1>2, <1>3 DEF Compared, NoReport, Observed, Spots

\* A verdict is one of three.
LEMMA VerdictType ==
    ASSUME NEW counts
    PROVE  Verdict(counts) \in {"stable", "moderate_shift", "significant_shift"}
BY DEF Verdict

\* A verdict needs a reference and a window, and comes from the places counted.
LEMMA VerdictMeans ==
    ASSUME DriftFits, NEW r \in Readers, HasVerdict(r)
    PROVE  /\ Shaped
           /\ Observed(r) \in 1..Window
           /\ report[r].status = Verdict(report[r].counts)
           /\ report[r].counts = Tally(Spots(r), Places)
           /\ report[r].observed = Observed(r)
           /\ report[r].unseen = Cardinality({i \in DOMAIN Spots(r) : Spots(r)[i] = 0})
<1>1. report[r] = Compared(snapshot[r])
  BY DEF DriftFits, MonitorFits, HasVerdict, NoReport
<1>2. reference.kind # "none" /\ ~(Len(snapshot[r].scores) < MinSamples)
  <2>1. reference.kind = "none" => report[r].status = "no_reference"
    BY <1>1 DEF Compared, NoReport
  <2>2. reference.kind # "none" /\ Len(snapshot[r].scores) < MinSamples =>
          report[r].status = "insufficient_data"
    BY <1>1 DEF Compared, NoReport
  <2> QED
    BY <2>1, <2>2 DEF HasVerdict
<1>3. Shaped
  BY <1>2, ReferenceShape DEF DriftFits, NoReference
<1>4. Observed(r) \in 1..Window /\ Observed(r) >= MinSamples
  <2>1. report[r].status # "none"
    BY DEF HasVerdict
  <2>2. Newest(snapshot[r].scores, seen, snapshot[r].total)
    BY <2>1 DEF DriftFits, CopiesFit
  <2>3. Len(seen) \in Nat
    BY LenProperties DEF DriftFits, WindowFits
  <2>4. Observed(r) <= Window
    BY <2>2, <2>3, DriftAssumption DEF Newest, Observed
  <2>5. Observed(r) \in Nat
    BY <1>3, WindowIsPlaced DEF DriftFits
  <2> QED
    BY <1>2, <2>4, <2>5, DriftAssumption DEF Observed
<1>5. Compared(snapshot[r]) =
        [status |-> Verdict(Tally(Spots(r), Places)), observed |-> Observed(r),
         totalSeen |-> snapshot[r].total, counts |-> Tally(Spots(r), Places),
         unseen |-> Cardinality({i \in DOMAIN Spots(r) : Spots(r)[i] = 0})]
  BY <1>3, <1>4, ComparedIs DEF DriftFits
<1> QED
  BY <1>1, <1>3, <1>4, <1>5

\* What was built from the sample is well typed.
LEMMA ReferenceType ==
    ASSUME ReferenceFits
    PROVE  reference \in [kind : {"none", "categorical", "numeric"}, marks : Seq(Int),
                          counts : Seq(Nat), n : Nat]
<1>1. CASE reference = NoReference
  BY <1>1 DEF NoReference
<1>2. CASE Shaped
  <2>1. reference.counts \in Seq(Nat) /\ Len(training) \in Nat
    BY <1>2, SampleIsPlaced
  <2> QED
    BY <1>2, <2>1 DEF Shaped
<1> QED
  BY <1>1, <1>2, ReferenceShape

\* So is what a report says.
LEMMA ReportType ==
    ASSUME ReferenceFits, MonitorFits, NEW r \in Readers
    PROVE  Compared(snapshot[r]) \in Reports
<1>1. snapshot[r].scores \in Seq(Live) /\ snapshot[r].total \in Nat
  BY DEF MonitorFits
<1>2. Len(snapshot[r].scores) \in Nat
  BY <1>1, LenProperties
<1>3. CASE reference.kind = "none" \/ Len(snapshot[r].scores) < MinSamples
  <2>1. \E status \in {"no_reference", "insufficient_data"} :
          Compared(snapshot[r]) = [status |-> status, observed |-> Len(snapshot[r].scores),
                                   totalSeen |-> snapshot[r].total, counts |-> << >>,
                                   unseen |-> 0]
    BY <1>3 DEF Compared, NoReport
  <2> QED
    BY <1>1, <1>2, <2>1 DEF Reports, Statuses
<1>4. CASE reference.kind # "none" /\ ~(Len(snapshot[r].scores) < MinSamples)
  <2>1. Shaped
    BY <1>4, ReferenceShape DEF NoReference
  <2>2. Observed(r) >= MinSamples
    BY <1>2, <1>4, DriftAssumption DEF Observed
  <2>3. Compared(snapshot[r]) =
          [status |-> Verdict(Tally(Spots(r), Places)), observed |-> Observed(r),
           totalSeen |-> snapshot[r].total, counts |-> Tally(Spots(r), Places),
           unseen |-> Cardinality({i \in DOMAIN Spots(r) : Spots(r)[i] = 0})]
    BY <2>1, <2>2, ComparedIs
  <2>4. /\ Observed(r) \in Nat
        /\ Spots(r) \in [1..Observed(r) -> 0..Places]
    BY <2>1, WindowIsPlaced
  <2>5. Places \in Nat
    BY <2>1 DEF Shaped
  <2>6. Tally(Spots(r), Places) \in Seq(Nat)
    BY <2>4, <2>5, TallyCounts
  <2>7. Cardinality({i \in DOMAIN Spots(r) : Spots(r)[i] = 0}) \in Nat
    <3>1. {i \in DOMAIN Spots(r) : Spots(r)[i] = 0} = At(Spots(r), Observed(r), {0})
      BY <2>4 DEF At
    <3> QED
      BY <2>4, <3>1, AtFinite
  <2>8. Verdict(Tally(Spots(r), Places)) \in Statuses
    BY VerdictType DEF Statuses
  <2> HIDE DEF Tally, Spots
  <2> QED
    BY <1>1, <2>3, <2>4, <2>6, <2>7, <2>8 DEF Reports
<1> QED
  BY <1>3, <1>4

\* Reference, window and reports are well typed, and the window never exceeds its bound,
\* for every sample and however many observations come.
THEOREM DriftTypeCorrect == Spec => []TypeOK
<1>1. DriftFits => TypeOK
  <2> SUFFICES ASSUME DriftFits PROVE TypeOK
    OBVIOUS
  <2>1. /\ training \in Samples
        /\ reference \in [kind : {"none", "categorical", "numeric"}, marks : Seq(Int),
                          counts : Seq(Nat), n : Nat]
    BY ReferenceType DEF DriftFits, ReferenceFits
  <2>2. /\ scores \in Seq(Live) /\ Len(scores) <= Window
        /\ totalSeen \in Nat
        /\ seen \in Seq(Live)
    <3>1. Len(seen) \in Nat
      BY LenProperties DEF DriftFits, WindowFits
    <3> QED
      BY <3>1, DriftAssumption DEF DriftFits, WindowFits, Newest
  <2>3. NoReport \in Reports
    BY DEF NoReport, Reports, Statuses
  <2>4. report \in [Readers -> Reports]
    <3>1. \A r \in Readers : report[r] \in Reports
      BY <2>3, ReportType DEF DriftFits, MonitorFits
    <3> QED
      BY <3>1 DEF DriftFits, MonitorFits
  <2> QED
    BY <2>1, <2>2, <2>4 DEF DriftFits, CopiesFit, MonitorFits, TypeOK
<1> QED
  BY <1>1, DriftInvariant, PTL

\* What is found at a place is what was put there.
LEMMA FoundIsAt ==
    ASSUME Shaped, MonitorFits, NEW r \in Readers, NEW b \in 1..Places
    PROVE  /\ Found(r, b) = {i \in DOMAIN Spots(r) : Spots(r)[i] = b}
           /\ Found(r, b) = At(Spots(r), Observed(r), {b})
<1>1. /\ DOMAIN snapshot[r].scores = 1..Observed(r)
      /\ DOMAIN Spots(r) = 1..Observed(r)
      /\ \A i \in 1..Observed(r) : snapshot[r].scores[i] \in Int
      /\ \A i \in 1..Observed(r) : Spots(r)[i] = Place(snapshot[r].scores[i])
  BY WindowIsPlaced DEF Spots
<1>2. \A i \in 1..Observed(r) : Spots(r)[i] = b <=> Belongs(snapshot[r].scores[i], b)
  BY <1>1, PlaceBelongs
<1>3. Found(r, b) = {i \in 1..Observed(r) : Spots(r)[i] = b}
  BY <1>1, <1>2 DEF Found
<1>4. At(Spots(r), Observed(r), {b}) = {i \in 1..Observed(r) : Spots(r)[i] = b}
  BY DEF At
<1> QED
  BY <1>1, <1>3, <1>4

\* What the counts of a verdict are.
LEMMA VerdictCounts ==
    ASSUME DriftFits, NEW r \in Readers, HasVerdict(r)
    PROVE  LET counts == report[r].counts
           IN  /\ DOMAIN counts = 1..Places
               /\ \A b \in 1..Places : counts[b] = Cardinality(Found(r, b))
               /\ \A b \in 1..Places : counts[b] \in Nat /\ counts[b] <= Total(counts)
               /\ Total(counts) \in Nat
               /\ Total(counts) + report[r].unseen = report[r].observed
               /\ report[r].unseen \in Nat
<1> DEFINE counts == report[r].counts
           spots == Spots(r)
           m == Observed(r)
<1>1. /\ Shaped
      /\ MonitorFits
      /\ m \in Nat
      /\ counts = Tally(spots, Places)
      /\ report[r].observed = m
      /\ report[r].unseen = Cardinality({i \in DOMAIN spots : spots[i] = 0})
  BY VerdictMeans DEF DriftFits
<1>2. spots \in [1..m -> 0..Places] /\ Places \in Nat
  BY <1>1, WindowIsPlaced DEF Shaped
<1>3. \A b \in 1..Places : Found(r, b) = {i \in DOMAIN spots : spots[i] = b}
  BY <1>1, FoundIsAt
<1> HIDE DEF counts, spots, m
<1>4. counts \in Seq(Nat) /\ DOMAIN counts = 1..Places
  BY <1>1, <1>2, TallyCounts
<1>5. \A b \in 1..Places : counts[b] = Cardinality(Found(r, b))
  BY <1>1, <1>3 DEF Tally
<1>6. \A b \in 1..Places : counts[b] \in Nat
  <2>1. DOMAIN counts = 1..Len(counts) /\ \A b \in 1..Len(counts) : counts[b] \in Nat
    BY <1>4, LenProperties, ElementOfSeq
  <2> QED
    BY <1>4, <2>1
<1>7. Total(counts) = Sum(counts, 1..Places)
  BY <1>4 DEF Total, FoldFunction, Sum
<1>8. IsFiniteSet(1..Places)
  BY <1>2, FS_Interval
<1>9. Total(counts) \in Nat /\ \A b \in 1..Places : counts[b] <= Total(counts)
  <2>1. Sum(counts, 1..Places) \in Nat /\ \A b \in 1..Places : Sum(counts, 1..Places) >= counts[b]
    BY <1>6, <1>8, SumAtLeast
  <2> QED
    BY <1>6, <1>7, <2>1
<1>10. Total(counts) + Cardinality({i \in DOMAIN spots : spots[i] = 0}) = m
  BY <1>1, <1>2, AllAreCounted
<1>11. report[r].unseen \in Nat
  <2>1. {i \in DOMAIN spots : spots[i] = 0} = At(spots, m, {0})
    BY <1>2 DEF At
  <2> QED
    BY <1>1, <2>1, AtFinite
<1> QED
  BY <1>1, <1>4, <1>5, <1>6, <1>9, <1>10, <1>11 DEF counts

\* Every observation of a verdict is counted where it belongs, those outside the
\* training range in the outermost bins and unknown classes apart, for every sample
\* and every window (drift.py:117-126, 200-215).
THEOREM ScoresAreCounted == Spec => []EveryScoreIsCounted
<1>1. DriftFits => EveryScoreIsCounted
  BY VerdictCounts DEF EveryScoreIsCounted
<1> QED
  BY <1>1, DriftInvariant, PTL

\* A bin, or class, that has its proportion adds nothing.
LEMMA TermOfProportion ==
    ASSUME NEW e \in Nat \ {0}, NEW n \in Nat \ {0}, NEW c \in Nat, NEW t \in Nat \ {0},
           c * n = e * t, e * t \in DOMAIN Ln
    PROVE  Term(e, n, c, t) = 0
<1>1. e * t # 0
  OBVIOUS
<1>2. c # 0
  BY <1>1
<1>3. Ln[e * t] \in Int
  BY LenProperties, ElementOfSeq, DriftAssumption
<1>4. Term(e, n, c, t) = (c * n - e * t) * (Ln[c * n] - Ln[e * t])
  BY <1>2 DEF Term
<1>5. c * n - e * t = 0 /\ Ln[c * n] - Ln[e * t] = 0
  BY <1>3
<1> QED
  BY <1>4, <1>5

\* What the table is looked up for, it has.
LEMMA TableCovers ==
    ASSUME NEW sample \in Samples, NEW n, n = Len(sample), n # 0,
           NEW e \in 1..n, NEW t \in 1..Window, NEW c \in 0..t
    PROVE  /\ n \in Nat \ {0}
           /\ n \in DOMAIN Ln /\ e \in DOMAIN Ln /\ e * t \in DOMAIN Ln
           /\ c # 0 => c * n \in DOMAIN Ln
           /\ \A i \in DOMAIN Ln : Ln[i] \in Nat
<1>1. /\ n \in Nat \ {0}
      /\ Window \in Nat \ {0}
      /\ Window * n <= Len(Ln)
  BY LenProperties, DriftAssumption, LogarithmAssumption
<1>2. /\ DOMAIN Ln = 1..Len(Ln)
      /\ Len(Ln) \in Nat
      /\ \A i \in DOMAIN Ln : Ln[i] \in Nat
  BY LenProperties, ElementOfSeq, DriftAssumption
<1>3. n <= Window * n
  BY <1>1
<1>4. 1 <= e * t /\ e * t <= Window * n
  <2>1. e * t <= n * t /\ n * t <= n * Window /\ 1 <= e * t
    BY <1>1
  <2>2. n * Window = Window * n /\ e * t \in Int /\ n * t \in Int /\ n * Window \in Int
    BY <1>1
  <2> QED
    BY <2>1, <2>2
<1>5. c # 0 => 1 <= c * n /\ c * n <= Window * n
  <2> SUFFICES ASSUME c # 0 PROVE 1 <= c * n /\ c * n <= Window * n
    OBVIOUS
  <2>1. c \in 1..Window
    BY <1>1
  <2> QED
    BY <1>1, <2>1
<1>6. e \in 1..(Window * n) /\ Window * n \in Int /\ e * t \in Int /\ c * n \in Int
  BY <1>1, <1>3
<1> QED
  BY <1>1, <1>2, <1>3, <1>4, <1>5, <1>6

\* No term is negative.
LEMMA TermIsNatural ==
    ASSUME NEW sample \in Samples, NEW n, n = Len(sample), n # 0,
           NEW e \in 1..n, NEW t \in 1..Window, NEW c \in 0..t
    PROVE  Term(e, n, c, t) \in Nat
<1>1. /\ n \in Nat \ {0}
      /\ n \in DOMAIN Ln /\ e \in DOMAIN Ln /\ e * t \in DOMAIN Ln
      /\ c # 0 => c * n \in DOMAIN Ln
      /\ \A i \in DOMAIN Ln : Ln[i] \in Nat
  BY TableCovers
<1>2. CASE c = 0
  <2>1. Ln[n] <= 13816
    <3>1. sample # << >>
      BY <1>1
    <3> QED
      BY <3>1, LogarithmAssumption DEF LnEpsilon
  <2>2. Ln[e] - Ln[n] - LnEpsilon \in Nat
    BY <1>1, <2>1 DEF LnEpsilon
  <2>3. e * t \in Nat
    BY <1>1, DriftAssumption
  <2>4. \A x, y \in Nat : x * y \in Nat
    OBVIOUS
  <2> QED
    BY <1>2, <2>2, <2>3, <2>4 DEF Term
<1>3. CASE c # 0
  <2> DEFINE a == c * n
             b == e * t
  <2>1. /\ a \in Int /\ b \in Int
        /\ a \in DOMAIN Ln /\ b \in DOMAIN Ln
        /\ Ln[a] \in Nat /\ Ln[b] \in Nat
    BY <1>1, <1>3, DriftAssumption
  <2>2. Term(e, n, c, t) = (a - b) * (Ln[a] - Ln[b])
    BY <1>3 DEF Term
  <2> HIDE DEF a, b
  <2>3. /\ a <= b => Ln[a] <= Ln[b]
        /\ b <= a => Ln[b] <= Ln[a]
    BY <2>1, LogarithmAssumption
  <2>4. \A x, y \in Int : (x >= 0 /\ y >= 0) \/ (x <= 0 /\ y <= 0) => x * y \in Nat
    OBVIOUS
  <2>5. /\ a - b \in Int /\ Ln[a] - Ln[b] \in Int
        /\ \/ a - b >= 0 /\ Ln[a] - Ln[b] >= 0
           \/ a - b <= 0 /\ Ln[a] - Ln[b] <= 0
    BY <2>1, <2>3
  <2> QED
    BY <2>2, <2>4, <2>5
<1> QED
  BY <1>2, <1>3

\* A twentieth of the sample that is missing is above the threshold alone.
LEMMA TermOfVanished ==
    ASSUME NEW sample \in Samples, NEW n, n = Len(sample), n # 0,
           NEW e \in 1..n, NEW t \in 1..Window, 20 * e >= n
    PROVE  Term(e, n, 0, t) >= 250 * t * n
<1>1. /\ n \in Nat \ {0}
      /\ n \in DOMAIN Ln /\ e \in DOMAIN Ln
      /\ \A i \in DOMAIN Ln : Ln[i] \in Nat
  <2>1. 0 \in 0..t
    BY DriftAssumption
  <2> QED
    BY <2>1, TableCovers
<1>2. Ln[n] <= Ln[e] + 3000
  <2>1. n <= 20 * e
    BY <1>1
  <2> QED
    BY <1>1, <2>1, LogarithmAssumption
<1> DEFINE factor == Ln[e] - Ln[n] - LnEpsilon
<1>3. factor \in Int /\ factor >= 10816
  <2>1. Ln[n] \in Int /\ Ln[e] \in Int
    BY <1>1
  <2> QED
    BY <1>2, <2>1 DEF LnEpsilon
<1>4. Term(e, n, 0, t) = e * t * factor
  BY DEF Term
<1> HIDE DEF factor
<1>5. e \in Nat /\ t \in Nat /\ n \in Nat
  BY <1>1, DriftAssumption
<1>6. e * t * factor >= e * t * 10816
  <2>1. \A x \in Nat, y \in Int : y >= 10816 => x * y >= x * 10816
    OBVIOUS
  <2>2. e * t \in Nat
    BY <1>5
  <2> QED
    BY <1>3, <2>1, <2>2
<1>7. n * t <= 20 * e * t
  <2>1. \A x, y, z \in Nat : x <= y => x * z <= y * z
    OBVIOUS
  <2>2. 20 * e \in Nat /\ n <= 20 * e
    BY <1>5
  <2> QED
    BY <1>5, <2>1, <2>2
<1> DEFINE p == e * t
           q == n * t
<1>8. p \in Nat /\ q \in Nat /\ q <= 20 * p /\ 250 * t * n = 250 * q
  BY <1>5, <1>7
<1> HIDE DEF p, q
<1>9. p * 10816 >= 250 * q
  BY <1>8
<1>10. p * factor \in Int /\ p * factor >= p * 10816
  <2>1. p * factor \in Int
    BY <1>3, <1>8
  <2> QED
    BY <1>6, <2>1 DEF p
<1> QED
  BY <1>4, <1>8, <1>9, <1>10 DEF p

\* The terms of a verdict, and the total they are compared with.
Terms(r) == [b \in DOMAIN report[r].counts |->
               Term(reference.counts[b], reference.n, report[r].counts[b],
                    Total(report[r].counts))]

\* The index is the sum of its terms.
LEMMA ReachesIs ==
    ASSUME DriftFits, NEW r \in Readers, HasVerdict(r), NEW threshold
    PROVE  LET total == Total(report[r].counts)
           IN  Reaches(report[r].counts, threshold) <=>
                 total # 0 /\ Sum(Terms(r), 1..Places) >= threshold * total * reference.n
<1>1. DOMAIN Terms(r) = 1..Places
  BY VerdictCounts DEF Terms
<1>2. Total(Terms(r)) = Sum(Terms(r), 1..Places)
  BY <1>1 DEF Total, FoldFunction, Sum
<1> QED
  BY <1>2 DEF Reaches, Terms

\* What the terms are made of.
LEMMA TermsFit ==
    ASSUME DriftFits, NEW r \in Readers, HasVerdict(r), Total(report[r].counts) # 0
    PROVE  /\ training \in Samples
           /\ reference.n = Len(training) /\ reference.n # 0
           /\ reference.n \in Nat
           /\ Total(report[r].counts) \in 1..Window
           /\ \A b \in 1..Places : /\ reference.counts[b] \in 1..reference.n
                                   /\ report[r].counts[b] \in 0..Total(report[r].counts)
                                   /\ Terms(r)[b] \in Nat
<1> DEFINE total == Total(report[r].counts)
           n == reference.n
<1>1. /\ Shaped
      /\ Observed(r) \in 1..Window
      /\ report[r].observed = Observed(r)
  BY VerdictMeans
<1>2. training \in Samples
  BY DEF DriftFits, ReferenceFits
<1>3. /\ DOMAIN report[r].counts = 1..Places
      /\ \A b \in 1..Places : report[r].counts[b] \in Nat /\ report[r].counts[b] <= total
      /\ total \in Nat
      /\ total + report[r].unseen = report[r].observed
      /\ report[r].unseen \in Nat
  BY VerdictCounts
<1>4. total \in 1..Window
  BY <1>1, <1>3, DriftAssumption
<1>5. /\ n = Len(training)
      /\ n \in Nat \ {0}
      /\ reference.counts \in Seq(Nat)
      /\ DOMAIN reference.counts = 1..Places
      /\ Total(reference.counts) = n
  BY <1>1, SampleIsPlaced DEF Shaped
<1>6. \A b \in 1..Places : reference.counts[b] \in 1..n
  <2>1. \A b \in 1..Places : reference.counts[b] \in Nat /\ reference.counts[b] > 0
    <3>1. DOMAIN reference.counts = 1..Len(reference.counts)
          /\ \A b \in 1..Len(reference.counts) : reference.counts[b] \in Nat
      BY <1>5, LenProperties, ElementOfSeq
    <3>2. \A b \in DOMAIN reference.counts : reference.counts[b] > 0
      BY <1>1, ShapedIsFilled DEF BinsAreFilled
    <3> QED
      BY <1>5, <3>1, <3>2
  <2>2. Total(reference.counts) = Sum(reference.counts, 1..Places)
    BY <1>5 DEF Total, FoldFunction, Sum
  <2>3. IsFiniteSet(1..Places)
    <3>1. Places \in Int
      BY <1>1 DEF Shaped
    <3> QED
      BY <3>1, FS_Interval
  <2>4. \A b \in 1..Places : Sum(reference.counts, 1..Places) >= reference.counts[b]
    BY <2>1, <2>3, SumAtLeast
  <2> QED
    BY <1>5, <2>1, <2>2, <2>4
<1>7. \A b \in 1..Places : report[r].counts[b] \in 0..total
  BY <1>3
<1> HIDE DEF total, n
<1>8. \A b \in 1..Places : Term(reference.counts[b], n, report[r].counts[b], total) \in Nat
  BY <1>2, <1>4, <1>5, <1>6, <1>7, TermIsNatural
<1>9. \A b \in 1..Places : Terms(r)[b] \in Nat
  BY <1>3, <1>8 DEF Terms, total, n
<1> QED
  BY <1>2, <1>4, <1>5, <1>6, <1>7, <1>9 DEF total, n

\* The window has every value in the proportion it has in the sample.
OwnMix(r) ==
    \A x \in Range(snapshot[r].scores) \cup Range(training) :
        Occurrences(x, snapshot[r].scores) * Len(training)
          = Occurrences(x, training) * Len(snapshot[r].scores)

\* Then every value of the window is one of the sample.
LEMMA OwnMixIsKnown ==
    ASSUME Shaped, MonitorFits, NEW r \in Readers, OwnMix(r)
    PROVE  Range(snapshot[r].scores) \subseteq Range(training)
<1> DEFINE window == snapshot[r].scores
           n == Len(training)
           m == Len(window)
<1>1. window \in Seq(Int) /\ training \in Seq(Int) /\ training # << >>
  BY WindowIsPlaced DEF Shaped
<1> HIDE DEF window
<1>2. /\ n \in Nat \ {0} /\ DOMAIN training = 1..n
      /\ m \in Nat /\ DOMAIN window = 1..m
  BY <1>1, ValuesFinite, EmptySeq
<1> SUFFICES ASSUME NEW x \in Range(window), x \notin Range(training) PROVE FALSE
  BY DEF window
<1> DEFINE here == {i \in DOMAIN window : window[i] = x}
           there == {i \in DOMAIN training : training[i] = x}
<1>3. Cardinality(here) * n = Cardinality(there) * m
  BY DEF OwnMix, Occurrences, window
<1>4. there = {}
  BY DEF Range
<1>5. here # {}
  BY DEF Range
<1>6. IsFiniteSet(here)
  <2>1. here \in SUBSET (1..m) /\ IsFiniteSet(1..m)
    BY <1>2, FS_Interval
  <2> HIDE DEF here
  <2> QED
    BY <2>1, FS_Subset
<1> HIDE DEF here, there, n, m
<1>7. Cardinality(there) = 0 /\ Cardinality(here) \in Nat \ {0}
  BY <1>4, <1>5, <1>6, FS_EmptySet, FS_CardinalityType
<1>8. \A j, k \in Nat \ {0} : j * k # 0
  OBVIOUS
<1>9. Cardinality(there) * m = 0
  BY <1>2, <1>7
<1> QED
  BY <1>2, <1>3, <1>7, <1>8, <1>9

\* So every bin, or class, has its proportion.
LEMMA OwnMixInProportion ==
    ASSUME DriftFits, NEW r \in Readers, HasVerdict(r), OwnMix(r), NEW b \in 1..Places
    PROVE  report[r].counts[b] * reference.n = reference.counts[b] * Observed(r)
<1> DEFINE window == snapshot[r].scores
           n == Len(training)
           m == Observed(r)
           Values == {x \in Range(window) \cup Range(training) : Place(x) = b}
<1>1. Shaped /\ MonitorFits
  BY VerdictMeans DEF DriftFits
<1>2. /\ window \in Seq(Int) /\ training \in Seq(Int)
      /\ m = Len(window)
      /\ reference.n = n
  BY <1>1, WindowIsPlaced DEF Shaped, Observed
<1>3. /\ DOMAIN window = 1..m /\ m \in Nat
      /\ DOMAIN training = 1..n /\ n \in Nat
      /\ IsFiniteSet(Range(window)) /\ IsFiniteSet(Range(training))
      /\ \A i \in 1..m : window[i] \in Range(window)
      /\ \A i \in 1..n : training[i] \in Range(training)
  BY <1>2, ValuesFinite
<1>4. At(window, m, Values) = Found(r, b)
  <2>1. Found(r, b) = {i \in DOMAIN Spots(r) : Spots(r)[i] = b}
    BY <1>1, FoundIsAt
  <2>2. Found(r, b) = {i \in 1..m : Place(window[i]) = b}
    BY <1>3, <2>1 DEF Spots
  <2> QED
    BY <1>3, <2>2 DEF At
<1>5. At(training, n, Values) = At([i \in DOMAIN training |-> Place(training[i])], n, {b})
  BY <1>3 DEF At
<1>6. IsFiniteSet(Values)
  <2>1. IsFiniteSet(Range(window) \cup Range(training))
    BY <1>3, FS_Union
  <2> QED
    BY <2>1, FS_Subset
<1>7. ASSUME NEW x \in Values
      PROVE  Cardinality(At(window, m, {x})) * n = Cardinality(At(training, n, {x})) * m
  <2>1. /\ At(window, m, {x}) = {i \in DOMAIN window : window[i] = x}
        /\ At(training, n, {x}) = {i \in DOMAIN training : training[i] = x}
    BY <1>3 DEF At
  <2>2. x \in Range(snapshot[r].scores) \cup Range(training)
    OBVIOUS
  <2>3. Occurrences(x, window) * n = Occurrences(x, training) * m
    BY <1>2, <2>2 DEF OwnMix
  <2> QED
    BY <2>1, <2>3 DEF Occurrences
<1> HIDE DEF window, n, m, Values
<1>8. Cardinality(At(window, m, Values)) * n = Cardinality(At(training, n, Values)) * m
  <2>1. m \in Nat /\ n \in Nat
    BY <1>3
  <2>2. \A x \in Values : Count(window, m, x) * n = Count(training, n, x) * m
    BY <1>7 DEF Count
  <2> QED
    BY <1>6, <2>1, <2>2, AtInProportion
<1>9. report[r].counts[b] = Cardinality(Found(r, b))
  BY VerdictCounts
<1>10. reference.counts[b] = Cardinality(At(training, n, Values))
  BY <1>1, <1>5, SampleIsPlaced DEF n
<1> QED
  BY <1>2, <1>4, <1>8, <1>9, <1>10 DEF m

\* A window that has the mix of the sample is stable, whatever the sample and however
\* its scores were binned (drift.py:85-113, 196-223).
THEOREM OwnMixStable == Spec => []OwnMixIsStable
<1>1. ASSUME DriftFits, NEW r \in Readers, HasVerdict(r), OwnMix(r)
      PROVE  report[r].status = "stable"
  <2> DEFINE counts == report[r].counts
             total == Total(counts)
             n == reference.n
  <2>1. /\ Shaped /\ MonitorFits
        /\ Observed(r) \in 1..Window
        /\ report[r].status = Verdict(counts)
        /\ report[r].observed = Observed(r)
        /\ report[r].unseen = Cardinality({i \in DOMAIN Spots(r) : Spots(r)[i] = 0})
    BY <1>1, VerdictMeans DEF DriftFits
  <2>2. report[r].unseen = 0
    <3>1. Range(snapshot[r].scores) \subseteq Range(training)
      BY <1>1, <2>1, OwnMixIsKnown
    <3>2. /\ DOMAIN snapshot[r].scores = 1..Observed(r)
          /\ \A i \in 1..Observed(r) : snapshot[r].scores[i] \in Int
      BY <1>1, <2>1, WindowIsPlaced
    <3>3. \A i \in 1..Observed(r) : Place(snapshot[r].scores[i]) # 0
      BY <2>1, <3>1, <3>2, PlaceBelongs DEF Range
    <3>4. {i \in DOMAIN Spots(r) : Spots(r)[i] = 0} = {}
      BY <3>2, <3>3 DEF Spots
    <3> QED
      BY <2>1, <3>4, FS_EmptySet
  <2>3. total \in Nat /\ total + report[r].unseen = report[r].observed
    BY <1>1, VerdictCounts
  <2>4. total = Observed(r) /\ total # 0 /\ total \in Nat \ {0}
    BY <2>1, <2>2, <2>3
  <2>5. /\ training \in Samples
        /\ n = Len(training) /\ n # 0 /\ n \in Nat
        /\ total \in 1..Window
        /\ \A b \in 1..Places : reference.counts[b] \in 1..n /\ counts[b] \in 0..total
    BY <1>1, <2>4, TermsFit
  <2>6. \A b \in 1..Places : counts[b] * n = reference.counts[b] * total
    BY <1>1, <2>4, OwnMixInProportion
  <2>7. DOMAIN counts = 1..Places
    BY <1>1, VerdictCounts
  <2> HIDE DEF total, n, counts
  <2>8. ASSUME NEW b \in 1..Places
        PROVE  Term(reference.counts[b], n, counts[b], total) = 0
    <3> DEFINE e == reference.counts[b]
               c == counts[b]
    <3>1. e \in 1..n /\ c \in 0..total /\ c * n = e * total
      BY <2>5, <2>6
    <3> HIDE DEF e, c
    <3>2. e * total \in DOMAIN Ln
      BY <2>5, <3>1, TableCovers
    <3>3. e \in Nat \ {0} /\ n \in Nat \ {0} /\ c \in Nat /\ total \in Nat \ {0}
      BY <2>4, <2>5, <3>1
    <3>4. Term(e, n, c, total) = 0
      BY <3>1, <3>2, <3>3, TermOfProportion
    <3> QED
      BY <3>4 DEF e, c
  <2>9. \A b \in 1..Places : Terms(r)[b] = 0
    BY <2>7, <2>8 DEF Terms, counts, total, n
  <2>10. IsFiniteSet(1..Places)
    <3>1. Places \in Int
      BY <2>1 DEF Shaped
    <3> QED
      BY <3>1, FS_Interval
  <2>11. Sum(Terms(r), 1..Places) = 0
    BY <2>9, <2>10, SumOfZeros
  <2>12. ASSUME NEW threshold \in Nat \ {0} PROVE ~Reaches(counts, threshold)
    <3>1. Reaches(counts, threshold) => 0 >= threshold * total * n
      BY <1>1, <2>11, ReachesIs DEF counts, total, n
    <3>2. \A j, k \in Nat \ {0} : j * k \in Nat \ {0}
      OBVIOUS
    <3>3. threshold * total \in Nat \ {0}
      BY <2>4, <3>2
    <3>4. threshold * total * n \in Nat \ {0}
      <4>1. n \in Nat \ {0}
        BY <2>5
      <4> QED
        BY <3>2, <3>3, <4>1
    <3> QED
      BY <3>1, <3>4
  <2>13. ~Reaches(counts, 250) /\ ~Reaches(counts, 100)
    BY <2>12
  <2> QED
    BY <2>1, <2>13 DEF Verdict
<1>2. DriftFits => OwnMixIsStable
  BY <1>1 DEF OwnMixIsStable, OwnMix
<1> QED
  BY <1>2, DriftInvariant, PTL

\* When one in twenty of the sample has nothing in the window, the shift is significant,
\* whatever the other bins do to the index (drift.py:129-139, 217-223).
THEOREM VanishedSignificant == Spec => []VanishedIsSignificant
<1>1. ASSUME DriftFits, NEW r \in Readers, HasVerdict(r),
             report[r].unseen < report[r].observed,
             NEW b \in DOMAIN reference.counts,
             20 * reference.counts[b] >= reference.n, Found(r, b) = {}
      PROVE  report[r].status = "significant_shift"
  <2> DEFINE counts == report[r].counts
             total == Total(counts)
             n == reference.n
  <2>1. Shaped /\ report[r].status = Verdict(counts)
    BY <1>1, VerdictMeans
  <2>2. b \in 1..Places
    BY <2>1, SampleIsPlaced
  <2>3. /\ DOMAIN counts = 1..Places
        /\ total \in Nat
        /\ total + report[r].unseen = report[r].observed
        /\ counts[b] = Cardinality(Found(r, b))
        /\ report[r].unseen \in Nat
    BY <1>1, <2>2, VerdictCounts
  <2>4. total # 0
    BY <1>1, <2>3
  <2>5. counts[b] = 0
    BY <1>1, <2>3, FS_EmptySet
  <2>6. /\ training \in Samples
        /\ n = Len(training) /\ n # 0 /\ n \in Nat
        /\ total \in 1..Window
        /\ \A a \in 1..Places : reference.counts[a] \in 1..n /\ Terms(r)[a] \in Nat
    BY <1>1, <2>4, TermsFit
  <2>7. Terms(r)[b] >= 250 * total * n
    <3> DEFINE e == reference.counts[b]
    <3>1. Terms(r)[b] = Term(e, n, 0, total)
      BY <2>2, <2>3, <2>5 DEF Terms
    <3>2. e \in 1..n /\ 20 * e >= n
      BY <1>1, <2>2, <2>6
    <3> HIDE DEF e, n, total
    <3> QED
      BY <2>6, <3>1, <3>2, TermOfVanished
  <2>8. IsFiniteSet(1..Places)
    <3>1. Places \in Int
      BY <2>1 DEF Shaped
    <3> QED
      BY <3>1, FS_Interval
  <2>9. Sum(Terms(r), 1..Places) \in Nat /\ Sum(Terms(r), 1..Places) >= Terms(r)[b]
    BY <2>2, <2>6, <2>8, SumAtLeast
  <2>10. Sum(Terms(r), 1..Places) >= 250 * total * n
    <3>1. 250 * total * n \in Int /\ Terms(r)[b] \in Int
      BY <2>2, <2>3, <2>6
    <3> QED
      BY <2>7, <2>9, <3>1
  <2>11. Reaches(counts, 250)
    BY <1>1, <2>4, <2>10, ReachesIs
  <2> QED
    BY <2>1, <2>11 DEF Verdict
<1>2. DriftFits => VanishedIsSignificant
  BY <1>1 DEF VanishedIsSignificant
<1> QED
  BY <1>2, DriftInvariant, PTL
=============================================================================
