------------------------------- MODULE Drift -------------------------------
(***************************************************************************)
(* The drift monitor (src/monitoring/drift.py): a reference built from a    *)
(* training sample, a bounded window of what was observed since, and a      *)
(* report that compares the two by their population stability index.        *)
(*                                                                         *)
(* Scores and class names are integers.  A monitor has one lock: observe    *)
(* runs under it, report takes a copy of the window under it and works on   *)
(* the copy.  Logarithms are a table in thousandths.                        *)
(***************************************************************************)
EXTENDS Integers, SequencesExt

CONSTANTS
    Readers,     \* threads that ask for a report
    Live,        \* scores, or classes, that requests bring
    Samples,     \* training samples
    Bins,        \* bins asked for, 10
    Window,      \* 500
    MinSamples,  \* 50
    Ln           \* Ln[n]: the logarithm of n, in thousandths

CONSTANTS        \* bounds of the model, not of the program
    MaxSeen,     \* observations in one life of the process
    MaxRestarts  \* restarts of the process

ASSUME DriftAssumption ==
    /\ Live \subseteq Int
    /\ Samples \subseteq Seq(Int)
    /\ Bins \in Nat \ {0}
    /\ Window \in Nat \ {0}
    /\ MinSamples \in 1..Window
    /\ Ln \in Seq(Nat)
    /\ MaxSeen \in Nat
    /\ MaxRestarts \in Nat

VARIABLES
    training,   \* the sample the training run had
    reference,  \* what it saved
    scores,     \* _scores
    totalSeen,  \* _total_seen
    pc,         \* where each reader stands
    snapshot,   \* its copy of the window, and of the total
    report,     \* its last report
    seen,       \* history: everything observed in this life of the process
    restarts    \* restarts so far

vars == <<training, reference, scores, totalSeen, pc, snapshot, report, seen, restarts>>

LnEpsilon == -13816  \* of EPSILON, 1e-6

\* The table covers what a full window makes of it, it rises, by no more than 3000
\* for twenty times as much, and a share of any sample is above EPSILON.
ASSUME LogarithmAssumption ==
    /\ \A sample \in Samples : Window * Len(sample) <= Len(Ln)
    /\ \A a, b \in DOMAIN Ln : a <= b => Ln[a] <= Ln[b]
    /\ \A a, b \in DOMAIN Ln : a <= 20 * b => Ln[a] <= Ln[b] + 3000
    /\ \A sample \in Samples : sample # << >> => Ln[Len(sample)] <= -LnEpsilon

NoReference == [kind |-> "none", marks |-> << >>, counts |-> << >>, n |-> 0]
NoReport == [status |-> "none", observed |-> 0, totalSeen |-> 0, counts |-> << >>, unseen |-> 0]

\* counts[b]: how many places are b.
Tally(places, size) ==
    [b \in 1..size |-> Cardinality({i \in DOMAIN places : places[i] = b})]

Total(counts) == FoldFunction(+, 0, counts)
-----------------------------------------------------------------------------
(* The reference.                                                          *)

\* Mutant: a score on an edge belongs to the bin below.
BinIndexBelow(score, edges) ==
    Max({1} \cup {i \in 1..(Len(edges) - 1) : score > edges[i]})

\* The last bin that starts at or below the score; a lower score is in the first.
BinIndex(score, edges) ==
    Max({1} \cup {i \in 1..(Len(edges) - 1) : score >= edges[i]})

\* The position of a class, 0 for one that is not there.
ClassIndex(class, classes) ==
    IF class \in Range(classes) THEN CHOOSE i \in DOMAIN classes : classes[i] = class ELSE 0

\* The elements of S in ascending order.
Ascending(S) ==
    [k \in 1..Cardinality(S) |->
       CHOOSE x \in S : Cardinality({y \in S : y > x}) = Cardinality(S) - k]

\* Mutant: the proportions are in the order in which the classes came up.
CategoricalUnsorted(labels) ==
    LET classes == Ascending(Range(labels))
        places == [i \in DOMAIN labels |-> ClassIndex(labels[i], classes)]
        counts == Tally(places, Len(classes))
        firsts == Ascending({SelectInSeq(labels, LAMBDA l : l = c) : c \in Range(labels)})
    IN  [kind |-> "categorical", marks |-> classes, n |-> Len(labels),
         counts |-> [b \in DOMAIN counts |-> counts[places[firsts[b]]]]]

\* build_categorical_reference
CategoricalReference(labels) ==
    LET classes == Ascending(Range(labels))
        places == [i \in DOMAIN labels |-> ClassIndex(labels[i], classes)]
    IN  [kind |-> "categorical", marks |-> classes, n |-> Len(labels),
         counts |-> Tally(places, Len(classes))]

\* The lowest score, the one at each quantile, and the highest: v is at a place of the
\* sorted sample when fewer scores are below it and that many are not above it.
Quantiles(sample) ==
    LET place(k) == IF k > Bins THEN Len(sample) ELSE (Len(sample) * (k - 1)) \div Bins + 1
        below(v) == {i \in DOMAIN sample : sample[i] < v}
        upto(v) == {i \in DOMAIN sample : sample[i] <= v}
    IN  [k \in 1..(Bins + 1) |->
           CHOOSE v \in Range(sample) : /\ Cardinality(below(v)) < place(k)
                                        /\ place(k) <= Cardinality(upto(v))]

\* Mutant: repeated edges stay.
TiedEdges(sample) == Quantiles(sample)

Edges(sample) == Ascending(Range(Quantiles(sample)))

\* build_reference
NumericReference(sample) ==
    LET edges == Edges(sample)
        places == [i \in DOMAIN sample |-> BinIndex(sample[i], edges)]
    IN  [kind |-> "numeric", marks |-> edges, n |-> Len(sample),
         counts |-> Tally(places, Len(edges) - 1)]

\* ValueError for a sample without anything in it; IndexError when all scores are
\* equal, which makes one edge and no bin to count them in.
BuildRaises(kind, sample) ==
    sample = << >> \/ (kind = "numeric" /\ Cardinality(Range(sample)) = 1)

\* A training run that fails saves no reference, and the service starts without.
Build(kind, sample) ==
    IF kind = "none" \/ BuildRaises(kind, sample) THEN NoReference
    ELSE IF kind = "categorical" THEN CategoricalReference(sample)
    ELSE NumericReference(sample)

Init ==
    /\ training \in Samples
    /\ \E kind \in {"none", "categorical", "numeric"} : reference = Build(kind, training)
    /\ scores = << >>
    /\ totalSeen = 0
    /\ pc = [r \in Readers |-> "idle"]
    /\ snapshot = [r \in Readers |-> [scores |-> << >>, total |-> 0]]
    /\ report = [r \in Readers |-> NoReport]
    /\ seen = << >>
    /\ restarts = 0
-----------------------------------------------------------------------------
(* The monitor.                                                            *)

\* Mutant: a deque without maxlen.
ObserveUnbounded(score) ==
    /\ Len(seen) < MaxSeen
    /\ scores' = Append(scores, score)
    /\ totalSeen' = totalSeen + 1
    /\ seen' = Append(seen, score)
    /\ UNCHANGED <<training, reference, pc, snapshot, report, restarts>>

\* observe: a full window drops its oldest score.
Observe(score) ==
    /\ Len(seen) < MaxSeen
    /\ scores' = Append(IF Len(scores) < Window THEN scores ELSE Tail(scores), score)
    /\ totalSeen' = totalSeen + 1
    /\ seen' = Append(seen, score)
    /\ UNCHANGED <<training, reference, pc, snapshot, report, restarts>>

\* report, under the lock
Snapshot(r) ==
    /\ pc[r] = "idle"
    /\ pc' = [pc EXCEPT ![r] = "compare"]
    /\ snapshot' = [snapshot EXCEPT ![r] = [scores |-> scores, total |-> totalSeen]]
    /\ report' = [report EXCEPT ![r] = NoReport]
    /\ UNCHANGED <<training, reference, scores, totalSeen, seen, restarts>>

Place(score) ==
    IF reference.kind = "categorical" THEN ClassIndex(score, reference.marks)
                                      ELSE BinIndex(score, reference.marks)

\* Mutant: an empty bin adds nothing.
TermIfAny(expected, n, count, total) ==
    IF count = 0 THEN 0
    ELSE (count * n - expected * total) * (Ln[count * n] - Ln[expected * total])

\* (a - e) * ln(a / e) for a = count / total and e = expected / n, in thousandths
\* and times total * n.  EPSILON stands in for an a of zero; no e is zero.
Term(expected, n, count, total) ==
    IF count = 0 THEN expected * total * (Ln[expected] - Ln[n] - LnEpsilon)
    ELSE (count * n - expected * total) * (Ln[count * n] - Ln[expected * total])

\* population_stability_index against a threshold, in thousandths
Reaches(counts, threshold) ==
    LET total == Total(counts)
        terms == [b \in DOMAIN counts |->
                    Term(reference.counts[b], reference.n, counts[b], total)]
    IN  total # 0 /\ Total(terms) >= threshold * total * reference.n

Verdict(counts) ==
    CASE Reaches(counts, 250) -> "significant_shift"
      [] ~Reaches(counts, 250) /\ Reaches(counts, 100) -> "moderate_shift"
      [] OTHER -> "stable"

\* What report returns for a copy of the window.
Compared(copy) ==
    LET places == [i \in DOMAIN copy.scores |-> Place(copy.scores[i])]
        counts == Tally(places, Len(reference.counts))
        brief(status) == [NoReport EXCEPT !.status = status, !.observed = Len(copy.scores),
                                          !.totalSeen = copy.total]
    IN  CASE reference.kind = "none" -> brief("no_reference")
          [] reference.kind # "none" /\ Len(copy.scores) < MinSamples ->
               brief("insufficient_data")
          [] OTHER ->
               [brief(Verdict(counts)) EXCEPT !.counts = counts,
                  !.unseen = Cardinality({i \in DOMAIN places : places[i] = 0})]

\* Mutant: the total is read after the lock was left.
CompareLate(r) ==
    /\ pc[r] = "compare"
    /\ pc' = [pc EXCEPT ![r] = "idle"]
    /\ report' = [report EXCEPT ![r] =
                    [Compared(snapshot[r]) EXCEPT !.totalSeen = totalSeen]]
    /\ UNCHANGED <<training, reference, scores, totalSeen, snapshot, seen, restarts>>

\* report, after the lock
Compare(r) ==
    /\ pc[r] = "compare"
    /\ pc' = [pc EXCEPT ![r] = "idle"]
    /\ report' = [report EXCEPT ![r] = Compared(snapshot[r])]
    /\ UNCHANGED <<training, reference, scores, totalSeen, snapshot, seen, restarts>>

\* The process restarts, with the reference and without the window.
Restart ==
    /\ restarts < MaxRestarts
    /\ restarts' = restarts + 1
    /\ scores' = << >>
    /\ totalSeen' = 0
    /\ pc' = [r \in Readers |-> "idle"]
    /\ snapshot' = [r \in Readers |-> [scores |-> << >>, total |-> 0]]
    /\ report' = [r \in Readers |-> NoReport]
    /\ seen' = << >>
    /\ UNCHANGED <<training, reference>>

Next ==
    \/ \E score \in Live : Observe(score)
    \/ \E r \in Readers : Snapshot(r) \/ Compare(r)
    \/ Restart

Spec == Init /\ [][Next]_vars
-----------------------------------------------------------------------------
Statuses == {"none", "no_reference", "insufficient_data", "stable", "moderate_shift",
             "significant_shift"}
Reports  == [status : Statuses, observed : Nat, totalSeen : Nat, counts : Seq(Nat), unseen : Nat]

TypeOK ==
    /\ training \in Samples
    /\ reference \in [kind : {"none", "categorical", "numeric"}, marks : Seq(Int),
                      counts : Seq(Nat), n : Nat]
    /\ scores \in Seq(Live) /\ Len(scores) <= Window
    /\ totalSeen \in Nat
    /\ pc \in [Readers -> {"idle", "compare"}]
    /\ snapshot \in [Readers -> [scores : Seq(Live), total : Nat]]
    /\ report \in [Readers -> Reports]
    /\ seen \in Seq(Live)
    /\ restarts \in Nat
-----------------------------------------------------------------------------
(***************************************************************************)
(* A report speaks of one moment: the number of observations it names, and  *)
(* the newest of them that the window holds.  From MinSamples observations  *)
(* on it never lacks data again, although the window forgets (drift.py:     *)
(* 175-194).                                                                *)
(***************************************************************************)
ReportIsOfOneMoment ==
    \A r \in Readers :
        LET total == report[r].totalSeen
            first == IF total > Window THEN total - Window + 1 ELSE 1
        IN  report[r].status # "none" =>
              /\ total <= Len(seen)
              /\ snapshot[r].scores = SubSeq(seen, first, total)
              /\ report[r].observed = Len(snapshot[r].scores)
              /\ reference.kind # "none" =>
                   (report[r].status = "insufficient_data" <=> total < MinSamples)

\* No bin of a reference is empty, though scores tie and quantiles repeat, so that
\* no proportion is zero (drift.py:101-107).
BinsAreFilled ==
    /\ \A b \in DOMAIN reference.counts : reference.counts[b] > 0
    /\ Total(reference.counts) = reference.n

\* What a bin, or class, is meant to hold: from its edge to the next, the first and
\* the last without end.
Belongs(score, b) ==
    LET marks == reference.marks
    IN  IF reference.kind = "categorical" THEN marks[b] = score
        ELSE /\ b = 1 \/ marks[b] <= score
             /\ b = Len(marks) - 1 \/ score < marks[b + 1]

HasVerdict(r) == report[r].status \in {"stable", "moderate_shift", "significant_shift"}

Found(r, b) == {i \in DOMAIN snapshot[r].scores : Belongs(snapshot[r].scores[i], b)}

(***************************************************************************)
(* "Counted, not dropped" (drift.py:117-126, 200-215): every observation of *)
(* a verdict is counted in the one bin it belongs to, scores beyond the     *)
(* training range in the outermost, and unknown classes apart.              *)
(***************************************************************************)
EveryScoreIsCounted ==
    \A r \in Readers : HasVerdict(r) =>
        /\ \A b \in DOMAIN report[r].counts : report[r].counts[b] = Cardinality(Found(r, b))
        /\ Total(report[r].counts) + report[r].unseen = report[r].observed

Occurrences(x, s) == Cardinality({i \in DOMAIN s : s[i] = x})

\* Quiet on the training distribution: a window with every value in the proportion
\* it has in the sample is stable (drift.py:85-113, 196-223).
OwnMixIsStable ==
    \A r \in Readers :
        LET window == snapshot[r].scores
        IN  HasVerdict(r) /\ (\A x \in Range(window) \cup Range(training) :
                Occurrences(x, window) * Len(training) = Occurrences(x, training) * Len(window))
              => report[r].status = "stable"

(***************************************************************************)
(* Loud when something is gone: a bin or class with one in twenty of the    *)
(* sample and nothing in the window is a significant shift.  A window with  *)
(* unknown classes only is excepted: the code takes it for stable (drift.py:*)
(* 129-139).                                                                *)
(***************************************************************************)
VanishedIsSignificant ==
    \A r \in Readers :
        /\ HasVerdict(r)
        /\ report[r].unseen < report[r].observed
        /\ \E b \in DOMAIN reference.counts :
             20 * reference.counts[b] >= reference.n /\ Found(r, b) = {}
        => report[r].status = "significant_shift"
=============================================================================
