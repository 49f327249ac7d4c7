------------------------------ MODULE Training ------------------------------
(***************************************************************************)
(* How the artifacts in models/artifacts come about: the corpus generator,  *)
(* the fetch of the real data, the two training scripts with --verify, and  *)
(* the evaluation.  Somebody, or CI, runs one command at a time; any of     *)
(* them may be killed between two steps, and no file is written atomically. *)
(*                                                                          *)
(* Everything is seeded, so what a training run computes is a function of   *)
(* the data it read.  An artifact is therefore the number of its run and    *)
(* those data; weights, scores and the text of the reports are left out.    *)
(* The synthetic and the real track share no file: Init chooses one.        *)
(***************************************************************************)
EXTENDS Integers, Sequences, FiniteSets, Functions

CONSTANTS
    Written,    \* Written[r]: the rows that revision r of generate_corpus.py makes
    Absent,     \* no such file
    Torn        \* what is left of a file whose write did not end

CONSTANTS       \* bounds of the model, not of the program
    MaxRuns,    \* training runs, the committed one included
    Breaks      \* how many rows a corpus cut short may be left with

\* A row of the corpus stands for its template: <<intent, number>>.
Rows == Seq(STRING \X Nat)

\* What the official server may send: its file, or one somebody changed since.
Upstream == {"official", "changed"}
RealData == (Upstream \cup {Torn}) \X (Upstream \cup {Torn})

ASSUME TrainingAssumption ==
    /\ Written \in Seq(Rows) /\ Written # << >>
    /\ MaxRuns \in Nat \ {0}
    /\ Breaks \subseteq Nat
    /\ Absent # Torn
    /\ \A none \in {Absent, Torn} :
         /\ none \notin Rows \cup Upstream
         /\ none \notin [run : Nat, data : Rows] \cup [run : Nat, data : RealData]

VARIABLES
    track,      \* the pipeline of this behaviour, "synthetic" or "real"
    revision,   \* the revision of the templates in generate_corpus.py
    disk,       \* the contents of every file
    todo,       \* the writes the running command has yet to do
    writing,    \* whether it is inside the first of them
    runs,       \* the number of the newest training run
    passed,     \* history: the checks that succeeded since a file was last written
    trained,    \* history: no file was written since a training run ended
    approved    \* history: runs that began on a cache that a fetch or check approved

training == <<track, revision, disk, todo, writing, runs, passed, trained, approved>>
-----------------------------------------------------------------------------
\* The files, in the order in which their script writes them.
Csv       == <<"train.csv", "test.csv">>
Artifacts == [synthetic |-> <<"intent", "sentiment", "metrics", "card", "drift">>,
              real      |-> <<"real_model", "real_metrics", "real_card">>]
Fitted    == Range(Artifacts.synthetic) \cup Range(Artifacts.real)
File      == {"corpus"} \cup Range(Csv) \cup Fitted

Artifact(run, data) == [run |-> run, data |-> data]
Write(file, value)  == [file |-> file, value |-> value]
Readable(f)         == disk[f] \notin {Absent, Torn}

\* The templates that more than one intent may use, "ambiguous:" in the code, have
\* the number 0.
Ambiguous(t)    == t[2] = 0
Labels(rows)    == {t[1] : t \in Range(rows)}
Own(rows, i)    == {t \in Range(rows) : t[1] = i /\ ~Ambiguous(t)}

\* max(1, int(round(n * 0.25))): Python rounds a half to the even neighbour.
QuarterRounded(n) ==
    LET q == n \div 4
    IN  IF n % 4 = 3 \/ (n % 4 = 2 /\ q % 2 = 1) THEN q + 1 ELSE q
HoldCount(n) == IF QuarterRounded(n) > 1 THEN QuarterRounded(n) ELSE 1

\* rng.choice raises if an intent has ambiguous templates only.
Splittable(rows) == rows # << >> /\ \A i \in Labels(rows) : Own(rows, i) # {}

\* Mutant: the share is taken of all templates at once.
HeldOutOfAll(rows) ==
    CHOOSE H \in SUBSET UNION {Own(rows, i) : i \in Labels(rows)} :
        Cardinality(H) = HoldCount(Cardinality(Range(rows)))

(***************************************************************************)
(* template_split: per intent a share of its own templates, drawn by a      *)
(* generator with a fixed seed, hence a function of the templates present.  *)
(***************************************************************************)
HeldOut(rows) ==
    CHOOSE H \in SUBSET UNION {Own(rows, i) : i \in Labels(rows)} :
        \A i \in Labels(rows) :
            Cardinality(H \cap Own(rows, i)) = HoldCount(Cardinality(Own(rows, i)))

\* Templates whose messages a training run on these rows has fitted.
Kept(rows) == Range(rows) \ HeldOut(rows)
-----------------------------------------------------------------------------
\* A fresh clone with its committed files, or one whose artifacts were removed.
Committed(f) ==
    CASE f = "corpus"                    -> Written[1]
      [] f \in Range(Csv)              -> Absent
      [] f \in Range(Artifacts.synthetic) -> Artifact(1, Written[1])
      [] f \in Range(Artifacts.real)     -> Artifact(1, <<"official", "official">>)

TrainingInit ==
    /\ track \in {"synthetic", "real"}
    /\ revision = 1
    /\ disk \in {[f \in File |-> Committed(f)], [f \in File |-> Absent]}
    /\ todo = << >>
    /\ writing = FALSE
    /\ runs = 1
    /\ passed = {}
    /\ trained = FALSE
    /\ approved = {}

\* A command may start: the one before it has ended, well or not.
Idle == todo = << >>

\* Somebody edits the templates.
EditTemplates(r) ==
    /\ track = "synthetic"
    /\ r # revision
    /\ revision' = r
    /\ passed' = {}
    /\ UNCHANGED <<track, disk, todo, writing, runs, trained, approved>>

Run(writes) ==
    /\ Idle
    /\ todo' = writes
    /\ UNCHANGED <<track, revision, disk, writing>>

\* A check that exits with 0; one that fails changes nothing.
Pass(check) ==
    /\ Idle
    /\ passed' = passed \cup {check}
    /\ UNCHANGED <<track, revision, disk, todo, writing, runs, trained, approved>>

\* generate_corpus.py
Generate ==
    /\ track = "synthetic"
    /\ Run(<<Write("corpus", Written[revision])>>)
    /\ UNCHANGED <<runs, passed, trained, approved>>

\* generate_corpus.py --check
CheckCorpus ==
    /\ track = "synthetic"
    /\ disk["corpus"] = Written[revision]
    /\ Pass("corpus")

\* fetch_real_data.py; the two answers are chosen beforehand, a request that fails
\* ends the command like Kill.
Fetch(answers) ==
    /\ track = "real"
    /\ Run([k \in DOMAIN Csv |-> Write(Csv[k], answers[k])])
    /\ UNCHANGED <<runs, passed, trained, approved>>

\* fetch_real_data.py --check: checksums and row counts of both files.
CheckCache ==
    /\ track = "real"
    /\ \A f \in Range(Csv) : disk[f] = "official"
    /\ Pass("cache")

\* Mutant: the drift reference is forgotten.
FitWithoutReference(data) ==
    LET files == Artifacts[track]
    IN  [k \in 1..(Len(files) - 1) |-> Write(files[k], Artifact(runs + 1, data))]

\* Mutant: the metrics are written first.
FitMetricsFirst(data) ==
    LET files == IF track = "synthetic"
                 THEN <<"metrics", "intent", "sentiment", "card", "drift">>
                 ELSE Artifacts.real
    IN  [k \in DOMAIN files |-> Write(files[k], Artifact(runs + 1, data))]

\* train() of either script: both classifiers, the metrics and card made of their
\* scores, and the mix of predicted intents, all from the same data.
Fit(data) ==
    LET files == Artifacts[track]
    IN  [k \in DOMAIN files |-> Write(files[k], Artifact(runs + 1, data))]

\* A training run on these data; nothing is written before everything is computed.
TrainOn(data) ==
    /\ runs < MaxRuns
    /\ Run(Fit(data))
    /\ runs' = runs + 1
    /\ approved' = IF "cache" \in passed THEN approved \cup {runs + 1} ELSE approved
    /\ UNCHANGED <<passed, trained>>

\* train.py: the corpus must be there, and template_split must not raise.
CorpusFits == track = "synthetic" /\ disk["corpus"] # Absent /\ Splittable(disk["corpus"])

Train == CorpusFits /\ TrainOn(disk["corpus"])

(***************************************************************************)
(* --verify of train.py: the same training, compared with the accuracy in   *)
(* the committed metrics.  The same data give the same accuracy; other data *)
(* may or may not stay within the tolerance.                                *)
(***************************************************************************)
Verify == CorpusFits /\ Readable("metrics") /\ Pass("classifiers")

\* load() of train_real.py asks only whether both files exist, and pandas reads a file
\* that was cut short as readily as a whole one.
CacheFits == track = "real" /\ \A f \in Range(Csv) : disk[f] # Absent

\* train_real.py, and its --verify.
TrainReal  == CacheFits /\ TrainOn(<<disk["train.csv"], disk["test.csv"]>>)
VerifyReal == CacheFits /\ Readable("real_metrics") /\ Pass("classifiers")

\* What is found of a file in the middle of its write.  Rows of a corpus that were
\* written can be read.
Partial(w) ==
    IF w.file = "corpus"
    THEN {SubSeq(w.value, 1, n) : n \in {b \in Breaks : b < Len(w.value)}}
    ELSE {Torn}

\* open() empties the file before the first byte is written.
BeginWrite ==
    /\ ~Idle
    /\ ~writing
    /\ \E part \in Partial(Head(todo)) : disk' = [disk EXCEPT ![Head(todo).file] = part]
    /\ writing' = TRUE
    /\ passed' = {}
    /\ trained' = FALSE
    /\ UNCHANGED <<track, revision, todo, runs, approved>>

\* download() compares what it has just cached, and gives up, without removing it.
Rejected(w) == w.file \in Range(Csv) /\ w.value # "official"

\* Mutant: download() reports a mismatch and goes on.
EndWriteGoesOn ==
    /\ writing
    /\ LET w    == Head(todo)
           ends == Len(todo) = 1
       IN  /\ disk' = [disk EXCEPT ![w.file] = w.value]
           /\ todo' = Tail(todo)
           /\ passed' = IF ends /\ w.file \in Range(Csv) THEN {"cache"} ELSE {}
           /\ trained' = (ends /\ w.file \in Fitted)
    /\ writing' = FALSE
    /\ UNCHANGED <<track, revision, runs, approved>>

\* The file is whole; a command that has written all its files ends with 0.
EndWrite ==
    /\ writing
    /\ LET w    == Head(todo)
           ends == Len(todo) = 1 /\ ~Rejected(w)
       IN  /\ disk' = [disk EXCEPT ![w.file] = w.value]
           /\ todo' = IF Rejected(w) THEN << >> ELSE Tail(todo)
           /\ passed' = IF ends /\ w.file \in Range(Csv) THEN {"cache"} ELSE {}
           /\ trained' = (ends /\ w.file \in Fitted)
    /\ writing' = FALSE
    /\ UNCHANGED <<track, revision, runs, approved>>

\* The command is interrupted, between two writes or inside one.
Kill ==
    /\ ~Idle
    /\ todo' = << >>
    /\ writing' = FALSE
    /\ UNCHANGED <<track, revision, disk, runs, passed, trained, approved>>

Command ==
    \/ \E r \in DOMAIN Written : EditTemplates(r)
    \/ Generate
    \/ CheckCorpus
    \/ \E answers \in [DOMAIN Csv -> Upstream] : Fetch(answers)
    \/ CheckCache
    \/ Train
    \/ Verify
    \/ TrainReal
    \/ VerifyReal
    \/ BeginWrite
    \/ EndWrite
    \/ Kill

TrainingSpec == TrainingInit /\ [][Command]_training
-----------------------------------------------------------------------------
Values(f) ==
    CASE f = "corpus"                     -> Rows
      [] f \in Range(Csv)               -> Upstream
      [] f \in Range(Artifacts.synthetic) -> [run : 1..MaxRuns, data : Rows]
      [] f \in Range(Artifacts.real)      -> [run : 1..MaxRuns, data : RealData]

TrainingTypeOK ==
    /\ track \in {"synthetic", "real"}
    /\ revision \in DOMAIN Written
    /\ DOMAIN disk = File
    /\ \A f \in File : disk[f] \in Values(f) \cup {Absent, Torn}
    /\ disk["corpus"] # Torn
    /\ \E files \in {<<"corpus">>, Csv, Artifacts[track]} :
         \E done \in 0..Len(files) :
           /\ Len(todo) = Len(files) - done
           /\ \A k \in DOMAIN todo : /\ todo[k].file = files[done + k]
                                     /\ todo[k].value \in Values(todo[k].file)
    /\ writing \in BOOLEAN /\ (writing => ~Idle)
    /\ runs \in 1..MaxRuns
    /\ passed \subseteq {"corpus", "cache", "classifiers"}
    /\ trained \in BOOLEAN
    /\ approved \subseteq 2..MaxRuns

(***************************************************************************)
(* fetch_real_data.py:79-84, 99-102: when a fetch or a check has ended with *)
(* 0 and no file was written since, both files are the official ones, and a *)
(* model, its metrics and its card whose training began then are of the     *)
(* official split, whatever was fetched, refused or killed before or since. *)
(***************************************************************************)
ApprovedDataIsOfficial ==
    /\ "cache" \in passed => \A f \in Range(Csv) : disk[f] = "official"
    /\ \A f \in Range(Artifacts.real) :
         Readable(f) /\ disk[f].run \in approved => disk[f].data = <<"official", "official">>

\* evaluate.py: the classifiers on disk and the templates they are asked about, which
\* are held out of the corpus as it is now.
Evaluated == {"intent", "sentiment"}
Tested    == HeldOut(disk["corpus"])

(***************************************************************************)
(* evaluate.py:2, train.py:88-98: after a training run that ended, with     *)
(* nothing written since, the evaluation asks the classifiers about         *)
(* templates they have never seen, and every intent with two templates of   *)
(* its own is both learned and tested, however small the corpus is.         *)
(***************************************************************************)
EvaluationIsHonest ==
    trained /\ track = "synthetic" =>
        LET rows == disk["corpus"]
        IN  /\ \A c \in Evaluated : Tested \cap Kept(disk[c].data) = {}
            /\ \A i \in Labels(rows) : Cardinality(Own(rows, i)) > 1 =>
                 /\ \E t \in Tested : t[1] = i
                 /\ \A c \in Evaluated : \E t \in Kept(disk[c].data) : t[1] = i
            /\ \A f \in Range(Artifacts.synthetic) : disk[f] = disk["intent"]

(***************************************************************************)
(* .github/workflows/ci.yml:18-19: the two checks "prove the committed      *)
(* corpus and classifiers are reproducible rather than trusting the files". *)
(***************************************************************************)
VerifiedMeansReproducible ==
    track = "synthetic" /\ {"corpus", "classifiers"} \subseteq passed =>
        \A c \in Evaluated : Readable(c) => disk[c].data = disk["corpus"]
=============================================================================
