--------------------------- MODULE TrainingProofs ---------------------------
(***************************************************************************)
(* Proofs about Training: for every generator of corpora, any number of     *)
(* training runs and any way a write may be cut short.                      *)
(***************************************************************************)
EXTENDS Training, SequenceTheorems, FiniteSetTheorems, TLAPS

USE DEF training
-----------------------------------------------------------------------------
(* Files and what may be in them.                                           *)

\* The names of the files, spelled out.
LEMMA FileNames ==
    /\ Range(Csv) = {"train.csv", "test.csv"}
    /\ Range(Artifacts.synthetic) = {"intent", "sentiment", "metrics", "card", "drift"}
    /\ Range(Artifacts.real) = {"real_model", "real_metrics", "real_card"}
    /\ Artifacts["synthetic"] = Artifacts.synthetic /\ Artifacts["real"] = Artifacts.real
BY DEF Csv, Artifacts, Range

\* What a script writes, file by file.
LEMMA ValuesAre ==
    /\ Values("corpus") = Rows
    /\ \A f \in Range(Csv) : Values(f) = Upstream
    /\ \A f \in Range(Artifacts.synthetic) : Values(f) = [run : 1..MaxRuns, data : Rows]
    /\ \A f \in Range(Artifacts.real) : Values(f) = [run : 1..MaxRuns, data : RealData]
BY FileNames DEF Values

\* None of it looks like a missing file or a torn one.
LEMMA ValuesAreReadable ==
    ASSUME NEW f \in File, NEW v \in Values(f)
    PROVE  v # Absent /\ v # Torn
<1>1. Rows \cup Upstream \cup [run : 1..MaxRuns, data : Rows]
                         \cup [run : 1..MaxRuns, data : RealData]
        \subseteq Rows \cup Upstream \cup [run : Nat, data : Rows]
                                     \cup [run : Nat, data : RealData]
  OBVIOUS
<1>2. v \in Rows \cup Upstream \cup [run : 1..MaxRuns, data : Rows]
                               \cup [run : 1..MaxRuns, data : RealData]
  BY ValuesAre DEF File, Fitted
<1> QED
  BY <1>1, <1>2, TrainingAssumption

\* One write: a file and what belongs into it.
Writes == UNION {[file : {f}, value : Values(f)] : f \in File}

\* A write says which file and carries a value of it.
LEMMA WriteType ==
    ASSUME NEW w \in Writes
    PROVE  w.file \in File /\ w.value \in Values(w.file)
BY DEF Writes

\* Conversely.
LEMMA WriteIsWrite ==
    ASSUME NEW f \in File, NEW v \in Values(f)
    PROVE  Write(f, v) \in Writes /\ Write(f, v).file = f /\ Write(f, v).value = v
BY DEF Writes, Write

\* A file cut short is a shorter corpus, or torn.
LEMMA PartialType ==
    ASSUME NEW w \in Writes, NEW part \in Partial(w)
    PROVE  /\ w.file = "corpus" => part \in Rows
           /\ w.file # "corpus" => part = Torn
<1>1. CASE w.file = "corpus"
  <2>1. w.value \in Rows
    BY <1>1, WriteType, ValuesAre
  <2>2. PICK n \in {b \in Breaks : b < Len(w.value)} : part = SubSeq(w.value, 1, n)
    BY <1>1 DEF Partial
  <2>3. n \in Nat /\ n <= Len(w.value) /\ Len(w.value) \in Nat
    BY <2>1, <2>2, TrainingAssumption, LenProperties DEF Rows
  <2>4. \A k \in 1..n : w.value[k] \in STRING \X Nat
    BY <2>1, <2>3, ElementOfSeq DEF Rows
  <2>5. SubSeq(w.value, 1, n) \in Seq(STRING \X Nat)
    BY <2>1, <2>3, <2>4, SubSeqProperties DEF Rows
  <2> QED
    BY <1>1, <2>2, <2>5 DEF Rows
<1>2. CASE w.file # "corpus"
  BY <1>2 DEF Partial
<1> QED
  BY <1>1, <1>2
-----------------------------------------------------------------------------
(* The command under way.                                                   *)

\* What is left of a command that writes these files.
Remaining(t, files, done) ==
    /\ Len(t) = Len(files) - done
    /\ \A k \in 1..Len(t) : t[k].file = files[done + k]

TodoOf(t) ==
    /\ t \in Seq(Writes)
    /\ \E files \in {<<"corpus">>, Csv, Artifacts[track]} :
         \E done \in 0..Len(files) : Remaining(t, files, done)

\* The three kinds of command.
LEMMA Commands ==
    ASSUME track \in {"synthetic", "real"},
           NEW files \in {<<"corpus">>, Csv, Artifacts[track]}
    PROVE  files \in Seq(File) /\ Len(files) \in Nat
<1>1. /\ <<"corpus">> \in Seq(File) /\ Csv \in Seq(File)
      /\ Artifacts.synthetic \in Seq(File) /\ Artifacts.real \in Seq(File)
  BY FileNames DEF File, Fitted, Csv, Artifacts
<1>2. files \in Seq(File)
  BY <1>1, FileNames
<1> QED
  BY <1>2, LenProperties

\* A command that has nothing to do is one, too.
LEMMA TodoEmpty == track \in {"synthetic", "real"} => TodoOf(<< >>)
<1> SUFFICES ASSUME track \in {"synthetic", "real"} PROVE TodoOf(<< >>)
  OBVIOUS
<1>1. /\ << >> \in Seq(Writes) /\ Len(<<"corpus">>) = 1 /\ Len(<< >>) = 0
  OBVIOUS
<1>2. Remaining(<< >>, <<"corpus">>, 1)
  BY <1>1 DEF Remaining
<1> QED
  BY <1>1, <1>2 DEF TodoOf

\* The whole command.
LEMMA TodoWhole ==
    ASSUME track \in {"synthetic", "real"},
           NEW files \in {<<"corpus">>, Csv, Artifacts[track]},
           NEW t, t = [k \in DOMAIN files |-> Write(files[k], t[k].value)],
           \A k \in DOMAIN files : t[k].value \in Values(files[k])
    PROVE  TodoOf(t)
<1>1. files \in Seq(File) /\ Len(files) \in Nat
  BY Commands
<1>2. DOMAIN files = 1..Len(files) /\ \A k \in 1..Len(files) : files[k] \in File
  BY <1>1, LenProperties, ElementOfSeq
<1>3. \A k \in 1..Len(files) : t[k] \in Writes /\ t[k].file = files[k]
  BY <1>2, WriteIsWrite
<1>4. t \in Seq(Writes) /\ Len(t) = Len(files)
  <2>1. t = [k \in 1..Len(files) |-> t[k]]
    BY <1>2
  <2>2. t \in [1..Len(files) -> Writes]
    BY <1>3, <2>1
  <2> QED
    BY <1>1, <2>2
<1>5. Remaining(t, files, 0)
  BY <1>1, <1>2, <1>3, <1>4 DEF Remaining
<1>6. \E done \in 0..Len(files) : Remaining(t, files, done)
  BY <1>1, <1>5
<1> QED
  BY <1>4, <1>6, Zenon DEF TodoOf

\* After its first write.
LEMMA TodoTail ==
    ASSUME track \in {"synthetic", "real"}, TodoOf(todo), todo # << >>
    PROVE  /\ TodoOf(Tail(todo))
           /\ Head(todo) = todo[1] /\ Head(todo) \in Writes
           /\ Len(todo) \in Nat \ {0}
           /\ Len(Tail(todo)) = Len(todo) - 1
           /\ \A k \in 1..Len(Tail(todo)) : Tail(todo)[k] = todo[k + 1]
<1>1. /\ todo \in Seq(Writes)
      /\ Head(todo) \in Writes /\ Tail(todo) \in Seq(Writes) /\ Head(todo) = todo[1]
      /\ Len(Tail(todo)) = Len(todo) - 1
      /\ \A k \in 1..Len(Tail(todo)) : Tail(todo)[k] = todo[k + 1]
      /\ Len(todo) \in Nat \ {0}
  BY HeadTailProperties, LenProperties, EmptySeq DEF TodoOf
<1>a. PICK files \in {<<"corpus">>, Csv, Artifacts[track]} :
         \E done \in 0..Len(files) : Remaining(todo, files, done)
  BY DEF TodoOf
<1>2. PICK done \in 0..Len(files) : Remaining(todo, files, done)
  BY <1>a
<1>3. Len(files) \in Nat
  BY Commands
<1>4. done + 1 \in 0..Len(files)
  BY <1>1, <1>2, <1>3 DEF Remaining
<1>5. Remaining(Tail(todo), files, done + 1)
  <2>1. Len(Tail(todo)) = Len(files) - (done + 1)
    BY <1>1, <1>2, <1>3 DEF Remaining
  <2>2. ASSUME NEW k \in 1..Len(Tail(todo))
        PROVE  Tail(todo)[k].file = files[(done + 1) + k]
    <3>1. k + 1 \in 1..Len(todo) /\ done + (k + 1) = (done + 1) + k
      BY <1>1, <1>2, <2>2
    <3>2. todo[k + 1].file = files[done + (k + 1)]
      BY <1>2, <3>1 DEF Remaining
    <3> QED
      BY <1>1, <3>1, <3>2
  <2> QED
    BY <2>1, <2>2 DEF Remaining
<1> QED
  BY <1>1, <1>4, <1>5 DEF TodoOf
-----------------------------------------------------------------------------
(* Type correctness.                                                        *)

TypeInv ==
    /\ track \in {"synthetic", "real"}
    /\ revision \in DOMAIN Written
    /\ DOMAIN disk = File
    /\ \A f \in File : disk[f] \in Values(f) \cup {Absent, Torn}
    /\ disk["corpus"] # Torn
    /\ TodoOf(todo)
    /\ writing \in BOOLEAN /\ (writing => todo # << >>)
    /\ runs \in 1..MaxRuns
    /\ passed \subseteq {"corpus", "cache", "classifiers"}
    /\ trained \in BOOLEAN
    /\ approved \subseteq 2..MaxRuns

\* TypeInv says of the command under way what the type invariant says.
LEMMA TypeInvImplies == TypeInv => TrainingTypeOK
<1> SUFFICES ASSUME TypeInv PROVE TrainingTypeOK
  OBVIOUS
<1>1. PICK files \in {<<"corpus">>, Csv, Artifacts[track]} :
         \E done \in 0..Len(files) : Remaining(todo, files, done)
  BY DEF TypeInv, TodoOf
<1>2. PICK done \in 0..Len(files) : Remaining(todo, files, done)
  BY <1>1
<1>3. /\ DOMAIN todo = 1..Len(todo)
      /\ \A k \in 1..Len(todo) : todo[k] \in Writes
  BY LenProperties, ElementOfSeq DEF TypeInv, TodoOf
<1>4. /\ Len(todo) = Len(files) - done
      /\ \A k \in DOMAIN todo : /\ todo[k].file = files[done + k]
                                /\ todo[k].value \in Values(todo[k].file)
  BY <1>2, <1>3, WriteType DEF Remaining
<1> QED
  BY <1>2, <1>4 DEF TypeInv, TrainingTypeOK, Idle

\* A revision is a sequence of rows, and so is what a training run on it reads.
LEMMA WrittenRows == \A r \in DOMAIN Written : Written[r] \in Rows
BY TrainingAssumption, LenProperties, ElementOfSeq

\* There is a first revision.
LEMMA FirstRevision == 1 \in DOMAIN Written
BY TrainingAssumption, LenProperties, EmptySeq

\* What is committed has the types of what the scripts write.
LEMMA CommittedType == \A f \in File : Committed(f) \in Values(f) \cup {Absent}
<1> SUFFICES ASSUME NEW f \in File PROVE Committed(f) \in Values(f) \cup {Absent}
  OBVIOUS
<1>1. Written[1] \in Rows /\ 1 \in 1..MaxRuns
  BY WrittenRows, FirstRevision, TrainingAssumption
<1>2. <<"official", "official">> \in RealData
  BY DEF RealData, Upstream
<1>3. CASE f = "corpus"
  BY <1>1, <1>3, ValuesAre, FileNames DEF Committed
<1>4. CASE f \in Range(Csv)
  BY <1>4, FileNames DEF Committed
<1>5. CASE f \in Range(Artifacts.synthetic)
  BY <1>1, <1>5, FileNames, ValuesAre DEF Committed, Artifact
<1>6. CASE f \in Range(Artifacts.real)
  BY <1>1, <1>2, <1>6, FileNames, ValuesAre DEF Committed, Artifact
<1> QED
  BY <1>3, <1>4, <1>5, <1>6 DEF File, Fitted

\* A clone is well typed, with its artifacts and without them.
LEMMA TypeInit == TrainingInit => TypeInv
<1> SUFFICES ASSUME TrainingInit PROVE TypeInv
  OBVIOUS
<1>1. "corpus" \in File /\ Written[1] \in Rows
  BY WrittenRows, FirstRevision DEF File
<1>2. Committed("corpus") = Written[1] /\ Written[1] # Torn
  BY <1>1, FileNames, ValuesAre, ValuesAreReadable DEF Committed
<1>3. TodoOf(todo)
  BY TodoEmpty DEF TrainingInit
<1>4. /\ DOMAIN disk = File
      /\ \A f \in File : disk[f] \in Values(f) \cup {Absent, Torn}
      /\ disk["corpus"] # Torn
  BY <1>1, <1>2, CommittedType, TrainingAssumption DEF TrainingInit
<1>5. /\ track \in {"synthetic", "real"}
      /\ revision \in DOMAIN Written
      /\ writing = FALSE /\ trained = FALSE /\ passed = {} /\ approved = {}
  BY FirstRevision DEF TrainingInit
<1>6. runs \in 1..MaxRuns
  BY TrainingAssumption DEF TrainingInit
<1> QED
  BY <1>3, <1>4, <1>5, <1>6 DEF TypeInv

\* What a training run reads, and that it can.
Data     == IF track = "synthetic" THEN disk["corpus"] ELSE <<disk["train.csv"], disk["test.csv"]>>
DataFits == CorpusFits \/ CacheFits

\* Either script trains on the data of its track.
LEMMA TrainsOnData == Train \/ TrainReal => DataFits /\ TrainOn(Data)
BY DEF Train, TrainReal, CorpusFits, CacheFits, DataFits, Data

\* What a training run reads is a corpus, or two files of the cache.
LEMMA DataType ==
    ASSUME TypeInv, DataFits
    PROVE  /\ track = "synthetic" => Data \in Rows
           /\ track = "real" => Data \in RealData
<1>1. "corpus" \in File /\ "train.csv" \in File /\ "test.csv" \in File
  BY FileNames DEF File
<1>2. CASE track = "synthetic"
  BY <1>1, <1>2, ValuesAre DEF TypeInv, DataFits, CorpusFits, CacheFits, Data
<1>3. CASE track = "real"
  <2>1. \A f \in Range(Csv) : disk[f] \in Upstream \cup {Torn}
    BY <1>1, <1>3, ValuesAre, FileNames DEF TypeInv, DataFits, CorpusFits, CacheFits
  <2> QED
    BY <1>3, <2>1, FileNames DEF Data, RealData
<1> QED
  BY <1>2, <1>3 DEF TypeInv

\* The commands that write start with all their writes to do.
LEMMA GenerateTodo ==
    ASSUME TypeInv, Generate PROVE TodoOf(todo')
<1>1. Written[revision] \in Values("corpus")
  BY WrittenRows, ValuesAre DEF TypeInv
<1>2. todo' = <<Write("corpus", Written[revision])>>
  BY DEF Generate, Run
<1>3. \A k \in DOMAIN <<"corpus">> :
         /\ todo'[k] = Write(<<"corpus">>[k], Written[revision])
         /\ todo'[k].value \in Values(<<"corpus">>[k])
         /\ todo'[k].value = Written[revision]
  BY <1>1, <1>2 DEF Write
<1>4. todo' = [k \in DOMAIN <<"corpus">> |-> Write(<<"corpus">>[k], todo'[k].value)]
  BY <1>2, <1>3
<1> HIDE <1>2
<1> QED
  BY <1>3, <1>4, TodoWhole DEF TypeInv

\* A fetch.
LEMMA FetchTodo ==
    ASSUME TypeInv, NEW answers \in [DOMAIN Csv -> Upstream], Fetch(answers)
    PROVE  TodoOf(todo')
<1>1. todo' = [k \in DOMAIN Csv |-> Write(Csv[k], answers[k])]
  BY DEF Fetch, Run
<1>2. \A k \in DOMAIN Csv : todo'[k].value = answers[k] /\ answers[k] \in Values(Csv[k])
  BY <1>1, FileNames, ValuesAre DEF Write, Csv
<1>3. todo' = [k \in DOMAIN Csv |-> Write(Csv[k], todo'[k].value)]
  BY <1>1, <1>2
<1> QED
  BY <1>2, <1>3, TodoWhole DEF TypeInv

\* A training run: one artifact after the other, all of the new run.
LEMMA TrainTodo ==
    ASSUME TypeInv, Train \/ TrainReal
    PROVE  /\ TodoOf(todo')
           /\ todo' = [k \in DOMAIN Artifacts[track] |->
                         Write(Artifacts[track][k], Artifact(runs + 1, Data))]
           /\ runs' = runs + 1 /\ runs' \in 1..MaxRuns
<1> DEFINE files == Artifacts[track]
<1>0. DataFits /\ TrainOn(Data)
  BY TrainsOnData
<1>1. todo' = [k \in DOMAIN files |-> Write(files[k], Artifact(runs + 1, Data))]
  BY <1>0 DEF TrainOn, Run, Fit
<1>2. runs' = runs + 1 /\ runs' \in 1..MaxRuns
  BY <1>0, TrainingAssumption DEF TrainOn, TypeInv
<1>3. \A k \in DOMAIN files : files[k] \in Range(files)
  BY DEF Range
<1>4. \A f \in Range(files) : Artifact(runs + 1, Data) \in Values(f)
  <2>1. DataFits
    BY <1>0
  <2>2. CASE track = "synthetic"
    BY <1>2, <2>1, <2>2, DataType, ValuesAre, FileNames DEF Artifact
  <2>3. CASE track = "real"
    BY <1>2, <2>1, <2>3, DataType, ValuesAre, FileNames DEF Artifact
  <2> QED
    BY <2>2, <2>3 DEF TypeInv
<1>5. \A k \in DOMAIN files : /\ todo'[k].value = Artifact(runs + 1, Data)
                             /\ todo'[k].value \in Values(files[k])
  BY <1>1, <1>3, <1>4 DEF Write
<1>6. todo' = [k \in DOMAIN files |-> Write(files[k], todo'[k].value)]
  BY <1>1, <1>5
<1>7. TodoOf(todo')
  BY <1>5, <1>6, TodoWhole DEF TypeInv
<1> QED
  BY <1>1, <1>2, <1>7

\* One file is opened, and is left with a part of what belongs into it.
LEMMA BeginWriteEffect ==
    ASSUME TypeInv, BeginWrite
    PROVE  /\ Head(todo) \in Writes /\ Head(todo) = todo[1]
           /\ Head(todo).file \in File /\ Len(todo) \in Nat \ {0}
           /\ \A f \in File \ {Head(todo).file} : disk'[f] = disk[f]
           /\ Head(todo).file = "corpus" => disk'[Head(todo).file] \in Rows
           /\ Head(todo).file # "corpus" => disk'[Head(todo).file] = Torn
           /\ DOMAIN disk' = File
<1> DEFINE w == Head(todo)
<1>1. /\ w \in Writes /\ w = todo[1] /\ Len(todo) \in Nat \ {0}
  BY TodoTail DEF TypeInv, BeginWrite, Idle
<1>2. w.file \in File
  BY <1>1, WriteType
<1>3. PICK part \in Partial(w) : disk' = [disk EXCEPT ![w.file] = part]
  BY DEF BeginWrite
<1>4. /\ w.file = "corpus" => part \in Rows
      /\ w.file # "corpus" => part = Torn
  BY <1>1, PartialType
<1> HIDE DEF w
<1>5. disk'[w.file] = part /\ \A f \in File \ {w.file} : disk'[f] = disk[f]
  BY <1>2, <1>3 DEF TypeInv
<1>6. DOMAIN disk' = File
  BY <1>3 DEF TypeInv
<1> QED
  BY <1>1, <1>2, <1>4, <1>5, <1>6 DEF w

\* It gets the whole of it.
LEMMA EndWriteEffect ==
    ASSUME TypeInv, EndWrite
    PROVE  /\ Head(todo) \in Writes /\ Head(todo) = todo[1]
           /\ Head(todo).file \in File /\ Head(todo).value \in Values(Head(todo).file)
           /\ \A f \in File \ {Head(todo).file} : disk'[f] = disk[f]
           /\ disk'[Head(todo).file] = Head(todo).value
           /\ DOMAIN disk' = File
           /\ todo # << >> /\ Len(todo) \in Nat \ {0}
           /\ todo' = IF Rejected(Head(todo)) THEN << >> ELSE Tail(todo)
           /\ TodoOf(todo')
<1> DEFINE w == Head(todo)
<1>1. todo # << >>
  BY DEF TypeInv, EndWrite
<1>2. /\ w \in Writes /\ w = todo[1] /\ Len(todo) \in Nat \ {0} /\ TodoOf(Tail(todo))
  BY <1>1, TodoTail DEF TypeInv
<1>3. w.file \in File /\ w.value \in Values(w.file)
  BY <1>2, WriteType
<1>4. disk' = [disk EXCEPT ![w.file] = w.value]
  BY DEF EndWrite
<1>5. todo' = IF Rejected(w) THEN << >> ELSE Tail(todo)
  BY DEF EndWrite
<1>6. TodoOf(todo')
  BY <1>2, <1>5, TodoEmpty DEF TypeInv
<1> HIDE DEF w
<1>7. disk'[w.file] = w.value /\ \A f \in File \ {w.file} : disk'[f] = disk[f]
  BY <1>3, <1>4 DEF TypeInv
<1>8. DOMAIN disk' = File
  BY <1>4 DEF TypeInv
<1> QED
  BY <1>1, <1>2, <1>3, <1>5, <1>6, <1>7, <1>8 DEF w

\* Every command keeps the types.
LEMMA TypeStep == TypeInv /\ [Command]_training => TypeInv'
<1> SUFFICES ASSUME TypeInv, [Command]_training PROVE TypeInv'
  OBVIOUS
<1>1. ASSUME track' = track, TodoOf(todo') PROVE TodoOf(todo)'
  BY <1>1 DEF TodoOf
<1>2. ASSUME UNCHANGED <<track, todo>> PROVE TodoOf(todo)'
  BY <1>1, <1>2 DEF TypeInv
<1>3. CASE UNCHANGED training
  BY <1>2, <1>3 DEF TypeInv
<1>4. ASSUME NEW r \in DOMAIN Written, EditTemplates(r) PROVE TypeInv'
  BY <1>2, <1>4 DEF EditTemplates, TypeInv
<1>5. CASE Generate
  <2>1. TodoOf(todo)'
    BY <1>1, <1>5, GenerateTodo DEF Generate, Run
  <2>2. todo' # << >>
    BY <1>5 DEF Generate, Run
  <2> QED
    BY <1>5, <2>1, <2>2 DEF Generate, Run, TypeInv
<1>6. CASE CheckCorpus \/ CheckCache \/ Verify \/ VerifyReal
  <2>1. PICK check \in {"corpus", "cache", "classifiers"} : Pass(check)
    BY <1>6 DEF CheckCorpus, CheckCache, Verify, VerifyReal
  <2>2. TodoOf(todo)'
    BY <1>2, <2>1 DEF Pass
  <2> QED
    BY <2>1, <2>2 DEF Pass, TypeInv
<1>7. ASSUME NEW answers \in [DOMAIN Csv -> Upstream], Fetch(answers) PROVE TypeInv'
  <2>1. TodoOf(todo)'
    BY <1>1, <1>7, FetchTodo DEF Fetch, Run
  <2>2. ~writing
    BY <1>7 DEF Fetch, Run, Idle, TypeInv
  <2> QED
    BY <1>7, <2>1, <2>2 DEF Fetch, Run, TypeInv
<1>8. CASE Train \/ TrainReal
  <2>0. TrainOn(Data)
    BY <1>8, TrainsOnData
  <2>1. TodoOf(todo)'
    BY <1>1, <1>8, <2>0, TrainTodo DEF TrainOn, Run
  <2>2. ~writing
    BY <2>0 DEF TrainOn, Run, Idle, TypeInv
  <2>3. runs' \in 1..MaxRuns /\ runs + 1 \in 2..MaxRuns
    BY <1>8, TrainTodo, TrainingAssumption DEF TypeInv
  <2>4. approved' \subseteq 2..MaxRuns
    BY <2>0, <2>3 DEF TrainOn, TypeInv
  <2> QED
    BY <2>0, <2>1, <2>2, <2>3, <2>4 DEF TrainOn, Run, TypeInv
<1>9. CASE BeginWrite
  <2>1. TodoOf(todo)'
    BY <1>2, <1>9 DEF BeginWrite
  <2>2. /\ DOMAIN disk' = File
        /\ \A f \in File : disk'[f] \in Values(f) \cup {Absent, Torn}
        /\ disk'["corpus"] # Torn
    <3>1. "corpus" \in File /\ \A v \in Rows : v # Torn
      BY ValuesAre, ValuesAreReadable DEF File
    <3> QED
      BY <1>9, <3>1, BeginWriteEffect, ValuesAre DEF TypeInv
  <2>3. todo' # << >> /\ passed' = {} /\ trained' = FALSE /\ writing' = TRUE
    BY <1>9 DEF BeginWrite, Idle
  <2> QED
    BY <1>9, <2>1, <2>2, <2>3 DEF BeginWrite, TypeInv
<1>10. CASE EndWrite
  <2>1. TodoOf(todo)'
    BY <1>1, <1>10, EndWriteEffect DEF EndWrite
  <2>2. /\ DOMAIN disk' = File
        /\ \A f \in File : disk'[f] \in Values(f) \cup {Absent, Torn}
        /\ disk'["corpus"] # Torn
    <3>1. "corpus" \in File /\ \A v \in Values("corpus") : v # Torn
      BY ValuesAreReadable DEF File
    <3> QED
      BY <1>10, <3>1, EndWriteEffect DEF TypeInv
  <2>3. passed' \subseteq {"cache"} /\ trained' \in BOOLEAN /\ writing' = FALSE
    BY <1>10 DEF EndWrite
  <2> QED
    BY <1>10, <2>1, <2>2, <2>3 DEF EndWrite, TypeInv
<1>11. CASE Kill
  <2>1. TodoOf(todo)'
    BY <1>1, <1>11, TodoEmpty DEF Kill, TypeInv
  <2> QED
    BY <1>11, <2>1 DEF Kill, TypeInv
<1> QED
  BY <1>3, <1>4, <1>5, <1>6, <1>7, <1>8, <1>9, <1>10, <1>11 DEF Command

\* In every reachable state each file holds what its script writes, is torn or is
\* missing, and what a command has left to do is the end of its list of writes.
THEOREM TypeCorrect == TrainingSpec => []TrainingTypeOK
BY TypeInit, TypeStep, TypeInvImplies, PTL DEF TrainingSpec

\* An artifact that can be read bears the number of a run.
LEMMA ReadableArtifact ==
    ASSUME TypeInv, NEW f \in Fitted, Readable(f)
    PROVE  f \in File /\ disk[f] \in Values(f) /\ disk[f].run \in Nat
<1>1. f \in File /\ disk[f] \in Values(f)
  BY DEF TypeInv, Readable, File
<1>2. CASE f \in Range(Artifacts.synthetic)
  <2>1. disk[f] \in [run : 1..MaxRuns, data : Rows]
    BY <1>1, <1>2, ValuesAre
  <2> QED
    BY <1>1, <2>1, TrainingAssumption
<1>3. CASE f \in Range(Artifacts.real)
  <2>1. disk[f] \in [run : 1..MaxRuns, data : RealData]
    BY <1>1, <1>3, ValuesAre
  <2> QED
    BY <1>1, <2>1, TrainingAssumption
<1> QED
  BY <1>2, <1>3 DEF Fitted
-----------------------------------------------------------------------------
(* Approved data.                                                           *)

Official == <<"official", "official">>

(***************************************************************************)
(* The strengthening: artifacts and writes of an approved run are of the    *)
(* official split, no artifact is of a run yet to come, and a fetch that    *)
(* got to its second file has the right first one.                          *)
(***************************************************************************)
ApprovedInv ==
    /\ TypeInv
    /\ ApprovedDataIsOfficial
    /\ \A run \in approved : run <= runs
    /\ \A f \in Range(Artifacts.real) : Readable(f) => disk[f].run <= runs
    /\ \A k \in 1..Len(todo) :
         todo[k].file \in Range(Artifacts.real) =>
            /\ todo[k].value.run <= runs
            /\ todo[k].value.run \in approved => todo[k].value.data = Official
    /\ Len(todo) = 1 /\ todo[1].file \in Range(Csv) => disk["train.csv"] = "official"
    /\ \A k \in 1..Len(todo) : todo[k].file \in Range(Csv) =>
         Len(todo) <= 2 /\ todo[Len(todo)].file = "test.csv"
           /\ (Len(todo) = 2 => todo[1].file = "train.csv")

\* A clone has no approval, and no real artifact but of the official split.
LEMMA ApprovedInit == TrainingInit => ApprovedInv
<1> SUFFICES ASSUME TrainingInit PROVE ApprovedInv
  OBVIOUS
<1>1. /\ passed = {} /\ approved = {} /\ runs = 1 /\ Len(todo) = 0
  BY DEF TrainingInit
<1>2. ASSUME NEW f \in Range(Artifacts.real), Readable(f)
      PROVE  disk[f].run <= runs
  <2>1. f \in File /\ Committed(f) = Artifact(1, Official)
    BY FileNames DEF File, Fitted, Committed, Official
  <2>2. disk[f] = Committed(f)
    BY <1>2, <2>1 DEF TrainingInit, Readable
  <2> QED
    BY <1>1, <2>1, <2>2 DEF Artifact
<1> QED
  BY <1>1, <1>2, TypeInit DEF ApprovedInv, ApprovedDataIsOfficial

\* What a step that leaves the files and the writes alone has to show.
LEMMA ApprovedQuiet ==
    ASSUME ApprovedInv, TypeInv', UNCHANGED <<disk, runs, approved>>,
           todo' = todo \/ todo' = << >>,
           "cache" \in passed' => "cache" \in passed \/ \A f \in Range(Csv) : disk[f] = "official"
    PROVE  ApprovedInv'
<1>1. ApprovedDataIsOfficial'
  BY DEF ApprovedInv, ApprovedDataIsOfficial, Readable
<1>2. Len(<< >>) = 0
  OBVIOUS
<1> QED
  BY <1>1, <1>2 DEF ApprovedInv, Readable

\* A command that has just started.
LEMMA ApprovedStart ==
    ASSUME ApprovedInv, TypeInv', Idle, UNCHANGED <<disk, passed>>,
           Generate \/ Train \/ TrainReal \/ \E answers \in [DOMAIN Csv -> Upstream] : Fetch(answers)
    PROVE  ApprovedInv'
<1>1. CASE Generate
  <2>1. /\ Len(todo') = 1 /\ todo'[1].file = "corpus"
        /\ UNCHANGED <<runs, approved>>
    BY <1>1 DEF Generate, Run, Write
  <2>2. "corpus" \notin Range(Csv) /\ "corpus" \notin Range(Artifacts.real)
    BY FileNames
  <2> QED
    BY <2>1, <2>2 DEF ApprovedInv, ApprovedDataIsOfficial, Readable
<1>2. ASSUME NEW answers \in [DOMAIN Csv -> Upstream], Fetch(answers)
      PROVE  ApprovedInv'
  <2>1. /\ Len(todo') = 2 /\ todo'[1].file = "train.csv" /\ todo'[2].file = "test.csv"
        /\ UNCHANGED <<runs, approved>>
    BY <1>2 DEF Fetch, Run, Write, Csv
  <2>2. \A k \in 1..Len(todo') : todo'[k].file \notin Range(Artifacts.real)
    BY <2>1, FileNames
  <2> QED
    BY <2>1, <2>2 DEF ApprovedInv, ApprovedDataIsOfficial, Readable
<1>3. CASE Train \/ TrainReal
  <2>0. TrainOn(Data) /\ DataFits
    BY <1>3, TrainsOnData
  <2>1. /\ todo' = [k \in DOMAIN Artifacts[track] |->
                      Write(Artifacts[track][k], Artifact(runs + 1, Data))]
        /\ runs' = runs + 1 /\ runs \in Nat
        /\ approved' = IF "cache" \in passed THEN approved \cup {runs + 1} ELSE approved
        /\ DataFits
    BY <1>3, <2>0, TrainTodo, TrainingAssumption DEF ApprovedInv, TypeInv, TrainOn
  <2>2. /\ DOMAIN Artifacts[track] = 1..Len(todo')
        /\ \A k \in 1..Len(todo') : Artifacts[track][k] \in Range(Artifacts[track])
    <3>1. DOMAIN todo' = DOMAIN Artifacts[track]
      BY <2>1
    <3>2. DOMAIN todo' = 1..Len(todo')
      BY LenProperties DEF TypeInv, TodoOf
    <3> QED
      BY <3>1, <3>2 DEF Range
  <2>3. \A k \in 1..Len(todo') :
           /\ todo'[k].file \in Range(Artifacts[track])
           /\ todo'[k].value = Artifact(runs + 1, Data)
    BY <2>1, <2>2 DEF Write
  <2>4. \A k \in 1..Len(todo') : todo'[k].file \notin Range(Csv)
    BY <2>3, FileNames DEF ApprovedInv, TypeInv
  <2>5. ASSUME NEW k \in 1..Len(todo'), todo'[k].file \in Range(Artifacts.real)
        PROVE  /\ todo'[k].value.run <= runs'
               /\ todo'[k].value.run \in approved' => todo'[k].value.data = Official
    <3>1. todo'[k].value.run = runs + 1 /\ todo'[k].value.data = Data
      BY <2>3 DEF Artifact
    <3>2. track = "real"
      BY <2>3, <2>5, FileNames DEF ApprovedInv, TypeInv
    <3>3. runs + 1 \in approved' => "cache" \in passed
      BY <2>1 DEF ApprovedInv
    <3>4. "cache" \in passed => Data = Official
      BY <3>2, FileNames DEF Data, Official, ApprovedInv, ApprovedDataIsOfficial
    <3> QED
      BY <2>1, <3>1, <3>3, <3>4
  <2>6. ASSUME NEW f \in Range(Artifacts.real), Readable(f)
        PROVE  /\ disk[f].run <= runs' /\ disk[f].run # runs'
               /\ disk[f].run \in approved => disk[f].data = Official
    <3>1. disk[f].run \in Nat
      BY <2>6, ReadableArtifact DEF ApprovedInv, Fitted
    <3>2. disk[f].run <= runs
      BY <2>6 DEF ApprovedInv
    <3>3. disk[f].run \in approved => disk[f].data = Official
      BY <2>6 DEF ApprovedInv, ApprovedDataIsOfficial, Official
    <3> QED
      BY <2>1, <3>1, <3>2, <3>3
  <2>7. ApprovedDataIsOfficial'
    BY <2>1, <2>6 DEF ApprovedInv, ApprovedDataIsOfficial, Readable, Official
  <2>8. \A f \in Range(Artifacts.real) : Readable(f)' => disk'[f].run <= runs'
    BY <2>6 DEF Readable
  <2>9. \A run \in approved' : run <= runs'
    BY <2>1 DEF ApprovedInv, TypeInv
  <2> QED
    BY <2>4, <2>5, <2>7, <2>8, <2>9 DEF ApprovedInv
<1> QED
  BY <1>1, <1>2, <1>3

\* Writing a file makes it what it ought to be, whoever was interrupted before.
LEMMA ApprovedWrite ==
    ASSUME ApprovedInv, TypeInv', BeginWrite \/ EndWrite
    PROVE  ApprovedInv'
<1> DEFINE w == Head(todo)
<1>0. TypeInv /\ UNCHANGED <<runs, approved>>
  BY DEF ApprovedInv, BeginWrite, EndWrite
<1>1. CASE BeginWrite
  <2>1. /\ w = todo[1] /\ w.file \in File /\ Len(todo) \in Nat \ {0}
        /\ \A f \in File \ {w.file} : disk'[f] = disk[f]
        /\ w.file # "corpus" => disk'[w.file] = Torn
        /\ todo' = todo /\ passed' = {}
    BY <1>0, <1>1, BeginWriteEffect DEF BeginWrite
  <2>2. \A f \in Range(Artifacts.real) :
           f \in File /\ f # "corpus" /\ (Readable(f)' => Readable(f) /\ disk'[f] = disk[f])
    BY <2>1, FileNames DEF Readable, File, Fitted
  <2>3. ApprovedDataIsOfficial'
    BY <1>0, <2>1, <2>2 DEF ApprovedInv, ApprovedDataIsOfficial
  <2>4. ASSUME Len(todo) = 1, todo[1].file \in Range(Csv) PROVE disk'["train.csv"] = "official"
    <3>1. w.file = "test.csv" /\ disk["train.csv"] = "official" /\ "train.csv" \in File
      BY <2>1, <2>4, FileNames DEF ApprovedInv, File
    <3> QED
      BY <2>1, <3>1
  <2> QED
    BY <1>0, <2>1, <2>2, <2>3, <2>4 DEF ApprovedInv
<1>2. CASE EndWrite
  <2>1. /\ w = todo[1] /\ w.file \in File /\ Len(todo) \in Nat \ {0}
        /\ \A f \in File \ {w.file} : disk'[f] = disk[f]
        /\ disk'[w.file] = w.value
        /\ todo' = IF Rejected(w) THEN << >> ELSE Tail(todo)
        /\ todo # << >>
    BY <1>0, <1>2, EndWriteEffect
  <2>2. /\ Len(Tail(todo)) = Len(todo) - 1
        /\ \A k \in 1..Len(Tail(todo)) : Tail(todo)[k] = todo[k + 1]
    BY <1>0, <2>1, TodoTail DEF TypeInv
  <2>3. \A k \in 1..Len(todo') : k + 1 \in 1..Len(todo) /\ todo'[k] = todo[k + 1]
    BY <2>1, <2>2
  <2>4. ASSUME "cache" \in passed' PROVE \A f \in Range(Csv) : disk'[f] = "official"
    <3>1. /\ Len(todo) = 1 /\ ~Rejected(w) /\ w.file \in Range(Csv)
      BY <1>2, <2>4 DEF EndWrite
    <3>2. w.value = "official" /\ w.file = "test.csv" /\ disk["train.csv"] = "official"
      BY <2>1, <3>1 DEF Rejected, ApprovedInv
    <3>3. "train.csv" \in File
      BY FileNames DEF File
    <3> QED
      BY <2>1, <3>2, <3>3, FileNames
  <2>5. ASSUME NEW f \in Range(Artifacts.real), Readable(f)'
        PROVE  /\ disk'[f].run <= runs
               /\ disk'[f].run \in approved => disk'[f].data = Official
    <3>1. f \in File
      BY DEF File, Fitted
    <3>2. CASE f = w.file
      BY <2>1, <3>2 DEF ApprovedInv
    <3>3. CASE f # w.file
      <4>1. Readable(f) /\ disk'[f] = disk[f]
        BY <2>1, <2>5, <3>1, <3>3 DEF Readable
      <4> QED
        BY <4>1 DEF ApprovedInv, ApprovedDataIsOfficial, Official
    <3> QED
      BY <3>2, <3>3
  <2>6. ApprovedDataIsOfficial'
    BY <1>0, <2>4, <2>5 DEF ApprovedDataIsOfficial, Official
  <2>7. ASSUME Len(todo') = 1, todo'[1].file \in Range(Csv)
        PROVE  disk'["train.csv"] = "official"
    <3>1. /\ ~Rejected(w) /\ Len(todo) = 2 /\ todo[2].file \in Range(Csv)
          /\ 2 \in 1..Len(todo)
      BY <2>1, <2>2, <2>3, <2>7
    <3>2. w.file = "train.csv"
      BY <2>1, <3>1 DEF ApprovedInv
    <3> QED
      BY <2>1, <3>1, <3>2, FileNames DEF Rejected
  <2>8. ASSUME NEW k \in 1..Len(todo'), todo'[k].file \in Range(Csv)
        PROVE  /\ Len(todo') <= 2 /\ todo'[Len(todo')].file = "test.csv"
               /\ Len(todo') = 2 => todo'[1].file = "train.csv"
    <3>1. Len(todo) <= 2 /\ todo[Len(todo)].file = "test.csv"
      BY <2>3, <2>8 DEF ApprovedInv
    <3>2. Len(todo') = 1 /\ Len(todo) = 2
      BY <2>1, <2>2, <2>8, <3>1
    <3> QED
      BY <2>3, <3>1, <3>2
  <2>9. ASSUME NEW k \in 1..Len(todo'), todo'[k].file \in Range(Artifacts.real)
        PROVE  /\ todo'[k].value.run <= runs
               /\ todo'[k].value.run \in approved => todo'[k].value.data = Official
    BY <2>3, <2>9 DEF ApprovedInv
  <2> QED
    BY <1>0, <2>5, <2>6, <2>7, <2>8, <2>9 DEF ApprovedInv
<1> QED
  BY <1>1, <1>2

\* Every command keeps the approved data apart.
LEMMA ApprovedStep == ApprovedInv /\ [Command]_training => ApprovedInv'
<1> SUFFICES ASSUME ApprovedInv, [Command]_training PROVE ApprovedInv'
  OBVIOUS
<1>0. TypeInv'
  BY TypeStep DEF ApprovedInv
<1>1. CASE UNCHANGED training
  BY <1>0, <1>1, ApprovedQuiet
<1>2. ASSUME NEW r \in DOMAIN Written, EditTemplates(r) PROVE ApprovedInv'
  BY <1>0, <1>2, ApprovedQuiet DEF EditTemplates
<1>3. CASE CheckCorpus \/ CheckCache \/ Verify \/ VerifyReal
  <2>1. CASE CheckCorpus
    BY <1>0, <2>1, ApprovedQuiet DEF CheckCorpus, Pass
  <2>2. CASE CheckCache
    BY <1>0, <2>2, ApprovedQuiet DEF CheckCache, Pass
  <2>3. CASE Verify \/ VerifyReal
    BY <1>0, <2>3, ApprovedQuiet DEF Verify, VerifyReal, Pass
  <2> QED
    BY <1>3, <2>1, <2>2, <2>3
<1>4. CASE Kill
  BY <1>0, <1>4, ApprovedQuiet DEF Kill
<1>5. CASE Generate \/ Train \/ TrainReal \/ \E answers \in [DOMAIN Csv -> Upstream] : Fetch(answers)
  <2>1. Idle /\ UNCHANGED <<disk, passed>>
    BY <1>5, TrainsOnData DEF Generate, TrainOn, Fetch, Run
  <2> QED
    BY <1>0, <1>5, <2>1, ApprovedStart
<1>6. CASE BeginWrite \/ EndWrite
  BY <1>0, <1>6, ApprovedWrite
<1> QED
  BY <1>1, <1>2, <1>3, <1>4, <1>5, <1>6 DEF Command

\* Whatever is fetched, refused or killed: files that were just approved are the
\* official ones, and what a run made of them that began on an approved cache.
THEOREM ApprovedIsOfficial == TrainingSpec => []ApprovedDataIsOfficial
<1>1. ApprovedInv => ApprovedDataIsOfficial
  BY DEF ApprovedInv
<1> QED
  BY <1>1, ApprovedInit, ApprovedStep, PTL DEF TrainingSpec
-----------------------------------------------------------------------------
(* The split.                                                               *)

\* At least one template is held out, and one is kept of two or more.
LEMMA HoldCountBounds ==
    ASSUME NEW n \in Nat \ {0}
    PROVE  /\ HoldCount(n) \in 1..n
           /\ n > 1 => HoldCount(n) < n
BY DEF HoldCount, QuarterRounded

\* A corpus has finitely many templates.
LEMMA OwnIsFinite ==
    ASSUME NEW rows \in Rows, NEW i
    PROVE  /\ IsFiniteSet(Own(rows, i)) /\ Own(rows, i) \subseteq Range(rows)
           /\ Cardinality(Own(rows, i)) \in Nat
           /\ Own(rows, i) # {} => Cardinality(Own(rows, i)) # 0
<1>1. /\ Len(rows) \in Nat /\ DOMAIN rows = 1..Len(rows) /\ IsFiniteSet(1..Len(rows))
      /\ rows \in [1..Len(rows) -> Range(rows)]
  <2>1. Len(rows) \in Nat /\ DOMAIN rows = 1..Len(rows)
    BY LenProperties DEF Rows
  <2>2. rows \in [DOMAIN rows -> Range(rows)]
    <3>1. rows \in [1..Len(rows) -> STRING \X Nat]
      BY LenProperties DEF Rows
    <3> QED
      BY <3>1 DEF Range
  <2> QED
    BY <2>1, <2>2, FS_Interval
<1>2. rows \in Surjection(1..Len(rows), Range(rows))
  BY <1>1 DEF Surjection, Range
<1>3. IsFiniteSet(Range(rows))
  BY <1>1, <1>2, FS_Surjection
<1>4. Own(rows, i) \subseteq Range(rows)
  BY DEF Own
<1> QED
  BY <1>3, <1>4, FS_Subset, FS_CardinalityType, FS_EmptySet

\* Out of a finite set any number of elements can be taken.
LEMMA SubsetOfSize ==
    ASSUME NEW S, IsFiniteSet(S), NEW n \in Nat, n <= Cardinality(S)
    PROVE  \E T \in SUBSET S : Cardinality(T) = n
<1>1. /\ Cardinality(S) \in Nat
      /\ ExistsBijection(1..Cardinality(S), S)
  BY FS_CardinalityType
<1>2. PICK b : b \in Bijection(1..Cardinality(S), S)
  BY <1>1 DEF ExistsBijection
<1>3. b \in [1..Cardinality(S) -> S] /\ \A j, k \in 1..Cardinality(S) : j # k => b[j] # b[k]
  BY <1>2 DEF Bijection, Injection, Surjection, IsInjective
<1> DEFINE T == {b[k] : k \in 1..n}
           c == [k \in 1..n |-> b[k]]
<1>4. 1..n \subseteq 1..Cardinality(S)
  BY <1>1
<1>5. T \subseteq S
  BY <1>3, <1>4
<1>6. c \in [1..n -> T] /\ \A j, k \in 1..n : j # k => c[j] # c[k]
  BY <1>3, <1>4
<1>7. c \in Bijection(1..n, T)
  BY <1>6 DEF Bijection, Injection, Surjection, IsInjective
<1>8. Cardinality(T) = n
  BY <1>7, FS_CountingElements DEF ExistsBijection
<1> QED
  BY <1>5, <1>8

\* What the split has to be.
IsSplit(rows, H) ==
    \A i \in Labels(rows) :
        Cardinality(H \cap Own(rows, i)) = HoldCount(Cardinality(Own(rows, i)))

\* A corpus that does not make rng.choice raise can be split, hence is.
LEMMA SplitExists ==
    ASSUME NEW rows \in Rows, Splittable(rows)
    PROVE  IsSplit(rows, HeldOut(rows))
<1> DEFINE n(i) == HoldCount(Cardinality(Own(rows, i)))
           Share(i) == CHOOSE T \in SUBSET Own(rows, i) : Cardinality(T) = n(i)
           H == UNION {Share(i) : i \in Labels(rows)}
<1>1. ASSUME NEW i \in Labels(rows)
      PROVE  Share(i) \subseteq Own(rows, i) /\ Cardinality(Share(i)) = n(i)
  <2>1. n(i) \in Nat /\ n(i) <= Cardinality(Own(rows, i)) /\ IsFiniteSet(Own(rows, i))
    BY OwnIsFinite, HoldCountBounds DEF Splittable
  <2>2. \E T \in SUBSET Own(rows, i) : Cardinality(T) = n(i)
    BY <2>1, SubsetOfSize
  <2> QED
    BY <2>2
<1>2. ASSUME NEW i \in Labels(rows) PROVE H \cap Own(rows, i) = Share(i)
  <2>1. \A j \in Labels(rows) : \A t \in Own(rows, j) : t[1] = j
    BY DEF Own
  <2>2. \A j \in Labels(rows) : Share(j) \subseteq Own(rows, j)
    BY <1>1
  <2> HIDE DEF Share
  <2>3. ASSUME NEW t \in H, t \in Own(rows, i) PROVE t \in Share(i)
    <3>1. PICK j \in Labels(rows) : t \in Share(j)
      BY <2>3
    <3>2. t[1] = i /\ t[1] = j
      BY <2>1, <2>2, <2>3, <3>1
    <3> QED
      BY <3>1, <3>2
  <2> QED
    BY <2>2, <2>3
<1>3. IsSplit(rows, H) /\ H \in SUBSET UNION {Own(rows, i) : i \in Labels(rows)}
  BY <1>1, <1>2 DEF IsSplit
<1>4. HeldOut(rows) = CHOOSE G \in SUBSET UNION {Own(rows, i) : i \in Labels(rows)} :
                          IsSplit(rows, G)
  BY DEF HeldOut, IsSplit
<1> QED
  BY <1>3, <1>4, Zenon

\* An intent with two templates of its own is tested on one and learns from another.
LEMMA BothSides ==
    ASSUME NEW rows \in Rows, Splittable(rows), NEW i \in Labels(rows),
           Cardinality(Own(rows, i)) > 1
    PROVE  /\ \E t \in HeldOut(rows) : t[1] = i
           /\ \E t \in Kept(rows) : t[1] = i
<1> DEFINE O == Own(rows, i)
           H == HeldOut(rows)
<1>1. /\ IsFiniteSet(O) /\ O \subseteq Range(rows) /\ Cardinality(O) \in Nat \ {0}
      /\ \A t \in O : t[1] = i
  <2>1. \A t \in O : t[1] = i
    BY DEF Own
  <2>2. IsFiniteSet(O) /\ O \subseteq Range(rows) /\ Cardinality(O) \in Nat
    BY OwnIsFinite
  <2> QED
    BY <2>1, <2>2
<1>2. Cardinality(H \cap O) = HoldCount(Cardinality(O))
  BY SplitExists DEF IsSplit
<1>3. Cardinality(H \cap O) \in 1..Cardinality(O) /\ Cardinality(H \cap O) < Cardinality(O)
  BY <1>1, <1>2, HoldCountBounds
<1>4. H \cap O # {}
  BY <1>3, FS_EmptySet
<1>5. H \cap O # O
  BY <1>1, <1>3
<1> QED
  BY <1>1, <1>4, <1>5 DEF Kept
-----------------------------------------------------------------------------
(* The evaluation.                                                          *)

Synthetic == Artifacts.synthetic

\* A corpus that can be trained on.
Source == disk["corpus"] \in Rows /\ Splittable(disk["corpus"])

\* The first d artifacts are of run n on the corpus as it is.
MadeOfCorpus(n, d) == \A k \in 1..d : disk[Synthetic[k]] = Artifact(n, disk["corpus"])

\* A training run in the middle of its files has the others to write.
Wrote(n, d) ==
    /\ MadeOfCorpus(n, d)
    /\ Len(todo) = 5 - d
    /\ \A k \in 1..(5 - d) : todo[k] = Write(Synthetic[d + k], Artifact(n, disk["corpus"]))

UnderWay == \E n \in Nat, d \in 0..4 : Wrote(n, d)

(***************************************************************************)
(* The strengthening: between the start of a training run and the next      *)
(* write of another command the corpus is the one the run has read.         *)
(***************************************************************************)
HonestInv ==
    /\ TypeInv
    /\ trained /\ track = "synthetic" => Source /\ \E n \in Nat : MadeOfCorpus(n, 5)
    /\ todo # << >> /\ todo[1].file \in Range(Synthetic) => Source /\ UnderWay

\* The five files, all different, none of them the corpus.
LEMMA SyntheticFiles ==
    /\ Len(Synthetic) = 5 /\ DOMAIN Synthetic = 1..5
    /\ \A k \in 1..5 : Synthetic[k] \in Range(Synthetic) /\ Synthetic[k] \in File
                         /\ Synthetic[k] # "corpus"
    /\ \A f \in Range(Synthetic) : \E k \in 1..5 : f = Synthetic[k]
    /\ \A j, k \in 1..5 : Synthetic[j] = Synthetic[k] => j = k
    /\ "corpus" \in File /\ "corpus" \notin Range(Synthetic)
<1>1. Synthetic = <<"intent", "sentiment", "metrics", "card", "drift">>
  BY DEF Synthetic, Artifacts
<1>2. /\ Len(Synthetic) = 5 /\ DOMAIN Synthetic = 1..5
      /\ Synthetic[1] = "intent" /\ Synthetic[2] = "sentiment" /\ Synthetic[3] = "metrics"
      /\ Synthetic[4] = "card" /\ Synthetic[5] = "drift"
  BY <1>1
<1>3. \A k \in 1..5 : k = 1 \/ k = 2 \/ k = 3 \/ k = 4 \/ k = 5
  OBVIOUS
<1> QED
  BY <1>2, <1>3, FileNames DEF Synthetic, File, Fitted

\* What the invariant is good for.
LEMMA HonestInvImplies == HonestInv => EvaluationIsHonest
<1> SUFFICES ASSUME HonestInv, trained, track = "synthetic"
             PROVE  LET rows == disk["corpus"]
                    IN  /\ \A c \in Evaluated : Tested \cap Kept(disk[c].data) = {}
                        /\ \A i \in Labels(rows) : Cardinality(Own(rows, i)) > 1 =>
                             /\ \E t \in Tested : t[1] = i
                             /\ \A c \in Evaluated : \E t \in Kept(disk[c].data) : t[1] = i
                        /\ \A f \in Range(Artifacts.synthetic) : disk[f] = disk["intent"]
  BY DEF EvaluationIsHonest
<1>1. PICK n \in Nat : MadeOfCorpus(n, 5)
  BY DEF HonestInv
<1>2. disk["corpus"] \in Rows /\ Splittable(disk["corpus"])
  BY DEF HonestInv, Source
<1>3. \A f \in Range(Artifacts.synthetic) : disk[f] = Artifact(n, disk["corpus"])
  BY <1>1, SyntheticFiles DEF MadeOfCorpus, Synthetic
<1>4. \A c \in Evaluated : disk[c].data = disk["corpus"]
  BY <1>3, FileNames DEF Evaluated, Artifact
<1>5. Tested \cap Kept(disk["corpus"]) = {}
  BY DEF Tested, Kept
<1>6. ASSUME NEW i \in Labels(disk["corpus"]), Cardinality(Own(disk["corpus"], i)) > 1
      PROVE  /\ \E t \in Tested : t[1] = i
             /\ \E t \in Kept(disk["corpus"]) : t[1] = i
  BY <1>2, <1>6, BothSides DEF Tested
<1>7. \A f \in Range(Artifacts.synthetic) : disk[f] = disk["intent"]
  BY <1>3, FileNames
<1> QED
  BY <1>4, <1>5, <1>6, <1>7

\* A clone has not been trained on yet.
LEMMA HonestInit == TrainingInit => HonestInv
BY TypeInit DEF TrainingInit, HonestInv

\* What a step that leaves the files and the writes alone has to show.
LEMMA HonestQuiet ==
    ASSUME HonestInv, TypeInv', UNCHANGED <<disk, trained, track>>, todo' = todo \/ todo' = << >>
    PROVE  HonestInv'
BY DEF HonestInv, Source, UnderWay, Wrote, MadeOfCorpus

\* A command that has just started.
LEMMA HonestStart ==
    ASSUME HonestInv, TypeInv', Idle, UNCHANGED <<disk, trained, track>>,
           Generate \/ Train \/ TrainReal \/ \E answers \in [DOMAIN Csv -> Upstream] : Fetch(answers)
    PROVE  HonestInv'
<1>1. (trained /\ track = "synthetic" => Source /\ \E n \in Nat : MadeOfCorpus(n, 5))'
  BY DEF HonestInv, Source, MadeOfCorpus
<1>2. CASE Generate
  <2>1. todo'[1].file = "corpus"
    BY <1>2 DEF Generate, Run, Write
  <2> QED
    BY <1>1, <2>1, SyntheticFiles DEF HonestInv
<1>3. ASSUME NEW answers \in [DOMAIN Csv -> Upstream], Fetch(answers)
      PROVE  HonestInv'
  <2>1. todo'[1].file = "train.csv"
    BY <1>3 DEF Fetch, Run, Write, Csv
  <2> QED
    BY <1>1, <2>1, FileNames DEF HonestInv, Synthetic
<1>4. CASE Train \/ TrainReal
  <2>1. /\ todo' = [k \in DOMAIN Artifacts[track] |->
                      Write(Artifacts[track][k], Artifact(runs + 1, Data))]
        /\ runs \in Nat /\ DataFits /\ track \in {"synthetic", "real"}
    BY <1>4, TrainTodo, TrainsOnData, TrainingAssumption DEF HonestInv, TypeInv
  <2>2. CASE track = "synthetic"
    <3>1. /\ todo' = [k \in 1..5 |-> Write(Synthetic[k], Artifact(runs + 1, disk["corpus"]))]
          /\ Splittable(disk["corpus"]) /\ disk["corpus"] \in Rows
      BY <2>1, <2>2, FileNames, SyntheticFiles, DataType
         DEF Data, DataFits, CorpusFits, CacheFits, Synthetic, HonestInv
    <3>2. todo' \in Seq(Writes)
      BY DEF TypeInv, TodoOf
    <3>3. Len(todo') = 5
      BY <3>1, <3>2
    <3>4. UnderWay'
      <4>1. runs' = runs + 1 /\ runs' \in Nat /\ Len(todo') = 5 - 0 /\ 0 \in 0..4
        BY <1>4, <2>1, <3>3, TrainTodo DEF HonestInv
      <4>2. \A k \in 1..(5 - 0) :
               todo'[k] = Write(Synthetic[0 + k], Artifact(runs', disk'["corpus"]))
        BY <3>1, <4>1
      <4>3. MadeOfCorpus(runs, 0)'
        BY DEF MadeOfCorpus
      <4>4. Wrote(runs, 0)'
        BY <4>1, <4>2, <4>3 DEF Wrote
      <4>6. (\E n \in Nat, d \in 0..4 : Wrote(n, d))'
        BY <4>1, <4>4
      <4> QED
        BY <4>6 DEF UnderWay
    <3> QED
      BY <1>1, <3>1, <3>4 DEF HonestInv, Source
  <2>3. CASE track = "real"
    <3>1. todo'[1].file = "real_model"
      BY <2>1, <2>3, FileNames DEF Artifacts, Write
    <3> QED
      BY <1>1, <3>1, FileNames DEF HonestInv, Synthetic
  <2> QED
    BY <2>1, <2>2, <2>3
<1> QED
  BY <1>2, <1>3, <1>4

\* A command that writes another file than a synthetic artifact writes none of them.
LEMMA OtherFiles ==
    ASSUME TypeInv, EndWrite, Head(todo).file \notin Range(Synthetic)
    PROVE  /\ todo' # << >> => todo'[1].file \notin Range(Synthetic)
           /\ track = "synthetic" => Head(todo).file \notin Fitted
<1> DEFINE w == Head(todo)
<1>1. /\ w = todo[1] /\ todo # << >> /\ Len(todo) \in Nat \ {0}
      /\ todo' = IF Rejected(w) THEN << >> ELSE Tail(todo)
  BY EndWriteEffect
<1>2. /\ Len(Tail(todo)) = Len(todo) - 1
      /\ \A k \in 1..Len(Tail(todo)) : Tail(todo)[k] = todo[k + 1]
  BY <1>1, TodoTail DEF TypeInv
<1>3. PICK files \in {<<"corpus">>, Csv, Artifacts[track]} :
         \E d \in 0..Len(files) : Remaining(todo, files, d)
  BY DEF TypeInv, TodoOf
<1>4. PICK d \in 0..Len(files) : Remaining(todo, files, d)
  BY <1>3
<1>5. /\ files \in Seq(File) /\ Len(files) \in Nat /\ track \in {"synthetic", "real"}
      /\ DOMAIN files = 1..Len(files)
  BY Commands, LenProperties DEF TypeInv
<1>6. \A k \in 1..Len(todo) : todo[k].file \in Range(files)
  <2>1. \A k \in 1..Len(todo) : d + k \in 1..Len(files)
    BY <1>1, <1>4, <1>5 DEF Remaining
  <2> QED
    BY <1>4, <1>5, <2>1 DEF Remaining, Range
<1>7. w.file \in Range(files) /\ (todo' # << >> => todo'[1].file \in Range(files))
  <2>1. 1 \in 1..Len(todo)
    BY <1>1
  <2>2. todo' # << >> => todo' = Tail(todo) /\ 1 \in 1..Len(Tail(todo)) /\ 2 \in 1..Len(todo)
    BY <1>1, <1>2, EmptySeq, LenProperties, TodoTail DEF TypeInv, TodoOf
  <2> QED
    BY <1>1, <1>2, <1>6, <2>1, <2>2
<1>8. /\ Range(<<"corpus">>) = {"corpus"}
      /\ track = "synthetic" => Artifacts[track] = Synthetic
      /\ track = "real" => Artifacts[track] = Artifacts.real
  BY FileNames DEF Range, Synthetic
<1>9. Range(files) \cap Range(Synthetic) = {}
  BY <1>3, <1>5, <1>7, <1>8, FileNames DEF Synthetic
<1>10. track = "synthetic" => w.file \notin Fitted
  BY <1>3, <1>7, <1>8, <1>9, FileNames DEF Fitted, Synthetic
<1> QED
  BY <1>7, <1>9, <1>10

\* A step of the command under way.
LEMMA HonestWrite ==
    ASSUME HonestInv, TypeInv', BeginWrite \/ EndWrite
    PROVE  HonestInv'
<1> DEFINE w == Head(todo)
<1>0. TypeInv /\ UNCHANGED track
  BY DEF HonestInv, BeginWrite, EndWrite
<1>1. CASE BeginWrite
  <2>1. /\ w = todo[1] /\ todo # << >> /\ todo' = todo /\ trained' = FALSE
        /\ \A f \in File \ {w.file} : disk'[f] = disk[f]
    BY <1>0, <1>1, BeginWriteEffect DEF BeginWrite, Idle
  <2>2. ASSUME todo[1].file \in Range(Synthetic) PROVE Source' /\ UnderWay'
    <3>1. PICK n \in Nat : \E d \in 0..4 : Wrote(n, d)
      BY <2>1, <2>2 DEF HonestInv, UnderWay
    <3>2. PICK d \in 0..4 : Wrote(n, d)
      BY <3>1
    <3>3. w.file = Synthetic[d + 1] /\ d + 1 \in 1..5
      <4>1. 1 \in 1..(5 - d) /\ d + 1 \in 1..5
        BY <3>2
      <4> QED
        BY <2>1, <3>2, <4>1 DEF Wrote, Write
    <3>4. disk'["corpus"] = disk["corpus"]
      BY <2>1, <2>2, SyntheticFiles
    <3>5. ASSUME NEW k \in 1..d PROVE disk'[Synthetic[k]] = disk[Synthetic[k]]
      <4>1. k \in 1..5 /\ k # d + 1
        BY <3>2
      <4> QED
        BY <2>1, <3>3, <4>1, SyntheticFiles
    <3>6. MadeOfCorpus(n, d)'
      BY <3>2, <3>4, <3>5 DEF Wrote, MadeOfCorpus
    <3>7. Wrote(n, d)'
      BY <2>1, <3>2, <3>4, <3>6 DEF Wrote
    <3>8. Source'
      BY <2>1, <2>2, <3>4 DEF HonestInv, Source
    <3> QED
      BY <3>7, <3>8 DEF UnderWay
  <2> QED
    BY <2>1, <2>2 DEF HonestInv
<1>2. CASE EndWrite
  <2>1. /\ w = todo[1] /\ w.file \in File /\ todo # << >> /\ Len(todo) \in Nat \ {0}
        /\ \A f \in File \ {w.file} : disk'[f] = disk[f]
        /\ disk'[w.file] = w.value
        /\ todo' = IF Rejected(w) THEN << >> ELSE Tail(todo)
    BY <1>0, <1>2, EndWriteEffect
  <2>2. /\ Len(Tail(todo)) = Len(todo) - 1
        /\ \A k \in 1..Len(Tail(todo)) : Tail(todo)[k] = todo[k + 1]
    BY <1>0, <2>1, TodoTail DEF TypeInv
  <2>3. CASE w.file \in Range(Synthetic)
    <3>1. PICK n \in Nat : \E d \in 0..4 : Wrote(n, d)
      BY <2>1, <2>3 DEF HonestInv, UnderWay
    <3>2. PICK d \in 0..4 : Wrote(n, d)
      BY <3>1
    <3>3. /\ w.file = Synthetic[d + 1] /\ d + 1 \in 1..5
          /\ w.value = Artifact(n, disk["corpus"])
      <4>1. 1 \in 1..(5 - d) /\ d + 1 \in 1..5
        BY <3>2
      <4> QED
        BY <2>1, <3>2, <4>1 DEF Wrote, Write
    <3>4. disk'["corpus"] = disk["corpus"] /\ ~Rejected(w)
      BY <2>1, <2>3, SyntheticFiles, FileNames DEF Rejected, Synthetic
    <3>5. ASSUME NEW k \in 1..(d + 1)
          PROVE  disk'[Synthetic[k]] = Artifact(n, disk'["corpus"])
      <4>1. CASE k = d + 1
        BY <2>1, <3>3, <3>4, <4>1
      <4>2. CASE k # d + 1
        <5>1. k \in 1..5 /\ k \in 1..d
          BY <3>2, <4>2
        <5>2. disk'[Synthetic[k]] = disk[Synthetic[k]]
          BY <2>1, <3>3, <4>2, <5>1, SyntheticFiles
        <5> QED
          BY <3>2, <3>4, <5>1, <5>2 DEF Wrote, MadeOfCorpus
      <4> QED
        BY <4>1, <4>2
    <3>6. MadeOfCorpus(n, d + 1)'
      BY <3>5 DEF MadeOfCorpus
    <3>7. Source'
      BY <2>1, <2>3, <3>4 DEF HonestInv, Source
    <3>8. CASE d = 4
      <4>1. Len(todo) = 1
        BY <3>2, <3>8 DEF Wrote
      <4>2. todo' = << >>
        BY <1>0, <2>1, <2>2, <3>4, <4>1, EmptySeq, TodoTail DEF TypeInv, TodoOf
      <4> QED
        BY <3>6, <3>7, <3>8, <4>2 DEF HonestInv
    <3>9. CASE d # 4
      <4>1. d + 1 \in 0..4 /\ 5 - (d + 1) \in Nat
        BY <3>2, <3>9
      <4>2. Len(todo') = 5 - (d + 1) /\ Len(todo) # 1
        BY <2>1, <2>2, <3>2, <3>4, <3>9 DEF Wrote
      <4>3. ASSUME NEW k \in 1..(5 - (d + 1))
            PROVE  todo'[k] = Write(Synthetic[(d + 1) + k], Artifact(n, disk'["corpus"]))
        <5>1. k + 1 \in 1..(5 - d) /\ d + (k + 1) = (d + 1) + k
          BY <3>2, <4>3
        <5>2. todo'[k] = todo[k + 1]
          BY <2>1, <2>2, <3>4, <4>2, <4>3
        <5> QED
          BY <3>2, <3>4, <5>1, <5>2 DEF Wrote
      <4>4. Wrote(n, d + 1)'
        BY <3>6, <4>2, <4>3 DEF Wrote
      <4>5. UnderWay'
        BY <4>1, <4>4 DEF UnderWay
      <4>6. trained' = FALSE
        BY <1>2, <4>2 DEF EndWrite
      <4> QED
        BY <3>7, <4>5, <4>6 DEF HonestInv
    <3> QED
      BY <3>8, <3>9
  <2>4. CASE w.file \notin Range(Synthetic)
    <3>1. /\ todo' # << >> => todo'[1].file \notin Range(Synthetic)
          /\ track = "synthetic" => w.file \notin Fitted
      BY <1>0, <1>2, <2>4, OtherFiles
    <3>2. track = "synthetic" => trained' = FALSE
      BY <1>2, <3>1 DEF EndWrite
    <3> QED
      BY <1>0, <3>1, <3>2 DEF HonestInv
  <2> QED
    BY <2>3, <2>4
<1> QED
  BY <1>1, <1>2

\* Every command keeps the evaluation honest.
LEMMA HonestStep == HonestInv /\ [Command]_training => HonestInv'
<1> SUFFICES ASSUME HonestInv, [Command]_training PROVE HonestInv'
  OBVIOUS
<1>0. TypeInv'
  BY TypeStep DEF HonestInv
<1>1. CASE UNCHANGED training
  BY <1>0, <1>1, HonestQuiet
<1>2. ASSUME NEW r \in DOMAIN Written, EditTemplates(r) PROVE HonestInv'
  BY <1>0, <1>2, HonestQuiet DEF EditTemplates
<1>3. CASE CheckCorpus \/ CheckCache \/ Verify \/ VerifyReal
  <2>1. PICK check \in {"corpus", "cache", "classifiers"} : Pass(check)
    BY <1>3 DEF CheckCorpus, CheckCache, Verify, VerifyReal
  <2> QED
    BY <1>0, <2>1, HonestQuiet DEF Pass
<1>4. CASE Kill
  BY <1>0, <1>4, HonestQuiet DEF Kill
<1>5. CASE Generate \/ Train \/ TrainReal \/ \E answers \in [DOMAIN Csv -> Upstream] : Fetch(answers)
  <2>1. Idle /\ UNCHANGED <<disk, trained, track>>
    BY <1>5, TrainsOnData DEF Generate, TrainOn, Fetch, Run
  <2> QED
    BY <1>0, <1>5, <2>1, HonestStart
<1>6. CASE BeginWrite \/ EndWrite
  BY <1>0, <1>6, HonestWrite
<1> QED
  BY <1>1, <1>2, <1>3, <1>4, <1>5, <1>6 DEF Command

\* After a training run that ended, with nothing written since, the evaluation asks
\* about templates that the classifiers have never seen, and every intent with two
\* templates of its own was learned and is tested: for every corpus of any size.
THEOREM EvaluationHonest == TrainingSpec => []EvaluationIsHonest
BY HonestInit, HonestStep, HonestInvImplies, PTL DEF TrainingSpec
=============================================================================
