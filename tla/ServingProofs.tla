---------------------------- MODULE ServingProofs ----------------------------
(***************************************************************************)
(* Proofs about Serving: for any number of threads, training runs, kills    *)
(* and restarts of the service.                                             *)
(***************************************************************************)
EXTENDS Serving, TrainingProofs

USE DEF training, process, vars
-----------------------------------------------------------------------------
(* What training promises, it promises beside a service.                    *)

\* No step of the service writes a file.
LEMMA ServiceOnlyReads ==
    /\ Init => TrainingInit
    /\ [Next]_vars => [Command]_training
BY DEF Init, Next, Boot, Stop, Ask, AskMissing, AskPresent, Proceed, ReadTorn, ReadNext, ReadLast

\* Whatever the service does meanwhile, approved data is the official data.
THEOREM ServingApproved == Spec => []ApprovedDataIsOfficial
<1>1. ApprovedInv => ApprovedDataIsOfficial
  BY DEF ApprovedInv
<1> QED
  BY <1>1, ServiceOnlyReads, ApprovedInit, ApprovedStep, PTL DEF Spec

\* Whatever the service does meanwhile, the evaluation stays honest.
THEOREM ServingHonest == Spec => []EvaluationIsHonest
BY ServiceOnlyReads, HonestInit, HonestStep, HonestInvImplies, PTL DEF Spec
-----------------------------------------------------------------------------
(* Types.                                                                   *)

ServingTypeInv ==
    /\ TypeInv
    /\ up \in BOOLEAN
    /\ reference \in {Absent} \cup Values("drift")
    /\ cache \in Models
    /\ pc \in [Workers -> {"idle", "metrics", "intent", "sentiment"}]
    /\ got \in [Workers -> Models]

\* What the service reads are artifacts of the synthetic track.
LEMMA LoadedFiles ==
    /\ Loaded \subseteq Range(Synthetic) /\ Evaluated \subseteq Loaded /\ Loaded \subseteq File
    /\ "metrics" \in Loaded /\ "intent" \in Loaded /\ "sentiment" \in Loaded /\ "drift" \in File
    /\ "drift" \in Range(Synthetic)
    /\ \A f \in Range(Synthetic) : Values(f) = Values("intent")
BY FileNames, ValuesAre DEF Loaded, Evaluated, Synthetic, File, Fitted

\* Nothing loaded is an array of models, too.
LEMMA NoModelsType == NoModels \in Models
BY DEF NoModels, Models

\* A file that is not torn is missing or has its value.
LEMMA NotTorn ==
    ASSUME TypeInv, NEW f \in Range(Synthetic), disk[f] # Torn
    PROVE  disk[f] \in {Absent} \cup Values("intent")
<1>1. f \in File
  BY FileNames DEF Synthetic, File, Fitted
<1> QED
  BY <1>1, LoadedFiles DEF TypeInv

\* The process starts with nothing.
LEMMA ServingTypeInit == Init => ServingTypeInv
BY TypeInit, NoModelsType DEF Init, ServingTypeInv

\* Every step of the service keeps the types.
LEMMA ServingTypeStep == ServingTypeInv /\ [Next]_vars => ServingTypeInv'
<1> SUFFICES ASSUME ServingTypeInv, [Next]_vars PROVE ServingTypeInv'
  OBVIOUS
<1>0. TypeInv /\ TypeInv'
  BY TypeStep, ServiceOnlyReads DEF ServingTypeInv
<1>1. CASE UNCHANGED process
  BY <1>0, <1>1 DEF ServingTypeInv, Models
<1>2. CASE Boot
  BY <1>0, <1>2, LoadedFiles, NotTorn DEF Boot, ServingTypeInv, Models
<1>3. CASE Stop
  BY <1>0, <1>3, NoModelsType DEF Stop, ServingTypeInv, Models
<1>4. ASSUME NEW w \in Workers, AskPresent(w) PROVE ServingTypeInv'
  BY <1>0, <1>4 DEF AskPresent, ServingTypeInv, Models
<1>5. ASSUME NEW w \in Workers, ReadTorn(w) PROVE ServingTypeInv'
  BY <1>0, <1>5, NoModelsType DEF ReadTorn, ServingTypeInv, Models
<1>6. ASSUME NEW w \in Workers, ReadNext(w) PROVE ServingTypeInv'
  <2>1. /\ pc[w] \in Loaded /\ pc[w] \in Range(Synthetic)
        /\ Follows[pc[w]] \in {"intent", "sentiment"}
    BY <1>6, LoadedFiles DEF ReadNext, Follows
  <2>2. disk[pc[w]] \in {Absent} \cup Values("intent")
    BY <1>0, <1>6, <2>1, NotTorn DEF ReadNext
  <2> QED
    BY <1>0, <1>6, <2>1, <2>2 DEF ReadNext, ServingTypeInv, Models
<1>7. ASSUME NEW w \in Workers, ReadLast(w) PROVE ServingTypeInv'
  <2>1. disk["sentiment"] \in {Absent} \cup Values("intent")
    BY <1>0, <1>7, LoadedFiles, NotTorn DEF ReadLast
  <2>2. [got[w] EXCEPT !["sentiment"] = disk["sentiment"]] \in Models
    BY <2>1, <1>7 DEF ServingTypeInv, Models
  <2> QED
    BY <1>0, <1>7, <2>2, NoModelsType DEF ReadLast, ServingTypeInv
<1>8. ASSUME NEW w \in Workers, AskMissing(w) PROVE ServingTypeInv'
  BY <1>1, <1>8 DEF AskMissing
<1> QED
  BY <1>1, <1>2, <1>3, <1>4, <1>5, <1>6, <1>7, <1>8 DEF Next, Ask, Proceed

\* The service reads what the scripts write, and its threads stand at one of the files
\* that load_artifacts opens.
THEOREM ServingTypeCorrect == Spec => []TypeOK
<1>1. ServingTypeInv => TypeOK
  BY TypeInvImplies DEF ServingTypeInv, TypeOK
<1> QED
  BY <1>1, ServingTypeInit, ServingTypeStep, PTL DEF Spec
-----------------------------------------------------------------------------
(* The order of the files.                                                  *)

\* Files of runs written in this order, the latest first.
Ordered ==
    \A j, k \in 1..5 :
        j < k /\ Readable(Synthetic[j]) /\ Readable(Synthetic[k]) =>
            disk[Synthetic[k]].run <= disk[Synthetic[j]].run

\* The first d files of the newest run are there, the others are still to be written.
Halfway(d) ==
    /\ Len(todo) = 5 - d
    /\ \A k \in 1..(5 - d) : todo[k].file = Synthetic[d + k] /\ todo[k].value.run = runs
    /\ \A j \in 1..d : Readable(Synthetic[j]) /\ disk[Synthetic[j]].run = runs

(***************************************************************************)
(* Of the artifacts on disk, one that is written later is not newer; a run  *)
(* that is under way is the newest.                                         *)
(***************************************************************************)
OrderInv ==
    /\ TypeInv
    /\ \A f \in Range(Synthetic) : Readable(f) => disk[f].run <= runs
    /\ Ordered
    /\ todo # << >> /\ todo[1].file \in Range(Synthetic) => \E d \in 0..4 : Halfway(d)

\* A readable artifact has the number of a run.
LEMMA RunsAreNumbers ==
    ASSUME TypeInv, NEW f \in Range(Synthetic), Readable(f)
    PROVE  disk[f].run \in 1..MaxRuns /\ disk[f].run \in Nat /\ runs \in Nat
<1>1. disk[f] \in Values("intent")
  BY NotTorn DEF Readable
<1>2. Values("intent") = [run : 1..MaxRuns, data : Rows]
  BY ValuesAre, FileNames
<1>3. runs \in 1..MaxRuns /\ MaxRuns \in Nat
  BY TrainingAssumption DEF TypeInv
<1>4. disk[f] \in [run : 1..MaxRuns, data : Rows]
  BY <1>1, <1>2
<1> QED
  BY <1>3, <1>4

\* All artifacts of a clone are of the first run.
LEMMA OrderInit == TrainingInit => OrderInv
<1> SUFFICES ASSUME TrainingInit PROVE OrderInv
  OBVIOUS
<1>1. TypeInv /\ runs = 1 /\ todo = << >>
  BY TypeInit DEF TrainingInit
<1>2. ASSUME NEW f \in Range(Synthetic), Readable(f) PROVE disk[f].run = 1
  <2>1. f \in File /\ Committed(f) = Artifact(1, Written[1])
    BY FileNames DEF Synthetic, File, Fitted, Committed
  <2>2. disk[f] = Committed(f)
    BY <1>2, <2>1 DEF TrainingInit, Readable
  <2> QED
    BY <2>1, <2>2 DEF Artifact
<1>3. Ordered
  BY <1>2, SyntheticFiles DEF Ordered
<1> QED
  BY <1>1, <1>2, <1>3 DEF OrderInv

\* What a step that leaves the files and the writes alone has to show.
LEMMA OrderQuiet ==
    ASSUME OrderInv, TypeInv', UNCHANGED <<disk, runs>>, todo' = todo \/ todo' = << >>
    PROVE  OrderInv'
<1>1. Ordered'
  BY DEF OrderInv, Ordered, Readable
<1>2. \A d \in 0..4 : Halfway(d) /\ todo' = todo => Halfway(d)'
  BY DEF Halfway, Readable
<1>3. \A f \in Range(Synthetic) : Readable(f)' => disk'[f].run <= runs'
  BY DEF OrderInv, Readable
<1>4. CASE todo' = << >>
  BY <1>1, <1>3, <1>4 DEF OrderInv
<1>5. CASE todo' = todo
  BY <1>1, <1>2, <1>3, <1>5 DEF OrderInv
<1> QED
  BY <1>4, <1>5

\* A command that has just started.
LEMMA OrderStart ==
    ASSUME OrderInv, TypeInv', Idle, UNCHANGED disk,
           Generate \/ Train \/ TrainReal \/ \E answers \in [DOMAIN Csv -> Upstream] : Fetch(answers)
    PROVE  OrderInv' /\ (runs' = runs \/ runs' = runs + 1)
<1>1. Ordered'
  BY DEF OrderInv, Ordered, Readable
<1>2. CASE Generate
  <2>1. todo'[1].file = "corpus" /\ runs' = runs
    BY <1>2 DEF Generate, Run, Write
  <2> QED
    BY <1>1, <2>1, SyntheticFiles DEF OrderInv, Readable
<1>3. ASSUME NEW answers \in [DOMAIN Csv -> Upstream], Fetch(answers)
      PROVE  OrderInv' /\ runs' = runs
  <2>1. todo'[1].file = "train.csv" /\ runs' = runs
    BY <1>3 DEF Fetch, Run, Write, Csv
  <2> QED
    BY <1>1, <2>1, FileNames DEF OrderInv, Readable, Synthetic
<1>4. CASE Train \/ TrainReal
  <2>1. /\ todo' = [k \in DOMAIN Artifacts[track] |->
                      Write(Artifacts[track][k], Artifact(runs + 1, Data))]
        /\ runs' = runs + 1 /\ runs \in Nat /\ track \in {"synthetic", "real"}
    BY <1>4, TrainTodo, TrainingAssumption DEF OrderInv, TypeInv
  <2>2. \A f \in Range(Synthetic) : Readable(f)' => disk'[f].run <= runs'
    <3>1. ASSUME NEW f \in Range(Synthetic), Readable(f)
          PROVE  disk[f].run <= runs + 1
      <4>1. disk[f].run \in Nat /\ disk[f].run <= runs
        BY <3>1, RunsAreNumbers DEF OrderInv
      <4> QED
        BY <2>1, <4>1
    <3> QED
      BY <2>1, <3>1 DEF Readable
  <2>3. CASE track = "synthetic"
    <3>1. todo' = [k \in 1..5 |-> Write(Synthetic[k], Artifact(runs + 1, Data))]
      BY <2>1, <2>3, FileNames, SyntheticFiles DEF Synthetic
    <3>2. todo' \in Seq(Writes)
      BY DEF TypeInv, TodoOf
    <3>3. Len(todo') = 5
      BY <3>1, <3>2
    <3>4. Halfway(0)'
      <4>1. \A k \in 1..5 : todo'[k].file = Synthetic[k] /\ todo'[k].value.run = runs'
        BY <2>1, <3>1 DEF Write, Artifact
      <4> QED
        BY <3>3, <4>1 DEF Halfway
    <3> QED
      BY <1>1, <2>1, <2>2, <3>4 DEF OrderInv
  <2>4. CASE track = "real"
    <3>1. todo'[1].file = "real_model"
      BY <2>1, <2>4, FileNames DEF Artifacts, Write
    <3> QED
      BY <1>1, <2>1, <2>2, <3>1, FileNames DEF OrderInv, Synthetic
  <2> QED
    BY <2>1, <2>3, <2>4
<1> QED
  BY <1>2, <1>3, <1>4

(***************************************************************************)
(* A step of the command under way: one file of the artifacts changes, and  *)
(* is torn then, or of the newest run.                                      *)
(***************************************************************************)
LEMMA OrderWrite ==
    ASSUME OrderInv, TypeInv', BeginWrite \/ EndWrite
    PROVE  /\ OrderInv' /\ runs' = runs
           /\ \A f \in Range(Synthetic) :
                 \/ disk'[f] = disk[f]
                 \/ disk'[f] = Torn
                 \/ Readable(f)' /\ disk'[f].run = runs
<1> DEFINE w == Head(todo)
<1>0. TypeInv /\ runs' = runs
  BY DEF OrderInv, BeginWrite, EndWrite
<1>1. CASE BeginWrite
  <2>1. /\ w = todo[1] /\ todo # << >> /\ todo' = todo
        /\ \A f \in File \ {w.file} : disk'[f] = disk[f]
        /\ w.file # "corpus" => disk'[w.file] = Torn
    BY <1>0, <1>1, BeginWriteEffect DEF BeginWrite, Idle
  <2>2. \A f \in Range(Synthetic) :
           /\ disk'[f] = disk[f] \/ disk'[f] = Torn
           /\ Readable(f)' => Readable(f) /\ disk'[f] = disk[f]
    BY <2>1, FileNames DEF Readable, Synthetic, File, Fitted
  <2>3. Ordered'
    BY <2>2, SyntheticFiles DEF OrderInv, Ordered
  <2>4. ASSUME todo[1].file \in Range(Synthetic) PROVE \E d \in 0..4 : Halfway(d)'
    <3>1. PICK d \in 0..4 : Halfway(d)
      BY <2>1, <2>4 DEF OrderInv
    <3>2. w.file = Synthetic[d + 1] /\ d + 1 \in 1..5
      <4>1. 1 \in 1..(5 - d) /\ d + 1 \in 1..5
        BY <3>1
      <4> QED
        BY <2>1, <3>1, <4>1 DEF Halfway
    <3>3. ASSUME NEW j \in 1..d PROVE Readable(Synthetic[j])' /\ disk'[Synthetic[j]].run = runs
      <4>1. j \in 1..5 /\ j # d + 1
        BY <3>1
      <4>2. disk'[Synthetic[j]] = disk[Synthetic[j]]
        BY <2>1, <3>2, <4>1, SyntheticFiles
      <4> QED
        BY <3>1, <4>2 DEF Halfway, Readable
    <3>4. Halfway(d)'
      BY <1>0, <2>1, <3>1, <3>3 DEF Halfway
    <3> QED
      BY <3>4
  <2> QED
    BY <1>0, <2>1, <2>2, <2>3, <2>4 DEF OrderInv
<1>2. CASE EndWrite
  <2>1. /\ w = todo[1] /\ w.file \in File /\ todo # << >> /\ Len(todo) \in Nat \ {0}
        /\ \A f \in File \ {w.file} : disk'[f] = disk[f]
        /\ disk'[w.file] = w.value /\ w.value \in Values(w.file)
        /\ todo' = IF Rejected(w) THEN << >> ELSE Tail(todo)
    BY <1>0, <1>2, EndWriteEffect
  <2>2. /\ Len(Tail(todo)) = Len(todo) - 1
        /\ \A k \in 1..Len(Tail(todo)) : Tail(todo)[k] = todo[k + 1]
    BY <1>0, <2>1, TodoTail DEF TypeInv
  <2>3. CASE w.file \in Range(Synthetic)
    <3>1. PICK d \in 0..4 : Halfway(d)
      BY <2>1, <2>3 DEF OrderInv
    <3>2. w.file = Synthetic[d + 1] /\ d + 1 \in 1..5 /\ w.value.run = runs
      <4>1. 1 \in 1..(5 - d) /\ d + 1 \in 1..5
        BY <3>1
      <4> QED
        BY <2>1, <3>1, <4>1 DEF Halfway
    <3>3. ~Rejected(w) /\ disk'[w.file] \notin {Absent, Torn}
      <4>1. w.file \notin Range(Csv)
        BY <2>3, FileNames DEF Synthetic
      <4> QED
        BY <2>1, <4>1, ValuesAreReadable DEF Rejected
    <3>4. \A f \in Range(Synthetic) :
             \/ f # w.file /\ disk'[f] = disk[f]
             \/ f = w.file /\ Readable(f)' /\ disk'[f].run = runs
      <4>1. Range(Synthetic) \subseteq File
        BY FileNames DEF Synthetic, File, Fitted
      <4> QED
        BY <2>1, <3>2, <3>3, <4>1 DEF Readable
    <3>5. \A f \in Range(Synthetic) : Readable(f)' =>
             /\ disk'[f].run <= runs
             /\ f # w.file => Readable(f) /\ disk'[f] = disk[f]
      BY <1>0, <3>4, RunsAreNumbers, TrainingAssumption DEF OrderInv, TypeInv, Readable
    <3>6. ASSUME NEW j \in 1..d
          PROVE  Readable(Synthetic[j])' /\ disk'[Synthetic[j]].run = runs
      <4>1. j \in 1..5 /\ j # d + 1
        BY <3>1
      <4>2. disk'[Synthetic[j]] = disk[Synthetic[j]]
        BY <2>1, <3>2, <4>1, SyntheticFiles
      <4> QED
        BY <3>1, <4>2 DEF Halfway, Readable
    <3>7. Ordered'
      <4>1. SUFFICES ASSUME NEW j \in 1..5, NEW k \in 1..5, j < k,
                            Readable(Synthetic[j])', Readable(Synthetic[k])'
                     PROVE  disk'[Synthetic[k]].run <= disk'[Synthetic[j]].run
        BY DEF Ordered
      <4>2. /\ Synthetic[j] \in Range(Synthetic) /\ Synthetic[k] \in Range(Synthetic)
            /\ disk'[Synthetic[k]].run <= runs
        BY <3>5, <4>1, SyntheticFiles
      <4>3. CASE j \in 1..(d + 1)
        <5>1. disk'[Synthetic[j]].run = runs
          <6>1. j = d + 1 \/ j \in 1..d
            BY <3>1, <4>3
          <6> QED
            BY <2>1, <3>2, <3>6, <6>1
        <5> QED
          BY <4>2, <5>1
      <4>4. CASE j \notin 1..(d + 1)
        <5>1. j # d + 1 /\ k # d + 1
          BY <3>1, <4>1, <4>4
        <5>2. Synthetic[j] # w.file /\ Synthetic[k] # w.file
          BY <3>2, <5>1, SyntheticFiles
        <5>3. /\ Readable(Synthetic[j]) /\ disk'[Synthetic[j]] = disk[Synthetic[j]]
              /\ Readable(Synthetic[k]) /\ disk'[Synthetic[k]] = disk[Synthetic[k]]
          BY <3>5, <4>1, <4>2, <5>2
        <5> QED
          BY <4>1, <5>3 DEF OrderInv, Ordered
      <4> QED
        BY <4>3, <4>4
    <3>8. CASE d = 4
      <4>1. Len(todo) = 1
        BY <3>1, <3>8 DEF Halfway
      <4>2. todo' = << >>
        BY <1>0, <2>1, <2>2, <3>3, <4>1, EmptySeq, TodoTail DEF TypeInv, TodoOf
      <4> QED
        BY <1>0, <3>4, <3>5, <3>7, <4>2 DEF OrderInv
    <3>9. CASE d # 4
      <4>1. d + 1 \in 0..4
        BY <3>1, <3>9
      <4>2. Len(todo') = 5 - (d + 1)
        BY <2>1, <2>2, <3>1, <3>3 DEF Halfway
      <4>3. ASSUME NEW k \in 1..(5 - (d + 1))
            PROVE  todo'[k].file = Synthetic[(d + 1) + k] /\ todo'[k].value.run = runs
        <5>1. k + 1 \in 1..(5 - d) /\ d + (k + 1) = (d + 1) + k
          BY <3>1, <4>3
        <5>2. todo'[k] = todo[k + 1]
          BY <2>1, <2>2, <3>3, <4>2, <4>3
        <5> QED
          BY <3>1, <5>1, <5>2 DEF Halfway
      <4>4. \A j \in 1..(d + 1) : Readable(Synthetic[j])' /\ disk'[Synthetic[j]].run = runs
        <5>1. \A j \in 1..(d + 1) : j \in 1..d \/ j = d + 1
          BY <3>1
        <5>2. Readable(Synthetic[d + 1])' /\ disk'[Synthetic[d + 1]].run = runs
          BY <2>1, <3>2, <3>3 DEF Readable
        <5> QED
          BY <3>6, <5>1, <5>2
      <4>5. Halfway(d + 1)'
        BY <1>0, <4>2, <4>3, <4>4 DEF Halfway
      <4> QED
        BY <1>0, <3>4, <3>5, <3>7, <4>1, <4>5 DEF OrderInv
    <3> QED
      BY <3>8, <3>9
  <2>4. CASE w.file \notin Range(Synthetic)
    <3>1. \A f \in Range(Synthetic) : disk'[f] = disk[f] /\ (Readable(f)' <=> Readable(f))
      BY <2>1, <2>4, FileNames DEF Readable, Synthetic, File, Fitted
    <3>2. Ordered'
      BY <3>1, SyntheticFiles DEF OrderInv, Ordered
    <3>3. todo' # << >> => todo'[1].file \notin Range(Synthetic)
      BY <1>0, <1>2, <2>4, OtherFiles
    <3> QED
      BY <1>0, <3>1, <3>2, <3>3 DEF OrderInv
  <2> QED
    BY <2>3, <2>4
<1> QED
  BY <1>1, <1>2

\* Every command keeps the order, and a run is never numbered lower than one before it.
LEMMA OrderStep ==
    ASSUME OrderInv, [Command]_training
    PROVE  /\ OrderInv' /\ runs \in Nat /\ runs' \in Nat /\ runs <= runs'
           /\ \A f \in Range(Synthetic) :
                 \/ disk'[f] = disk[f]
                 \/ disk'[f] = Torn
                 \/ Readable(f)' /\ disk'[f].run = runs
<1>0. TypeInv' /\ runs \in Nat /\ runs' \in Nat
  BY TypeStep, TrainingAssumption DEF OrderInv, TypeInv
<1>1. CASE UNCHANGED training
  BY <1>0, <1>1, OrderQuiet
<1>2. ASSUME NEW r \in DOMAIN Written, EditTemplates(r)
      PROVE  OrderInv' /\ UNCHANGED <<disk, runs>>
  BY <1>0, <1>2, OrderQuiet DEF EditTemplates
<1>3. CASE CheckCorpus \/ CheckCache \/ Verify \/ VerifyReal
  <2>1. PICK check \in {"corpus", "cache", "classifiers"} : Pass(check)
    BY <1>3 DEF CheckCorpus, CheckCache, Verify, VerifyReal
  <2> QED
    BY <1>0, <2>1, OrderQuiet DEF Pass
<1>4. CASE Kill
  BY <1>0, <1>4, OrderQuiet DEF Kill
<1>5. CASE Generate \/ Train \/ TrainReal \/ \E answers \in [DOMAIN Csv -> Upstream] : Fetch(answers)
  <2>1. Idle /\ UNCHANGED disk
    BY <1>5, TrainsOnData DEF Generate, TrainOn, Fetch, Run
  <2>2. OrderInv' /\ (runs' = runs \/ runs' = runs + 1)
    BY <1>0, <1>5, <2>1, OrderStart
  <2> QED
    BY <1>0, <2>1, <2>2
<1>6. CASE BeginWrite \/ EndWrite
  BY <1>0, <1>6, OrderWrite
<1> QED
  BY <1>0, <1>1, <1>2, <1>3, <1>4, <1>5, <1>6 DEF Command
-----------------------------------------------------------------------------
(* The identity of what is served.                                          *)

\* No file of F that can be read is older than run r, and none will be.
Below(r, F) ==
    /\ r \in Nat /\ r <= runs
    /\ \A f \in F : Readable(f) => r <= disk[f].run

\* That stays so, whatever is trained, killed or torn.
LEMMA BelowStays ==
    ASSUME OrderInv, [Command]_training, NEW r, NEW F \in SUBSET Range(Synthetic), Below(r, F)
    PROVE  Below(r, F)'
<1>0. r \in Nat /\ r <= runs
  BY DEF Below
<1>1. /\ runs \in Nat /\ runs' \in Nat /\ runs <= runs'
      /\ \A f \in Range(Synthetic) :
            \/ disk'[f] = disk[f]
            \/ disk'[f] = Torn
            \/ Readable(f)' /\ disk'[f].run = runs
  BY OrderStep
<1>2. ASSUME NEW f \in F, Readable(f)' PROVE r <= disk'[f].run
  <2>1. disk'[f] # Torn
    BY <1>2 DEF Readable
  <2>2. CASE disk'[f] = disk[f]
    BY <1>2, <2>2 DEF Below, Readable
  <2>3. CASE disk'[f].run = runs
    BY <1>0, <1>1, <2>3
  <2> QED
    BY <1>1, <2>1, <2>2, <2>3
<1> QED
  BY <1>0, <1>1, <1>2 DEF Below

\* A thread that has read the metrics, and one that has read a classifier, too.
ReadMetrics(m) ==
    /\ m # Absent
    /\ RunOf(reference) <= RunOf(m)
    /\ Below(RunOf(m), Evaluated)

ReadIntent(m, i) == i # Absent /\ RunOf(m) <= RunOf(i)

(***************************************************************************)
(* The strengthening: the reference is no newer than what may be read from  *)
(* now on, what a thread has read is no newer than what it has yet to read, *)
(* and a file that is there does not go away.                               *)
(***************************************************************************)
IdentityInv ==
    /\ ServingTypeInv
    /\ OrderInv
    /\ IdentityNeverAhead
    /\ Below(RunOf(reference), Loaded)
    /\ ~up => reference = Absent /\ cache = NoModels /\ \A w \in Workers : pc[w] = "idle"
    /\ \A w \in Workers :
         /\ pc[w] # "idle" => \A f \in Loaded : disk[f] # Absent
         /\ pc[w] \in {"intent", "sentiment"} => ReadMetrics(got[w]["metrics"])
         /\ pc[w] = "sentiment" => ReadIntent(got[w]["metrics"], got[w]["intent"])

\* The process starts with nothing.
LEMMA IdentityInit == Init => IdentityInv
<1> SUFFICES ASSUME Init PROVE IdentityInv
  OBVIOUS
<1>1. ServingTypeInv /\ OrderInv /\ reference = Absent /\ cache = NoModels
  BY ServingTypeInit, ServiceOnlyReads, OrderInit DEF Init
<1>2. RunOf(reference) = 0 /\ runs \in Nat
  BY <1>1, TrainingAssumption DEF RunOf, OrderInv, TypeInv
<1>3. Below(RunOf(reference), Loaded)
  <2>1. \A f \in Loaded : Readable(f) => disk[f].run \in Nat
    BY <1>1, LoadedFiles, RunsAreNumbers DEF OrderInv
  <2> QED
    BY <1>2, <2>1 DEF Below
<1> QED
  BY <1>1, <1>3 DEF IdentityInv, IdentityNeverAhead, Init

\* A command beside the service.
LEMMA IdentityCommand ==
    ASSUME IdentityInv, [Command]_training, UNCHANGED process, ServingTypeInv'
    PROVE  IdentityInv'
<1>1. OrderInv' /\ IdentityNeverAhead'
  BY OrderStep DEF IdentityInv, IdentityNeverAhead
<1>2. /\ Loaded \in SUBSET Range(Synthetic) /\ Evaluated \in SUBSET Range(Synthetic)
  BY LoadedFiles
<1>3. \A r : Below(r, Loaded) => Below(r, Loaded)'
  BY <1>2, BelowStays DEF IdentityInv
<1>4. \A r : Below(r, Evaluated) => Below(r, Evaluated)'
  BY <1>2, BelowStays DEF IdentityInv
<1>5. Below(RunOf(reference), Loaded)'
  BY <1>3 DEF IdentityInv
<1>6. \A f \in Loaded : disk[f] # Absent => disk'[f] # Absent
  <2>1. Torn # Absent
    BY TrainingAssumption
  <2> QED
    BY <1>2, <2>1, OrderStep DEF IdentityInv, Readable
<1>7. ASSUME NEW w \in Workers, pc[w] \in {"intent", "sentiment"}
      PROVE  ReadMetrics(got[w]["metrics"])'
  BY <1>4, <1>7 DEF IdentityInv, ReadMetrics
<1> QED
  BY <1>1, <1>5, <1>6, <1>7 DEF IdentityInv, ReadIntent

\* The process starts and stops.
LEMMA IdentityProcess ==
    ASSUME IdentityInv, Boot \/ Stop, ServingTypeInv'
    PROVE  IdentityInv'
<1>0. UNCHANGED training /\ TypeInv /\ OrderInv
  BY DEF Boot, Stop, IdentityInv, ServingTypeInv
<1>1. OrderInv'
  BY <1>0, OrderStep
<1>2. CASE Boot
  <2>1. Below(RunOf(disk["drift"]), Loaded)
    <3>1. \A f \in Loaded : Readable(f) => disk[f].run \in Nat
      BY <1>0, LoadedFiles, RunsAreNumbers
    <3>2. CASE disk["drift"] = Absent
      BY <1>0, <3>1, <3>2, TrainingAssumption DEF Below, RunOf, TypeInv
    <3>3. CASE disk["drift"] # Absent
      <4>1. Readable("drift")
        BY <1>2, <3>3 DEF Boot, Readable
      <4>2. RunOf(disk["drift"]) = disk["drift"].run /\ disk["drift"].run \in Nat
        BY <1>0, <3>3, <4>1, LoadedFiles, RunsAreNumbers DEF RunOf
      <4>3. /\ Synthetic[5] = "drift" /\ Synthetic[1] = "intent"
            /\ Synthetic[2] = "sentiment" /\ Synthetic[3] = "metrics"
        BY DEF Synthetic, Artifacts
      <4>4. \A f \in Loaded : Readable(f) => disk["drift"].run <= disk[f].run
        BY <1>0, <4>1, <4>3 DEF OrderInv, Ordered, Loaded
      <4>5. disk["drift"].run <= runs
        BY <1>0, <4>1, LoadedFiles DEF OrderInv
      <4> QED
        BY <4>2, <4>4, <4>5 DEF Below
    <3> QED
      BY <3>2, <3>3
  <2>2. Below(RunOf(reference), Loaded)'
    BY <1>0, <1>2, <2>1 DEF Boot, Below, Readable, RunOf
  <2>3. cache' = NoModels /\ \A w \in Workers : pc'[w] = "idle"
    BY <1>2 DEF Boot, IdentityInv
  <2> QED
    BY <1>1, <1>2, <2>2, <2>3 DEF Boot, IdentityInv, IdentityNeverAhead
<1>3. CASE Stop
  <2>1. reference' = Absent /\ cache' = NoModels /\ \A w \in Workers : pc'[w] = "idle"
    BY <1>3 DEF Stop
  <2>2. Below(RunOf(reference), Loaded)'
    <3>1. \A f \in Loaded : Readable(f) => disk[f].run \in Nat
      BY <1>0, LoadedFiles, RunsAreNumbers
    <3> QED
      BY <1>0, <2>1, <3>1, TrainingAssumption DEF Below, RunOf, TypeInv, Readable
  <2> QED
    BY <1>1, <1>3, <2>1, <2>2 DEF Stop, IdentityInv, IdentityNeverAhead
<1> QED
  BY <1>2, <1>3

\* A thread loads the artifacts.
LEMMA IdentityLoad ==
    ASSUME IdentityInv, NEW w \in Workers, AskPresent(w) \/ Proceed(w), ServingTypeInv'
    PROVE  IdentityInv'
<1>0. UNCHANGED training /\ up' = up /\ reference' = reference /\ TypeInv /\ OrderInv
  BY DEF AskPresent, Proceed, ReadTorn, ReadNext, ReadLast, IdentityInv, ServingTypeInv
<1>1. OrderInv'
  BY <1>0, OrderStep
<1>2. Below(RunOf(reference), Loaded)'
  BY <1>0 DEF IdentityInv, Below, Readable, RunOf
<1>3. up
  BY DEF AskPresent, Asks, Proceed, ReadTorn, ReadNext, ReadLast, IdentityInv
<1>4. \A m : ReadMetrics(m) => ReadMetrics(m)'
  BY <1>0 DEF ReadMetrics, Below, RunOf, Readable
<1> DEFINE Fits(v) ==
             /\ pc[v] # "idle" => \A f \in Loaded : disk[f] # Absent
             /\ pc[v] \in {"intent", "sentiment"} => ReadMetrics(got[v]["metrics"])
             /\ pc[v] = "sentiment" => ReadIntent(got[v]["metrics"], got[v]["intent"])
<1>5. \A v \in Workers : Fits(v)
  BY DEF IdentityInv
<1>6. ASSUME NEW v \in Workers, v # w PROVE Fits(v)'
  <2>1. pc'[v] = pc[v] /\ got'[v] = got[v]
    BY <1>6 DEF AskPresent, Proceed, ReadTorn, ReadNext, ReadLast, ServingTypeInv, IdentityInv
  <2> QED
    BY <1>0, <1>4, <1>5, <2>1 DEF ReadIntent, RunOf
<1>7. pc' \in [Workers -> {"idle", "metrics", "intent", "sentiment"}] /\ got' \in [Workers -> Models]
  BY DEF ServingTypeInv
<1>8. CASE AskPresent(w)
  <2>1. pc'[w] = "metrics" /\ cache' = cache /\ \A f \in Loaded : disk[f] # Absent
    BY <1>8 DEF AskPresent, IdentityInv, ServingTypeInv
  <2>2. Fits(w)'
    BY <1>0, <2>1
  <2> QED
    BY <1>0, <1>1, <1>2, <1>3, <1>6, <2>1, <2>2 DEF IdentityInv, IdentityNeverAhead
<1>9. CASE ReadTorn(w)
  <2>1. pc'[w] = "idle" /\ cache' = cache
    BY <1>9 DEF ReadTorn, IdentityInv, ServingTypeInv
  <2>2. Fits(w)'
    BY <2>1
  <2> QED
    BY <1>0, <1>1, <1>2, <1>3, <1>6, <2>1, <2>2 DEF IdentityInv, IdentityNeverAhead
<1> DEFINE m == got[w]["metrics"]
<1>10. CASE ReadNext(w)
  <2>1. /\ cache' = cache /\ pc[w] \in {"metrics", "intent"} /\ pc'[w] = Follows[pc[w]]
        /\ got'[w] = [got[w] EXCEPT ![pc[w]] = disk[pc[w]]]
        /\ Readable(pc[w]) /\ got[w] \in Models
    BY <1>5, <1>10 DEF ReadNext, IdentityInv, ServingTypeInv, Readable, Loaded
  <2>2. CASE pc[w] = "metrics"
    <3>1. pc'[w] = "intent" /\ got'[w]["metrics"] = disk["metrics"]
      BY <2>1, <2>2 DEF Follows, Models, Loaded
    <3>2. /\ RunOf(disk["metrics"]) = disk["metrics"].run /\ disk["metrics"].run \in Nat
          /\ disk["metrics"].run <= runs
      BY <1>0, <2>1, <2>2, LoadedFiles, RunsAreNumbers DEF RunOf, Readable, OrderInv
    <3>3. /\ Synthetic[1] = "intent" /\ Synthetic[2] = "sentiment" /\ Synthetic[3] = "metrics"
      BY DEF Synthetic, Artifacts
    <3>4. \A f \in Evaluated : Readable(f) => disk["metrics"].run <= disk[f].run
      BY <1>0, <2>1, <2>2, <3>3 DEF OrderInv, Ordered, Evaluated
    <3>5. RunOf(reference) <= disk["metrics"].run
      BY <2>1, <2>2, LoadedFiles DEF IdentityInv, Below
    <3>6. ReadMetrics(disk["metrics"])
      BY <2>1, <2>2, <3>2, <3>4, <3>5 DEF ReadMetrics, Below, Readable
    <3>7. \A f \in Loaded : disk[f] # Absent
      BY <1>5, <2>2
    <3>8. ReadMetrics(got[w]["metrics"])'
      BY <1>0, <3>1, <3>6 DEF ReadMetrics, Below, Readable, RunOf
    <3>9. Fits(w)'
      BY <1>0, <3>1, <3>7, <3>8
    <3> QED
      BY <1>0, <1>1, <1>2, <1>3, <1>6, <2>1, <3>9 DEF IdentityInv, IdentityNeverAhead
  <2>3. CASE pc[w] = "intent"
    <3>1. /\ pc'[w] = "sentiment" /\ got'[w]["intent"] = disk["intent"]
          /\ got'[w]["metrics"] = m
      BY <2>1, <2>3 DEF Follows, Models, Loaded
    <3>2. ReadMetrics(m) /\ \A f \in Loaded : disk[f] # Absent
      BY <1>5, <2>3
    <3>3. RunOf(disk["intent"]) = disk["intent"].run /\ disk["intent"] # Absent
      BY <2>1, <2>3 DEF RunOf, Readable
    <3>4. RunOf(m) <= RunOf(disk["intent"])
      BY <2>1, <2>3, <3>2, <3>3 DEF ReadMetrics, Below, Evaluated
    <3>5. ReadMetrics(got[w]["metrics"])'
      BY <1>0, <3>1, <3>2 DEF ReadMetrics, Below, Readable, RunOf
    <3>6. ReadIntent(got[w]["metrics"], got[w]["intent"])'
      BY <3>1, <3>3, <3>4 DEF ReadIntent, RunOf
    <3>7. Fits(w)'
      BY <1>0, <3>1, <3>2, <3>5, <3>6
    <3> QED
      BY <1>0, <1>1, <1>2, <1>3, <1>6, <2>1, <3>7 DEF IdentityInv, IdentityNeverAhead
  <2> QED
    BY <2>1, <2>2, <2>3
<1>11. CASE ReadLast(w)
  <2>1. /\ pc[w] = "sentiment" /\ pc'[w] = "idle" /\ disk["sentiment"] # Torn
        /\ got[w] \in Models
        /\ cache' = IF cache = NoModels
                    THEN [got[w] EXCEPT !["sentiment"] = disk["sentiment"]] ELSE cache
    BY <1>11 DEF ReadLast, IdentityInv, ServingTypeInv
  <2>2. /\ ReadMetrics(m) /\ ReadIntent(m, got[w]["intent"])
        /\ \A f \in Loaded : disk[f] # Absent
    BY <1>5, <2>1
  <2>3. Fits(w)'
    BY <2>1
  <2>4. CASE cache # NoModels
    BY <1>0, <1>1, <1>2, <1>3, <1>6, <2>1, <2>3, <2>4 DEF IdentityInv, IdentityNeverAhead
  <2>5. CASE cache = NoModels
    <3>1. /\ cache'["metrics"] = m /\ cache'["intent"] = got[w]["intent"]
          /\ cache'["sentiment"] = disk["sentiment"]
      BY <2>1, <2>5 DEF Models, Loaded
    <3>2. Readable("sentiment")
      BY <2>1, <2>2, LoadedFiles DEF Readable
    <3>3. RunOf(m) <= RunOf(disk["sentiment"])
      BY <2>2, <3>2 DEF ReadMetrics, Below, Evaluated, RunOf, Readable
    <3>4. RunOf(m) <= RunOf(got[w]["intent"]) /\ RunOf(reference) <= RunOf(m)
      BY <2>2 DEF ReadIntent, ReadMetrics
    <3>5. IdentityNeverAhead'
      BY <1>0, <3>1, <3>3, <3>4 DEF IdentityNeverAhead, Evaluated, RunOf
    <3> QED
      BY <1>0, <1>1, <1>2, <1>3, <1>6, <2>3, <3>5 DEF IdentityInv
  <2> QED
    BY <2>4, <2>5
<1> QED
  BY <1>8, <1>9, <1>10, <1>11 DEF Proceed

\* Every step keeps the identity.
LEMMA IdentityStep == IdentityInv /\ [Next]_vars => IdentityInv'
<1> SUFFICES ASSUME IdentityInv, [Next]_vars PROVE IdentityInv'
  OBVIOUS
<1>0. ServingTypeInv' /\ [Command]_training
  BY ServingTypeStep, ServiceOnlyReads DEF IdentityInv
<1>1. CASE UNCHANGED process
  BY <1>0, <1>1, IdentityCommand
<1>2. CASE Boot \/ Stop
  BY <1>0, <1>2, IdentityProcess
<1>3. ASSUME NEW w \in Workers, Ask(w) \/ Proceed(w) PROVE IdentityInv'
  <2>1. CASE AskMissing(w)
    BY <1>1, <2>1 DEF AskMissing
  <2> QED
    BY <1>0, <1>3, <2>1, IdentityLoad DEF Ask
<1> QED
  BY <1>1, <1>2, <1>3 DEF Next

\* The metrics that /health reports are never of a newer run than the classifiers
\* that are served, nor the drift reference than any of them: for any number of runs,
\* kills, restarts and threads that load at once.
THEOREM IdentityNotAhead == Spec => []IdentityNeverAhead
<1>1. IdentityInv => IdentityNeverAhead
  BY DEF IdentityInv
<1> QED
  BY <1>1, IdentityInit, IdentityStep, PTL DEF Spec
=============================================================================
