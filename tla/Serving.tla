------------------------------ MODULE Serving ------------------------------
(***************************************************************************)
(* One process of the service and the artifacts it serves from              *)
(* (api/server.py:42-45, agents/classifiers.py).  The drift reference is    *)
(* read when the process starts, the classifiers when the first request     *)
(* needs them, once, into an lru_cache; a training run may write in between *)
(* and at the same time.  lru_cache runs the function in every thread that  *)
(* finds the cache empty, keeps the first result and no exception.          *)
(***************************************************************************)
EXTENDS Training

CONSTANTS Workers   \* threads that handle requests

VARIABLES
    up,         \* whether the process has been imported
    reference,  \* the reference of its drift monitor, or Absent
    cache,      \* what load_artifacts has cached, or NoModels
    pc,         \* the file each thread is about to read, or "idle"
    got         \* what it has read so far

process == <<up, reference, cache, pc, got>>
vars    == <<training, process>>

\* load_artifacts reads the metrics first, for they are parsed in a statement of
\* their own, and returns the three together.
Loaded   == {"metrics", "intent", "sentiment"}
NoModels == [f \in Loaded |-> Absent]

Init ==
    /\ TrainingInit
    /\ up = FALSE
    /\ reference = Absent
    /\ cache = NoModels
    /\ pc = [w \in Workers |-> "idle"]
    /\ got = [w \in Workers |-> NoModels]

\* server.py is imported; DriftMonitor.from_file does without a missing reference,
\* and raises on one that is cut short.
Boot ==
    /\ ~up
    /\ disk["drift"] # Torn
    /\ up' = TRUE
    /\ reference' = disk["drift"]
    /\ UNCHANGED <<training, cache, pc, got>>

\* The process ends, at any moment.
Stop ==
    /\ up
    /\ up' = FALSE
    /\ reference' = Absent
    /\ cache' = NoModels
    /\ pc' = [w \in Workers |-> "idle"]
    /\ got' = [w \in Workers |-> NoModels]
    /\ UNCHANGED training

\* A request, or the /health probe, that finds the cache filled reads no file.
Asks(w) == up /\ pc[w] = "idle" /\ cache = NoModels

\* Mutant: the missing artifacts are remembered.
AskMissingKept(w) ==
    /\ Asks(w)
    /\ \E f \in Loaded : disk[f] = Absent
    /\ cache' = [NoModels EXCEPT !["metrics"] = Torn]
    /\ UNCHANGED <<training, up, reference, pc, got>>

\* load_artifacts raises FileNotFoundError, which nobody keeps.
AskMissing(w) ==
    /\ Asks(w)
    /\ \E f \in Loaded : disk[f] = Absent
    /\ UNCHANGED vars

\* All three files exist, in whatever state.
AskPresent(w) ==
    /\ Asks(w)
    /\ \A f \in Loaded : disk[f] # Absent
    /\ pc' = [pc EXCEPT ![w] = "metrics"]
    /\ UNCHANGED <<training, up, reference, cache, got>>

Follows == [metrics |-> "intent", intent |-> "sentiment", sentiment |-> "idle"]

(***************************************************************************)
(* json.loads or joblib.load of one file.  A file cut short raises, and the *)
(* request ends with a 500; after the last one the result is cached, unless *)
(* another thread was faster.                                               *)
(***************************************************************************)
ReadTorn(w) ==
    /\ pc[w] # "idle"
    /\ disk[pc[w]] = Torn
    /\ pc' = [pc EXCEPT ![w] = "idle"]
    /\ got' = [got EXCEPT ![w] = NoModels]
    /\ UNCHANGED <<training, up, reference, cache>>

ReadNext(w) ==
    /\ pc[w] \in {"metrics", "intent"}
    /\ disk[pc[w]] # Torn
    /\ pc' = [pc EXCEPT ![w] = Follows[pc[w]]]
    /\ got' = [got EXCEPT ![w][pc[w]] = disk[pc[w]]]
    /\ UNCHANGED <<training, up, reference, cache>>

ReadLast(w) ==
    /\ pc[w] = "sentiment"
    /\ disk["sentiment"] # Torn
    /\ pc' = [pc EXCEPT ![w] = "idle"]
    /\ got' = [got EXCEPT ![w] = NoModels]
    /\ cache' = IF cache = NoModels
                THEN [got[w] EXCEPT !["sentiment"] = disk["sentiment"]] ELSE cache
    /\ UNCHANGED <<training, up, reference>>

Ask(w)     == AskMissing(w) \/ AskPresent(w)
Proceed(w) == ReadTorn(w) \/ ReadNext(w) \/ ReadLast(w)

Next ==
    \/ Command /\ UNCHANGED process
    \/ track = "synthetic" /\ (Boot \/ Stop \/ \E w \in Workers : Ask(w) \/ Proceed(w))

Spec == Init /\ [][Next]_vars

(***************************************************************************)
(* The container is started again whenever it ends, its probes ask /health  *)
(* every few seconds (k8s/deployment.yaml), and a thread that reads a file  *)
(* goes on.  Nothing makes anybody run a command, or the process end.       *)
(***************************************************************************)
Fairness ==
    /\ WF_vars(track = "synthetic" /\ Boot)
    /\ WF_vars(\E w \in Workers : track = "synthetic" /\ AskPresent(w))
    /\ \A w \in Workers : WF_vars(Proceed(w))

FairSpec == Spec /\ Fairness
-----------------------------------------------------------------------------
Models == [Loaded -> {Absent} \cup Values("intent")]

TypeOK ==
    /\ TrainingTypeOK
    /\ up \in BOOLEAN
    /\ reference \in {Absent} \cup Values("drift")
    /\ cache \in Models
    /\ pc \in [Workers -> {"idle", "metrics", "intent", "sentiment"}]
    /\ got \in [Workers -> Models]

RunOf(artifact) == IF artifact = Absent THEN 0 ELSE artifact.run

(***************************************************************************)
(* What "the identity of the classifiers actually loaded" (server.py:109)   *)
(* is worth while training runs and their deaths leave files of different   *)
(* runs side by side.  The scripts write the classifiers before the metrics *)
(* and the reference last; the service reads in the opposite order.  So the *)
(* metrics it reports may be of an older run than the classifiers, never of *)
(* a newer one, and its drift reference is not newer than either.           *)
(***************************************************************************)
IdentityNeverAhead ==
    cache # NoModels =>
        /\ RunOf(reference) <= RunOf(cache["metrics"])
        /\ \A c \in Evaluated : RunOf(cache["metrics"]) <= RunOf(cache[c])

\* Every artifact the service reads is there and whole, and no command is running.
Settled == Idle /\ Readable("drift") /\ \A f \in Loaded : Readable(f)

(***************************************************************************)
(* classifiers.py:44-53: no failure to load is kept.  However often the     *)
(* service was asked too early, once the artifacts stay as they are it      *)
(* serves from them, until it is stopped.                                   *)
(***************************************************************************)
ServesInTheEnd ==
    <>[](Settled /\ track = "synthetic") /\ <>[][~Stop]_vars
        => <>[](\A f \in Loaded : cache[f] # Absent)
=============================================================================
