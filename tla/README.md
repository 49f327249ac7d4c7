# Verification of the proactive customer operations service

TLA+ specifications, TLC models and TLAPS proofs for the service in this
repository. Paths such as `src/api/server.py` mean the file of that name in
the source tree. Everything is translated from the code; where the documentation
says something else, the last column of "Runs" says so.

## 1. The system

A FastAPI service, and the scripts that make the artifacts it serves from. Its
handlers are plain `def` functions, so every request runs on a thread of a pool, in
one process, with one replica (`k8s/deployment.yaml`). All state but the event store
and the artifacts lives in module globals and is lost when the process restarts. The
scripts write their files in place, one after the other.

| Component | State | Operations | Meets | Hard behaviour | What makes it correct |
|---|---|---|---|---|---|
| Proactive outreach, `orchestration/proactive.py` | `_contacts` (bounded deque per service), `_seen_events` (bounded ordered dictionary), `_outreach_log` | `record_contact`, `handle_incident_event`, `proactive_status` | called by both POST endpoints | one lock per access, none around check-then-act; at-least-once delivery; eviction; restart | no thread repeats a round unless the event was lost, no round promised and not sent, the audience wrote to us and is complete |
| Incident endpoint, `POST /events/incident` | none | handle, then `save_event` | incident platform, event store | the save fails after the round went out | every well-formed event is answered in the end |
| Service client and breaker, `integrations/client.py` | `failures`, `opened_at`, no lock | `_call`, `status` | enrichment edges, `/health` | lost atomicity between threads; half-open; late failures of old calls | an outage has a bounded price, the circuit opens, lets calls through again and again, and closes for good after recovery |
| Decision pipeline, `orchestration/agent_dag.py`, `POST /decide` | local trace; changes registry, drift window, event store in this order | classify, prioritise, enrich three times, decide, act, record, observe, save | everything | exceptions between two effects; enrichment that answers anything | the trace tells the truth, the effects follow from the outcome |
| Policy rules, `agents/policy_agent.py` | none | `explain_policy` | pipeline | the order of rules | the rule that is named justifies the action |
| Action agent and tools | none (simulated) | `action_agent`, `link_to_incident` | pipeline | a payload of another shape | each policy has its tool |
| Enrichment edges, `integrations/services.py` | `_clients`, created lazily, no lock | three `fetch_*` | clients, pipeline | two first requests make a client each; reply shapes | few clients are ever made; optional: improves, never prevents |
| Classifiers, `agents/classifiers.py`, and LLM client | `lru_cache` of the artifacts | `load_artifacts`, `_classify`, `complete` | pipeline, files on disk | several threads load at once while a training run writes; exceptions that bypass the fallback | a failed load is not kept; what is reported is not newer than what serves |
| Event store, `utils/storage.py` | SQLite file, one connection per thread | `save_event`, `recent_events`, schema migration | both POST endpoints, `/events` | two threads migrate at once; readers while others write | append-only, newest first |
| Drift monitor, `monitoring/drift.py` | bounded window, reference | `observe`, `report` | pipeline | ties, empty bins, unseen classes | a shift is reported, no report from too little data |
| Training data and artifacts, `training/*.py` | corpus, cached data set, classifiers, metrics, cards, drift reference: files | `generate_corpus`, `fetch_real_data`, `train`, `train_real`, with `--check` and `--verify` | each other through files, the service, CI | killed between or inside two writes; data refused after it was cached; templates edited since; rounding of small shares | approved data is official, held-out templates are unseen, a check proves what it says |
| Evaluation, `evaluation/evaluate.py` | none | asks the classifiers about the held-out templates | files | reads what another command left | no template it asks about was learned |
| Metrics, API key, request id, logger | locked counters | single critical sections | all | none | - |
| Planner, deployment | text and configuration only | - | - | - | - |

## 2. Modules and their correspondence to the code

| Module | Models | One action is |
|---|---|---|
| `Proactive` | contact registry, idempotency memory, outreach log, event handler, endpoint, restarts, redeliveries | one critical section of the lock, or the clock read between two |
| `OutreachPromise` | what `receive_incident_event` promises, as far as several threads and a bounded memory can keep it: taken while it has no outcome, settled, and then messaged as the outcome says | - |
| `ServiceClient` | one client and its breaker shared by several threads | the code between two places where CPython 3.13 may switch threads |
| `Decision` | `/decide` from validation to the answer | one call of `run_dag` or of `decide` |
| `EventStore` | connections per thread, migration, saves, reads, restarts | one SQL statement or commit |
| `EventLog` | what the store promises its callers: one log, appended by saves, read newest first | - |
| `Drift` | both references, the window, the report | one critical section, or the comparison after it |
| `Training` | corpus generator, fetch, both training scripts, their checks, the evaluation | one open or close of a file, a check, or a kill |
| `Serving` | `Training` composed with one process of the service that loads what is on disk | one file read by one thread, the import, or the end of the process |
| `MCProactive`, `MCServiceClient`, `MCDecision`, `MCEventStore`, `MCDrift`, `MCServing` | values of the constants for TLC | |
| `ProactiveProofs`, `ServiceClientProofs`, `DecisionProofs`, `EventStoreProofs`, `DriftProofs`, `TrainingProofs`, `ServingProofs` | theorems for all values of the constants | |
| `Counting` | lemmas on ranks, counts and sums over finite sets that the proofs of `EventStore` and `Drift` share | |

**Proactive.** `contacts`, `seenOrder`/`seenResult` and `outreachLog` are the three
globals; an ordered dictionary is the sequence of its keys and the function of its
values. `pc` and `job` are the position and the locals of each thread. A delivery
runs through `CheckDuplicate` or `CheckFresh` (line 84), `TakeCutoff` (51, a clock
read outside the lock), `Snapshot` (52), `RememberQuiet` or `RememberOutreach`
(134) and `Log` (135). A duplicate is answered at once. `Answer` is the rest of the
endpoint, including `save_event`, which may raise: then the event has no answer
and is delivered again. `SnapshotRaises` is an event whose service is unhashable.
`Restart` empties the globals and kills all workers. The addressees of a round are a
set: order and wording are left out. `wrote`, `rounds`, `forgotten` (the events evicted
from the memory), `messaged` and `lost` (how often the memory lost an event, to make
room or in a restart) are history variables; all but the last two start again with the
process.

The promise of the docstring, that nobody is messaged twice, is broken by two threads
(`proactive_race`). What the code does promise is stated twice. `RepeatsAreExplained`
counts: a thread messages a customer about an event at most once more than the memory
lost the event. `PromiseKept` maps the handler to `OutreachPromise`, without conditions:
`seenResult` is the outcome of each event, and a thread's duty is its event from the
duplicate check on and, once the result is remembered, the addressees it owes a message.
`CheckFresh` is `Take`, `SnapshotRaises` is `Drop`, both ways of remembering are `Settle`
(with the eviction, which the promise allows only where the memory cannot hold every
event), `Log` is `Send`, `Restart` is `Crash`, and all else is a stutter.

**ServiceClient.** The client is made by the first threads that look for it (`Find`,
`Make`; `services.py`, 27-34). Each of several first threads makes one and puts it
over the one before; `made` counts them, and the module follows the newest. A thread
that holds an older one is "abandoned": whatever it does to a breaker nobody will find
again is left out, and it may end in every way a call can (`ReturnAbandoned`).
`is_open` and `record_failure` call `time.monotonic()` between two accesses of
`opened_at`, so a thread may be switched there and each is two steps; `record_success`
contains no call and is one. Instead of an unbounded clock the module keeps the age of
`opened_at` and of the clock value a thread holds. The outcomes TIMEOUT and ERROR are
merged. `probe` is a history variable that remembers whether a cooldown has ended and
no call has decided the circuit since.

How an attempt may end depends on the dependency (`Replies`) and on the request
(`Unsendable`), which may be at fault while the dependency is well: text that is not
ASCII in the URL raises UnicodeEncodeError, a ValueError, and is counted like a malformed
body (lines 165-166); a space in it raises InvalidURL and a base URL without a scheme
makes `Request()` raise, and both escape. What a reader may not expect: requests of
the first kind open the circuit of a healthy dependency, again and again. So `Recovers`
is conditional on an end of them (`Blame` stops), and `LetsCallsThrough`, that the circuit
never stays open for good, is not.

**Decision.** A request is processed alone: between receipt and `record_contact` the
handler uses local variables only, and what threads share is the subject of the
other modules. The reply of a neighbour is one of the classes that the rules and
the tools tell apart, among them replies that are no object and an incident whose
details are no object. `effects` says which of the three shared structures the
request has changed. The text of the message is its two labels and whether it
mentions a service; confidences and `needs_human_review` are left out.

**EventStore.** A connection in Python's default mode commits every schema statement on
its own, so another thread may act between `CreateTable`, `ReadColumns`, `AddColumn`
and `CreateIndex` (lines 66-85); the INSERT opens a transaction that holds the only
write lock until `Commit`. In WAL mode a reader sees what is committed and waits for
nobody. `Raise` stands for every statement that fails: a wait beyond the timeout, a
full disk, the column that another thread has added since. `connected` is
`_state.connection` of the threads that have one; the threads of the pool end and
lose it. An event is the number of its save and the id of its request. `stored`,
`refused`, `earlier` and `known` are history variables: which saves returned or
raised, and what had returned when a later call began. `NewestFirst` is `ORDER BY id
DESC LIMIT ?`: the row at place k is the one with k - 1 newer rows among those asked for.

`StoreIsALog` maps the store to `EventLog`: its log is `rows` without their ids, a thread
waits for its call while it is inside it, whichever statement it has reached, and it was
told what is in `answer`. So a call begins, takes effect and ends, and everything of
connections, migration, locks and ids is hidden. A save takes effect at its commit, a
read at its SELECT, a call that raises has none; a restart is a crash of all callers.

**Drift.** `training` is the sample of the training run and `reference` what it
saved, edges or classes in `marks`; a run that raises saves nothing. `Observe` and
`Snapshot` run under the monitor's lock, `Compare` on the copy after it. Counts stay
integers: proportions are compared by cross-multiplication, logarithms come from the
table `Ln` in thousandths, and a term is scaled by both totals. Two of the
properties speak about the sample and the stream and not about bins, so they do not
repeat the code. What the code does and a reader may not expect: a window of unknown
classes only has an index of zero and is "stable"; `VanishedIsSignificant` excepts it.

**Training.** A file is absent, torn, or whole; an artifact is the number of its run and
the data the run read, because everything is seeded, and what is fitted is a function of
the data. Init chooses the synthetic or the real track, which share no file. A command
puts its writes into `todo`; `BeginWrite` is `open()`, which empties the file, `EndWrite`
its end, and `Kill` may come before, between and inside. A corpus cut short between two
rows is a shorter corpus that can be read (`Partial`, with the lengths in `Breaks`);
every other file cut short is torn, and pandas reads a torn cache. `Rejected` is the
checksum that is compared after the file was cached. `HeldOut` is `template_split`: a
share of the own templates of each intent, rounded as Python rounds, drawn by a seeded
generator, so the same for the same templates (`CHOOSE`). A training run that raises
before its first write changes nothing and is no step. `Verify` may pass for
any data, since one accuracy within a tolerance says nothing of the rest. `passed`,
`trained` and `approved` are history variables: what a successful check, run or fetch
entitles one to rely on until a file is written again.

**Serving.** `Boot` reads the drift reference at the import; `AskPresent`, `ReadNext`,
`ReadLast` are `load_artifacts` in each thread that found the `lru_cache` empty: metrics
first, then the intent and the sentiment classifier. The first thread to end fills the
cache, the others' results are dropped, and an exception is kept by nobody (`AskMissing`,
`ReadTorn`). Labels, scores and the answer to the request are the subject of `Decision`.

## 3. Runs

Every run checks deadlock. The instances are the smallest in which each
interesting case happens; each property of a passing run is known to fail for at
least one plausible bug (operators marked "Mutant" beside the definition they vary).

| Run | Instance | Shows |
|---|---|---|
| `proactive_workers` | 2 threads, 2 events, memory of 1, a customer with and one without a name, 2 contacts, registry of 1, the clock stands, 1 restart, 1 redelivery, rounds up to `MaxRounds` = 2 per thread and event | `TypeOK`, `OneRoundPerWorker`, `RepeatsAreExplained`, `NoSilentRound`, `MemoryConsistent`, `PromiseKept` (refinement of `OutreachPromise`) while threads evict each other's events and the process dies |
| `proactive_single` | 1 thread, 3 events (an outage, one without service, one that raises), 3 customer ids, 3 contacts, registry of 2, window 1 of 2 ticks, no restart, fair | `AudienceWroteToUs` and `AudienceIsComplete` while contacts displace each other and leave the window, `EventuallyAnswered` |
| `proactive_race` | 2 threads, 1 event | **violates** `NobodyMessagedTwice`: check and remember are two critical sections (docstring, `server.py:166`) |
| `client_threads` | 3 threads, threshold 2, cooldown 2, no client yet, requests that cannot be sent, fair except for attempts | `TypeOK`, `FewClientsAreMade`, `OutageCostIsBounded`, `ExcessIsOpening`, `Recovers`, `LetsCallsThrough` |
| `client_half_open` | 1 thread, without fairness | **violates** `HalfOpenProbeDecides`: half-opening clears the count (`client.py:63`) |
| `decision_trace` | all labels, hours on both sides of every limit, all 24 configurations | `TypeOK`, `UnusedMeansStandalone`, `AloneByItself`, `DecisionIsJustified`, `SourcesAreNamed`, `EffectsFollowDecision` |
| `decision_prevented` | same | **violates** `EnrichmentNeverPrevents` (repository README, line 315): a fetch raises on a body cut short, on a reply that is no object, and when `is_open` reads `opened_at` on both sides of another thread's success (`client.py:80-82`, which `ServiceClient` shows as `CompareRaises`) |
| `decision_listed` | same | **violates** `LinkedMeansListed`: the customer is told to be on the notify list and is not (`tools/actions.py:26`) |
| `store_threads` | 2 threads, any first table, 2 saves, 1 restart, limits below zero and above that of the endpoint, fair | `TypeOK`, `ConnectedIsMigrated`, `NothingIsDropped`, `IdsFollowCommits`, `SavesAreKept`, `ReadIsRecent`, `StoreIsALog` (refinement of `EventLog`), `LockComesFree` |
| `drift_reports` | all samples of up to 3 values, in any order, and some of 4, 3 bins, streams of 4 over 5 values, window 3, 1 restart | `TypeOK`, `ReportIsOfOneMoment`, `BinsAreFilled`, `EveryScoreIsCounted`, `OwnMixIsStable`, `VanishedIsSignificant` |
| `serving_artifacts` | 2 revisions of the templates, 2 training runs, corpora cut to 0 or 5 rows, committed files or none, 2 threads, fair | `TypeOK`, `ApprovedDataIsOfficial`, `EvaluationIsHonest`, `IdentityNeverAhead`, `ServesInTheEnd` |
| `training_verified` | same, 1 thread, without fairness | **violates** `VerifiedMeansReproducible` (`ci.yml:19-20`): `train.py --verify` compares one number and opens no classifier (`train.py:310`) |

**Why the bounds are enough.** Two threads suffice for every two-party interleaving of
one lock, and what they do to the memory does not depend on the clock; for the
audience one thread among customers is enough, and the clock needs to move once past the window; a registry of two shows
displacement and its absence. A third thread for the breaker lets two late failures
meet a probe. `Threshold` 2 is the smallest at which half-opening and a single failure
differ. `Decision` is finite without bounds: nothing is cut off. The bounds `MaxTime`,
`MaxContacts`, `MaxRedeliveries` (deliveries beyond those that the platform needs;
retries of an unanswered event are not bounded), `MaxRestarts`, `MaxLag`, `MaxRounds`,
`MaxSaves`, `MaxSeen`, `MaxRuns` and `Breaks` belong to the models and not to the
program. Two saves and the event of an old file make three rows against a limit of
one, with a filter that hides one of them. Four sample values in three bins give ties,
merged edges and bins of different size; a stream of four overflows the window. Two
revisions of the templates hold an intent with a quarter that is rounded, one with two
templates and an ambiguous one; five rows cut off leave an intent with a single
template, none is an empty corpus. A second training run on other data beside the
committed one gives files of two runs side by side, and two threads let one load
before and one after a write. One reader of the drift monitor is enough, because
readers change nothing another thread looks at.

**Fairness.** A thread inside a handler is scheduled again (weak fairness of its
steps). The platform delivers an unanswered event again and the server takes requests
in order (strong fairness of its receipt). The database does not refuse every write
for ever (strong fairness of an answer). Time passes, and `/health` is asked every few
seconds by the probes of the deployment, which reads each circuit and finds a thread
to run on (weak fairness). An attempt on a dependency need not end: the timeout bounds
each socket operation and not the call, so a thread in `ServiceClient` is only assumed
to go on where it does not wait for the dependency. A wait for the write lock ends
because of `busy_timeout` (weak fairness of a thread's steps, of which raising is one).
The container is started again when it ends, and `/health` is asked for as long
as it runs, which loads the artifacts when they are there; a thread that reads a file
goes on. Nothing forces anybody to run or to end a command, customers to write, the
process to end or a dependency to recover; `Recovers` is conditional on the latter,
and on requests that can be sent, and `ServesInTheEnd` on commands and restarts that come to an end.

**Assumed.** The wall clock does not step back. No thread stays between a clock read
and its use longer than `MaxLag` ticks. In `Proactive`, events have a type and a
service fixed by their id. In `Drift`, `LogarithmAssumption` says of the table `Ln` what
every table of rounded natural logarithms in thousandths satisfies: it covers the
products that are looked up, it ascends, a factor of 20 adds no more than 3000 (the
logarithm of 20 is 2.9957), and no training sample is so large (a million scores) that
one of them counts for less than `EPSILON`.

## 4. Proofs

All theorems hold for any number of threads, customers, events, labels and any
capacities that satisfy the named assumptions of the modules.

| Theorem | Says | By |
|---|---|---|
| `ProactiveProofs!TypeCorrect` | `TypeOK` | together with `JobFitsStep`: only an event with a proper service reaches `Log`, else the batch would be ill-typed |
| `MemoryIsConsistent` | the memory is a duplicate-free ordered dictionary in its capacity | `SeenConsistent`; eviction is the tail of a duplicate-free sequence |
| `OneRound` | one round per thread and process life for every event that was not evicted | `RoundIsRemembered`: a thread past the duplicate check has sent none; a forgotten event stays in `forgotten` until the restart |
| `RoundNotSilent` | an outreach that is remembered was or is being sent | inductive with the type invariant |
| `AudienceIsReal` | addressees wrote about this service inside the window | `AudienceInMaking`: what a cutoff and an audience in a thread's locals are worth |
| `AudienceComplete` | nobody is passed over whom the registry can still know and who wrote before the event | `CompletenessInMaking`: the registry is the end of what was written (`HoldsLast`), a cutoff is not ahead of the clock's window, and what a thread holds covers the entitled so far. A later clock entitles fewer (`CoversStays`), and a new contact is no older than the event |
| `RepeatsExplained` | a thread repeats a message only as often as the memory lost the event, over all process lives | `RepeatsInMaking`: what is remembered is not lost yet, and a thread past the duplicate check found nothing. `StoreCounts`: `_remember` gains the event it stores, and what it gives up is counted |
| `PromiseIsKept` | refinement of `OutreachPromise`, for any number of threads, any memory, any restarts | types and `SeenConsistent`; `StoreEvicts`: an eviction takes another event, a remembered one, and only where there is too little room for all; a thread's duty follows from its place (`DutyByStep`), and a step changes one duty (`OneDutyAtATime`) |
| `ServiceClientProofs!TypeCorrect` | `TypeOK` | |
| `OutageCost`, `ExcessOpens` | an outage costs fewer than threshold plus one call per thread; a full count always has a thread about to open | the two together; a lemma on the cardinalities of the sets of calling and opening threads |
| `FewClients` | no more clients are made than there are threads | a thread is about to make one only while none has been found |
| `DecisionProofs!TypeCorrect`, `EffectsAreAccounted` | types; effects follow from the outcome | `StepFitsTrace`: what the place of the handler says of trace and effects |
| `UnusedIsStandalone`, `AloneIsStandalone`, `DecisionsAreJustified`, `SourcesNamed` | the trace tells the truth | `PolicyFitsAnswers`, `EdgesAreExplained`, `FailuresAreOwned`; the rules as a table (`StandaloneCases`, `ExplainedCases`) |
| `EventStoreProofs!ConnectedMigrated` | a kept connection has a complete table | `MigrationFits`: a thread at the index has seen or made the column |
| `LogOnlyGrows`, `IdsOrdered` | rows stay; ids follow commits | `LockFits`: one thread in a transaction, and its id is still the next one when it commits |
| `SavesKept` | one row per returned save, none per raised one, in real-time order | `SavesFit`: a row belongs to a returned save, a save under way to one thread and has no end yet |
| `StoreTypeCorrect`, `ReadsAreRecent` | types of answers and what they hold | `NewestFirstIsNewest`: ids are distinct, so there is one row with k newer ones for each k (`Counting!RankTaken`), and what is missing is older than the last |
| `StoreImplementsLog` | refinement of `EventLog`, for any number of threads, saves and restarts | `CallsFit` (a thread inside a call has one); a commit is `Record`, a read is `Look` at the places the SELECT picked, all else is a call, a failure, a crash or a stutter |
| `DriftProofs!ReportsOfOneMoment` | a report is of the newest observations at one moment | `WindowFits`, `CopiesFit`: the window is described element by element, which `NewestIsSubSeq` turns into a subsequence |
| `ReferenceIsFilled` | edges are strictly ascending, every bin and class holds something | `Ascending` enumerates a finite set in order; a quantile exists (`PlaceIsHeld`), is a value of the sample, and starts its bin |
| `DriftTypeCorrect`, `ScoresAreCounted` | types; nothing is dropped | every observation has one place (`BinIndex` is in range), and the sizes of disjoint bins add up (`Counting!BinsAddUp`) |
| `OwnMixStable` | no false alarm on the training mix, whatever the bins | `Counting!AtInProportion`: values in proportion put bins in proportion, so every term is zero |
| `VanishedSignificant` | an alarm when a twentieth of the sample is gone | no term is negative, and that of the empty bin alone reaches the threshold |
| `TrainingProofs!TypeCorrect` | `TrainingTypeOK` | `TypeInv`: the writes left to do are the end of the list of one command |
| `ApprovedIsOfficial` | what a fetch or check approved is official, and so are the runs on it | `ApprovedInv`: the writes of an approved run are of official data, and a fetch that got to its second file has the right first one |
| `EvaluationHonest` | held-out templates are unseen, and every intent with two is on both sides | `SplitExists` (the `CHOOSE` has a value, by `SubsetOfSize` and `HoldCountBounds`), `BothSides`, and `HonestInv`: from the start of a run to the next write of another command the corpus is the one it read |
| `ServingProofs!ServingApproved`, `ServingHonest` | the same beside a service | the service only reads: each of its steps is a stutter of `Training` |
| `ServingTypeCorrect` | `TypeOK` of the composition | |
| `IdentityNotAhead` | reported metrics are not newer than the classifiers, the reference not newer than the metrics | `OrderInv`: on disk a file that is written later is not of a later run (`Ordered`), with the run under way halfway through its files (`Halfway`); `IdentityInv`: what a thread has read is not newer than what it is about to read (`Below`) |

The results on sums, counts and ranks are inductions over finite sets. The prover cannot
instantiate the library's induction theorems, so `Counting` proves its own: the set of
sizes for which a statement holds is a set, and a set of numbers with zero and the
successor of each member is everything. For the same reason the modules choose the
element at a place by its rank instead of sorting recursively.

Every invariant of a passing run is stated by a theorem. Model-checked only: the
liveness properties `EventuallyAnswered`, `Recovers`, `LetsCallsThrough`, `LockComesFree`
and `ServesInTheEnd` (liveness and fairness are beyond the prover), and the violations.

## 5. Not modelled

Planner (a keyword scan that is only shown), metrics and logger (single critical
sections), API key and request id (no state), LLM requests, the wording of all results,
deployment. Of training, what is fitted and how well it scores: an artifact stands for
its run and its data. A corpus cut inside a row, whose last text is half a message, and
a drift sample whose scores are all equal, on which `build_reference` raises,
are no states of their own; only tests build a numeric reference, the scripts a
categorical one. A joblib file is read in one step, although a rewrite may overlap with
the reading. An empty `request_id` filters nothing (`storage.py:114`) and is the same as
none. The time a dependency may hold a thread by dripping bytes
has no counterpart in a model without seconds.

## 6. Plan

In order of importance; all but the eighth are done.

1. `Proactive` with `OutreachPromise`: races, redeliveries, restarts.
2. `ServiceClient`: the client made lazily and its breaker, both without a lock.
3. `Decision`: order, truthfulness and effects of a decision.
4. `EventStore`: connections per thread, migration, order of events, reads.
5. `Drift`: references, window, verdict.
6. `Training` and `Serving`: how the artifacts come about, and who serves from them.
7. `EventLog`, which `EventStore` implements, and proofs of all invariants.
8. Composition: two requests of `Decision` over two `ServiceClient`s,
   and over the registry of `Proactive`, with the incident endpoint.
9. What the outreach promises under several threads, evictions and restarts:
   `RepeatsAreExplained`, and `OutreachPromise` without conditions.
