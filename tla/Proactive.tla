----------------------------- MODULE Proactive -----------------------------
(***************************************************************************)
(* Proactive outreach: who wrote to us about which service, which incident  *)
(* events were already handled, and the rounds of messages decided for      *)
(* them (src/orchestration/proactive.py).                                   *)
(*                                                                          *)
(* The handlers of the API are plain `def` functions, so they run on the    *)
(* threads of a pool: several workers execute handle_incident_event at      *)
(* once.  The module-level lock protects each access to the shared          *)
(* structures but not the sequence of them, hence one action per critical   *)
(* section.  Delivery of events is at-least-once and the memory of the      *)
(* process is lost when it restarts.                                        *)
(*                                                                          *)
(* Messages, incident payloads and the wording of results are left out; the *)
(* outreach of a result is the set of customers it addresses.               *)
(***************************************************************************)
EXTENDS Integers, Sequences, FiniteSets

CONSTANTS
    Workers,               \* threads that run the event handler
    Customers,             \* customer ids a request may carry, Anonymous among them
    Anonymous,             \* the default id "anonymous", which cannot be reached
    Services,              \* service names
    NoService,             \* the payload names no service
    BadService,            \* the payload's service is an unhashable value (a list, an object)
    EventIds,              \* ids of the events the incident platform publishes
    NoEvent,               \* an idle worker's event
    EventType,             \* [EventIds -> {"opened", "resolved", "other"}]
    EventService,          \* [EventIds -> Services \cup {NoService, BadService}]
    MaxContactsPerService, \* capacity of one service's contact registry
    MaxSeenEvents,         \* capacity of the idempotency memory
    MaxOutreachLog,        \* capacity of the log of rounds
    ContactWindow          \* how far back a contact counts, in ticks

CONSTANTS                  \* bounds of the model, not of the program
    MaxTime,               \* ticks of the wall clock
    MaxContacts,           \* contacts per service and process life
    MaxRedeliveries,       \* deliveries of an event already answered, or being handled
    MaxRestarts            \* restarts of the process

ASSUME CapacityAssumption ==
    /\ MaxContactsPerService \in Nat \ {0}
    /\ MaxSeenEvents \in Nat \ {0}
    /\ MaxOutreachLog \in Nat \ {0}
    /\ ContactWindow \in Nat
    /\ MaxTime \in Nat
    /\ MaxContacts \in Nat
    /\ MaxRedeliveries \in Nat
    /\ MaxRestarts \in Nat

ASSUME EventAssumption ==
    /\ IsFiniteSet(EventIds)
    /\ NoEvent \notin EventIds
    /\ NoService \notin Services
    /\ BadService \notin Services
    /\ EventType \in [EventIds -> {"opened", "resolved", "other"}]
    /\ EventService \in [EventIds -> Services \cup {NoService, BadService}]

VARIABLES
    now,         \* the wall clock
    contacts,    \* _contacts: per service, the most recent contacts
    seenOrder,   \* _seen_events: its keys, oldest insertion first
    seenResult,  \* _seen_events: its values (NoResult for an absent key)
    outreachLog, \* _outreach_log
    pc,          \* where each worker stands in handle_incident_event
    job,         \* the local variables of each worker
    acked,       \* events whose delivery got a response
    redelivered, \* deliveries beyond the necessary ones so far
    restarts,    \* restarts so far
    wrote,       \* history: per service, every contact since the process started
    rounds,      \* history: rounds each worker sent for an event since the process started
    forgotten,   \* history: events pushed out of _seen_events since the process started
    messaged,    \* history: how often a worker messaged a customer about an event, ever
    lost         \* history: how often the memory lost an event, to room or a restart

memory   == <<contacts, seenOrder, seenResult, outreachLog>>
history  == <<wrote, rounds, forgotten, messaged, lost>>
platform == <<acked, redelivered, restarts>>
vars     == <<now, memory, pc, job, platform, history>>

Contact == [customer : Customers, at : Nat]
Result  == [kind : {"none", "recovery", "no_action", "outreach"},
            outreach : SUBSET Customers]
Batch   == [service : Services, received : Nat, at : Nat, outreach : SUBSET Customers]
Job     == [event : EventIds \cup {NoEvent}, received : Nat, cutoff : Int,
            outreach : SUBSET Customers]

NoResult == [kind |-> "none", outreach |-> {}]
NoJob    == [event |-> NoEvent, received |-> 0, cutoff |-> 0, outreach |-> {}]
JobFor(e) == [event |-> e, received |-> now, cutoff |-> 0, outreach |-> {}]

Elements(s) == {s[i] : i \in DOMAIN s}

\* collections.deque(maxlen = n): a full deque drops its oldest element.
BoundedAppend(s, x, n) == IF Len(s) < n THEN Append(s, x) ELSE Append(Tail(s), x)

Remembered(e) == seenResult[e] # NoResult
InProgress(e) == \E w \in Workers : job[w].event = e

\* Mutants: entries instead of customer ids; no window; an exclusive bound.
AffectedEntries(service, cutoff) ==
    {c \in Elements(contacts[service]) : c.at >= cutoff}
AffectedEver(service, cutoff) == {c.customer : c \in Elements(contacts[service])}
AffectedAfter(service, cutoff) ==
    {c.customer : c \in {d \in Elements(contacts[service]) : d.at > cutoff}}

\* recent_contacts: the customers with a contact at or after the cutoff.
Affected(service, cutoff) ==
    {c.customer : c \in {d \in Elements(contacts[service]) : d.at >= cutoff}}

\* Only an opened incident on a named service leads to outreach.
WantsOutreach(e) == EventType[e] = "opened" /\ EventService[e] # NoService

\* What the handler answers.
Outcome(e, audience) ==
    IF WantsOutreach(e)
    THEN [kind |-> "outreach", outreach |-> audience]
    ELSE [kind |-> IF EventType[e] = "resolved" THEN "recovery" ELSE "no_action",
          outreach |-> {}]
-----------------------------------------------------------------------------
Init ==
    /\ now = 0
    /\ contacts = [s \in Services |-> << >>]
    /\ seenOrder = << >>
    /\ seenResult = [e \in EventIds |-> NoResult]
    /\ outreachLog = << >>
    /\ pc = [w \in Workers |-> "idle"]
    /\ job = [w \in Workers |-> NoJob]
    /\ acked = {}
    /\ redelivered = 0
    /\ restarts = 0
    /\ wrote = [s \in Services |-> << >>]
    /\ rounds = [e \in EventIds |-> [w \in Workers |-> 0]]
    /\ forgotten = {}
    /\ messaged = [e \in EventIds |-> [w \in Workers |-> [c \in Customers |-> 0]]]
    /\ lost = [e \in EventIds |-> 0]

Tick ==
    /\ now < MaxTime
    /\ now' = now + 1
    /\ UNCHANGED <<memory, pc, job, platform, history>>

(***************************************************************************)
(* record_contact, called by /decide: append under the lock with the time   *)
(* read under the lock.  A request without a service, or from the anonymous *)
(* customer, returns early and changes nothing.                             *)
(***************************************************************************)
RecordContact(c, s) ==
    LET entry == [customer |-> c, at |-> now]
    IN  /\ s # NoService
        /\ c # Anonymous
        /\ Len(wrote[s]) < MaxContacts
        /\ contacts' = [contacts EXCEPT
                          ![s] = BoundedAppend(@, entry, MaxContactsPerService)]
        /\ wrote' = [wrote EXCEPT ![s] = Append(@, entry)]
        /\ UNCHANGED <<now, seenOrder, seenResult, outreachLog, pc, job, platform,
                       rounds, forgotten, messaged, lost>>

(***************************************************************************)
(* The platform delivers e until it gets a response; it may also deliver it *)
(* again after that, or while a first delivery is still being handled (its  *)
(* own timeout fired).                                                      *)
(***************************************************************************)
Deliver(w, e) ==
    /\ pc[w] = "idle"
    /\ IF e \notin acked /\ ~InProgress(e)
       THEN redelivered' = redelivered
       ELSE /\ redelivered < MaxRedeliveries
            /\ redelivered' = redelivered + 1

\* The handler has its result and the worker ends its request.  The platform gets
\* the answer unless save_event raises (a locked or full database): then the
\* response is a 500, although the event was handled.
Answer(w, e) ==
    /\ pc' = [pc EXCEPT ![w] = "idle"]
    /\ job' = [job EXCEPT ![w] = NoJob]
    /\ acked' \in {acked, acked \cup {e}}

\* already_handled finds a result: it is returned, flagged as a duplicate.
CheckDuplicate(w, e) ==
    /\ Deliver(w, e)
    /\ Remembered(e)
    /\ Answer(w, e)
    /\ UNCHANGED <<now, memory, restarts, history>>

\* Mutant: the duplicate check is left out.
CheckNothing(w, e) ==
    /\ Deliver(w, e)
    /\ job' = [job EXCEPT ![w] = JobFor(e)]
    /\ pc' = [pc EXCEPT ![w] = IF WantsOutreach(e) THEN "cutoff" ELSE "remember"]
    /\ UNCHANGED <<now, memory, acked, restarts, history>>

\* already_handled finds nothing.
CheckFresh(w, e) ==
    /\ Deliver(w, e)
    /\ ~Remembered(e)
    /\ job' = [job EXCEPT ![w] = JobFor(e)]
    /\ pc' = [pc EXCEPT ![w] = IF WantsOutreach(e) THEN "cutoff" ELSE "remember"]
    /\ UNCHANGED <<now, memory, acked, restarts, history>>

\* recent_contacts reads the clock before it takes the lock.
TakeCutoff(w) ==
    /\ pc[w] = "cutoff"
    /\ job' = [job EXCEPT ![w].cutoff = now - ContactWindow]
    /\ pc' = [pc EXCEPT ![w] = "snapshot"]
    /\ UNCHANGED <<now, memory, platform, history>>

\* recent_contacts filters and de-duplicates the registry of the service.
Snapshot(w) ==
    LET s == EventService[job[w].event]
    IN  /\ pc[w] = "snapshot"
        /\ s # BadService
        /\ job' = [job EXCEPT ![w].outreach = Affected(s, job[w].cutoff)]
        /\ pc' = [pc EXCEPT ![w] = "remember"]
        /\ UNCHANGED <<now, memory, platform, history>>

\* Mutant: the exception takes the worker's thread with it.
SnapshotHangs(w) ==
    /\ pc[w] = "snapshot"
    /\ EventService[job[w].event] = BadService
    /\ UNCHANGED vars

\* _contacts.get raises TypeError on an unhashable service: the request fails
\* with a 500, nothing is remembered and the platform will deliver it again.
SnapshotRaises(w) ==
    /\ pc[w] = "snapshot"
    /\ EventService[job[w].event] = BadService
    /\ pc' = [pc EXCEPT ![w] = "idle"]
    /\ job' = [job EXCEPT ![w] = NoJob]
    /\ UNCHANGED <<now, memory, platform, history>>

\* Mutant: a known key is added again.
StoreAgain(e, result) ==
    /\ seenOrder' = BoundedAppend(seenOrder, e, MaxSeenEvents)
    /\ seenResult' = [seenResult EXCEPT ![e] = result]
    /\ UNCHANGED <<forgotten, lost>>

(***************************************************************************)
(* _remember: assigning an existing key of an OrderedDict keeps its place,  *)
(* a new key goes last; beyond the capacity the oldest key is dropped.      *)
(***************************************************************************)
Store(e, result) ==
    LET order   == IF Remembered(e) THEN seenOrder ELSE Append(seenOrder, e)
        stored  == [seenResult EXCEPT ![e] = result]
    IN  IF Len(order) > MaxSeenEvents
        THEN /\ seenOrder' = Tail(order)
             /\ seenResult' = [stored EXCEPT ![Head(order)] = NoResult]
             /\ forgotten' = forgotten \cup {Head(order)}
             /\ lost' = [lost EXCEPT ![Head(order)] = @ + 1]
        ELSE /\ seenOrder' = order
             /\ seenResult' = stored
             /\ UNCHANGED <<forgotten, lost>>

\* The result of an event without outreach is remembered and returned.
RememberQuiet(w) ==
    LET e == job[w].event
    IN  /\ pc[w] = "remember"
        /\ ~WantsOutreach(e)
        /\ Store(e, Outcome(e, {}))
        /\ Answer(w, e)
        /\ UNCHANGED <<now, contacts, outreachLog, redelivered, restarts, wrote, rounds,
                       messaged>>

\* Mutant: the handler returns as soon as the result is remembered.
RememberAndReturn(w) ==
    LET e == job[w].event
    IN  /\ pc[w] = "remember"
        /\ WantsOutreach(e)
        /\ Store(e, Outcome(e, job[w].outreach))
        /\ Answer(w, e)
        /\ UNCHANGED <<now, contacts, outreachLog, redelivered, restarts, wrote, rounds,
                       messaged>>

\* The result of an outreach is remembered before the round is logged.
RememberOutreach(w) ==
    LET e == job[w].event
    IN  /\ pc[w] = "remember"
        /\ WantsOutreach(e)
        /\ Store(e, Outcome(e, job[w].outreach))
        /\ pc' = [pc EXCEPT ![w] = "log"]
        /\ UNCHANGED <<now, contacts, outreachLog, job, platform, wrote, rounds, messaged>>

\* The round goes out: it is logged, under a second acquisition of the lock,
\* and returned to the caller.
Log(w) ==
    LET e     == job[w].event
        batch == [service |-> EventService[e], received |-> job[w].received,
                  at |-> now, outreach |-> job[w].outreach]
    IN  /\ pc[w] = "log"
        /\ outreachLog' = BoundedAppend(outreachLog, batch, MaxOutreachLog)
        /\ rounds' = [rounds EXCEPT ![e][w] = @ + 1]
        /\ messaged' = [messaged EXCEPT
             ![e][w] = [c \in Customers |->
                          IF c \in job[w].outreach THEN @[c] + 1 ELSE @[c]]]
        /\ Answer(w, e)
        /\ UNCHANGED <<now, contacts, seenOrder, seenResult, redelivered, restarts, wrote,
                       forgotten, lost>>

\* The process dies and starts again with empty structures; whatever a worker
\* was doing is lost, and so is its response.
Restart ==
    /\ restarts < MaxRestarts
    /\ restarts' = restarts + 1
    /\ contacts' = [s \in Services |-> << >>]
    /\ seenOrder' = << >>
    /\ seenResult' = [e \in EventIds |-> NoResult]
    /\ outreachLog' = << >>
    /\ pc' = [w \in Workers |-> "idle"]
    /\ job' = [w \in Workers |-> NoJob]
    /\ wrote' = [s \in Services |-> << >>]
    /\ rounds' = [e \in EventIds |-> [w \in Workers |-> 0]]
    /\ forgotten' = {}
    /\ lost' = [e \in EventIds |-> IF Remembered(e) THEN lost[e] + 1 ELSE lost[e]]
    /\ UNCHANGED <<now, acked, redelivered, messaged>>

\* Every event has its response and no request is waiting: the server idles.
Waiting ==
    /\ \A w \in Workers : pc[w] = "idle"
    /\ EventIds \subseteq acked
    /\ UNCHANGED vars

\* The steps of a worker that is inside the handler.
Proceed(w) ==
    \/ TakeCutoff(w)
    \/ Snapshot(w)
    \/ SnapshotRaises(w)
    \/ RememberQuiet(w)
    \/ RememberOutreach(w)
    \/ Log(w)

Receive(w, e) == CheckDuplicate(w, e) \/ CheckFresh(w, e)

Next ==
    \/ Tick
    \/ \E c \in Customers, s \in Services \cup {NoService} : RecordContact(c, s)
    \/ \E w \in Workers, e \in EventIds : Receive(w, e)
    \/ \E w \in Workers : Proceed(w)
    \/ Restart
    \/ Waiting

Spec == Init /\ [][Next]_vars

(***************************************************************************)
(* A thread that runs is eventually scheduled, and the lock is held for     *)
(* straight-line code only.  The platform retries an unanswered event, and  *)
(* the server takes waiting requests in order of arrival, so a delivery     *)
(* that finds a free worker again and again is taken.  The database does    *)
(* not refuse every write for ever.  Nothing makes customers write, the     *)
(* clock pass a bound or the process restart.                               *)
(***************************************************************************)
Retry(e) == e \notin acked /\ \E w \in Workers : Receive(w, e)

Saved(e) ==
    /\ e \notin acked
    /\ \E w \in Workers : Receive(w, e) \/ Proceed(w)
    /\ e \in acked'

Fairness ==
    /\ \A w \in Workers : WF_vars(Proceed(w))
    /\ \A e \in EventIds : SF_vars(Retry(e)) /\ SF_vars(Saved(e))

FairSpec == Spec /\ Fairness
-----------------------------------------------------------------------------
PcValues == {"idle", "cutoff", "snapshot", "remember", "log"}

TypeOK ==
    /\ now \in Nat
    /\ contacts \in [Services -> Seq(Contact)]
    /\ seenOrder \in Seq(EventIds)
    /\ seenResult \in [EventIds -> Result]
    /\ outreachLog \in Seq(Batch)
    /\ pc \in [Workers -> PcValues]
    /\ job \in [Workers -> Job]
    /\ acked \in SUBSET EventIds
    /\ redelivered \in Nat
    /\ restarts \in Nat
    /\ wrote \in [Services -> Seq(Contact)]
    /\ rounds \in [EventIds -> [Workers -> Nat]]
    /\ forgotten \in SUBSET EventIds
    /\ messaged \in [EventIds -> [Workers -> [Customers -> Nat]]]
    /\ lost \in [EventIds -> Nat]

\* What the place of a worker in the handler says about its event: without it
\* TypeOK is not inductive, since a round is logged for a service that is a name.
JobFitsStep ==
    \A w \in Workers :
        /\ pc[w] # "idle" => job[w].event \in EventIds
        /\ pc[w] \in {"cutoff", "snapshot", "log"} => WantsOutreach(job[w].event)
        /\ pc[w] \in {"remember", "log"} /\ WantsOutreach(job[w].event)
              => EventService[job[w].event] \in Services
-----------------------------------------------------------------------------
(***************************************************************************)
(* Idempotency, as far as the code gives it (proactive.py:64-73, 83-88):    *)
(* while the process lives and the event id is not pushed out of            *)
(* _seen_events, a worker that sent a round for an event never sends        *)
(* another one for it, however often it is redelivered and whichever other  *)
(* events come in between.                                                  *)
(***************************************************************************)
OneRoundPerWorker ==
    \A e \in EventIds \ forgotten, w \in Workers : rounds[e][w] <= 1

(***************************************************************************)
(* What becomes of it beyond one process life (proactive.py:34, 64-73,      *)
(* 83-88): a worker repeats itself only as often as the memory lost the     *)
(* event, be it to make room or in a restart.  So no customer gets more     *)
(* messages about an event than there are workers, and as many again for    *)
(* each time it was lost, whatever is redelivered, overlaps, fails to be    *)
(* saved, or dies half-way.                                                 *)
(***************************************************************************)
RepeatsAreExplained ==
    \A e \in EventIds, w \in Workers, c \in Customers :
        messaged[e][w][c] <= 1 + lost[e]

(***************************************************************************)
(* Idempotency, as the documentation promises it (server.py:166-169): no    *)
(* customer is messaged twice about one event.                              *)
(***************************************************************************)
NobodyMessagedTwice ==
    \A e \in EventIds, c \in Customers, v, w \in Workers :
        /\ messaged[e][w][c] <= 1
        /\ v # w => messaged[e][v][c] = 0 \/ messaged[e][w][c] = 0

(***************************************************************************)
(* The code remembers an event before it logs the round (proactive.py:      *)
(* 133-136).  An event remembered as an outreach is never an empty promise: *)
(* its round went out, or the worker that decided it is about to send it.   *)
(* A duplicate answered meanwhile is answered correctly.                    *)
(***************************************************************************)
NoSilentRound ==
    \A e \in EventIds : seenResult[e].kind = "outreach" =>
        \E w \in Workers : \/ rounds[e][w] > 0
                            \/ (pc[w] = "log" /\ job[w].event = e)

\* The customer wrote to us about the service, under a name that can be reached.
WroteBetween(c, service, from, until) ==
    /\ c # Anonymous
    /\ \E d \in Elements(wrote[service]) : d.customer = c /\ d.at >= from /\ d.at <= until

(***************************************************************************)
(* Every addressee of a round wrote to us about that very service, under a  *)
(* name that can be reached, and no longer ago than the window before the   *)
(* event came in (recent_contacts, proactive.py:49-61), although cutoff,    *)
(* snapshot and log are three instants with other requests between them.    *)
(***************************************************************************)
AudienceWroteToUs ==
    \A b \in Elements(outreachLog) : \A c \in b.outreach :
        WroteBetween(c, b.service, b.received - ContactWindow, b.at)

\* The strengthening that makes it inductive: the registry holds only what was
\* written, and a worker carries a cutoff and an audience that are sound.
AudienceInMaking ==
    /\ \A s \in Services : /\ Elements(contacts[s]) \subseteq Elements(wrote[s])
                           /\ \A d \in Elements(wrote[s]) :
                                d.customer # Anonymous /\ d.at <= now
    /\ \A w \in Workers :
          /\ pc[w] # "idle" => job[w].received <= now
          /\ pc[w] = "snapshot" => job[w].cutoff >= job[w].received - ContactWindow
          /\ pc[w] \in {"remember", "log"} /\ WantsOutreach(job[w].event) =>
               \A c \in job[w].outreach :
                   WroteBetween(c, EventService[job[w].event],
                                job[w].received - ContactWindow, now)

\* A contact that entitles its customer to a round: it was recorded before the
\* event came in, and is still inside the window when the round goes out.
Entitled(d, received, sent) == d.at < received /\ d.at >= sent - ContactWindow

\* The customers with an entitling contact among the last MaxContactsPerService
\* ones of the service are all in the audience.
Covers(audience, service, received, sent) ==
    \A i \in DOMAIN wrote[service] :
        LET d == wrote[service][i]
        IN  Entitled(d, received, sent) /\ i > Len(wrote[service]) - MaxContactsPerService
              => d.customer \in audience

(***************************************************************************)
(* Nobody the registry can still know is passed over: whoever is entitled   *)
(* to a round is in it (recent_contacts, proactive.py:49-61), although the  *)
(* cutoff is read before the lock is taken and other customers push         *)
(* contacts out of the registry between the steps of the handler.           *)
(***************************************************************************)
AudienceIsComplete ==
    \A b \in Elements(outreachLog) : Covers(b.outreach, b.service, b.received, b.at)

\* s holds the last n elements of h, or all of them, in the order of h.
HoldsLast(s, h, n) ==
    LET gone == Len(h) - Len(s)
    IN  /\ gone >= 0 /\ Len(s) <= n
        /\ gone = 0 \/ Len(s) = n
        /\ \A i \in DOMAIN s : s[i] = h[gone + i]

\* The strengthening that makes it inductive: the registry holds the last
\* contacts and in the order they were written, a cutoff is never ahead of the
\* clock's window, and an audience in the hands of a worker is complete so far.
CompletenessInMaking ==
    /\ \A s \in Services : HoldsLast(contacts[s], wrote[s], MaxContactsPerService)
    /\ \A w \in Workers :
          /\ pc[w] # "idle" => job[w].received <= now
          /\ pc[w] = "snapshot" => job[w].cutoff <= now - ContactWindow
          /\ pc[w] \in {"remember", "log"} /\ WantsOutreach(job[w].event) =>
               Covers(job[w].outreach, EventService[job[w].event], job[w].received, now)
    /\ \A b \in Elements(outreachLog) : b.received <= now

\* The keys of _seen_events are distinct, they are the events with a result, and
\* there are no more of them than the capacity allows.
SeenConsistent ==
    /\ Len(seenOrder) <= MaxSeenEvents
    /\ \A i, j \in DOMAIN seenOrder : seenOrder[i] = seenOrder[j] => i = j
    /\ \A e \in EventIds : Remembered(e) <=> \E i \in DOMAIN seenOrder : seenOrder[i] = e

(***************************************************************************)
(* What every step leaves behind, including two workers that remember the   *)
(* same event one after the other and an eviction in between                *)
(* (proactive.py:69-73): the idempotency memory is a proper ordered         *)
(* dictionary and all three structures respect their capacities.            *)
(***************************************************************************)
MemoryConsistent ==
    /\ SeenConsistent
    /\ Len(outreachLog) <= MaxOutreachLog
    /\ \A s \in Services : Len(contacts[s]) <= MaxContactsPerService

(***************************************************************************)
(* The strengthening that makes OneRoundPerWorker inductive: an event some  *)
(* worker sent a round for, or is about to, is remembered, and a worker     *)
(* that is past the duplicate check has not sent a round for its event yet. *)
(***************************************************************************)
RoundIsRemembered ==
    \A e \in EventIds \ forgotten, w \in Workers :
        /\ rounds[e][w] > 0 => Remembered(e)
        /\ pc[w] # "idle" /\ job[w].event = e => rounds[e][w] = 0
        /\ pc[w] = "log" /\ job[w].event = e => Remembered(e)

\* The strengthening that makes RepeatsAreExplained inductive: what the memory holds
\* is not lost yet, and a worker past the duplicate check found nothing there.
Held(e) == IF Remembered(e) THEN 1 ELSE 0

RepeatsInMaking ==
    \A e \in EventIds, w \in Workers, c \in Customers :
        /\ messaged[e][w][c] <= lost[e] + Held(e)
        /\ job[w].event = e =>
             /\ pc[w] \in {"cutoff", "snapshot", "remember"} => messaged[e][w][c] <= lost[e]
             /\ pc[w] = "log" => messaged[e][w][c] < lost[e] + Held(e)

\* An event whose service is a proper value, or missing, gets a response, even
\* while another event fails on every delivery and is retried for ever.
WellFormed(e) == EventType[e] # "opened" \/ EventService[e] # BadService
EventuallyAnswered == \A e \in EventIds : WellFormed(e) => <>(e \in acked)

\* The idempotency memory never has to forget: there is room for every event.
NoEviction == Cardinality(EventIds) <= MaxSeenEvents

\* What a worker has taken on: after it remembered an outreach it owes the round.
Duty(w) ==
    IF pc[w] = "idle" THEN NoJob
    ELSE [event |-> job[w].event, settled |-> pc[w] = "log",
          owed |-> IF pc[w] = "log" THEN job[w].outreach ELSE {}]

Promise ==
    INSTANCE OutreachPromise WITH
        Senders   <- Workers,
        Outcomes  <- Result,
        Unsettled <- NoResult,
        Nothing   <- NoJob,
        Forgets   <- ~NoEviction,
        outcome   <- seenResult,
        duty      <- [w \in Workers |-> Duty(w)]

(***************************************************************************)
(* The handler implements the promise (proactive.py:76-137), although it    *)
(* takes five critical sections and clock reads, workers race each other,   *)
(* the memory evicts and the process dies: whoever remembered an outreach   *)
(* messages exactly the customers that a duplicate is told of, once, and    *)
(* nothing else changes an outcome.                                         *)
(***************************************************************************)
PromiseKept == Promise!PromiseSpec
=============================================================================
