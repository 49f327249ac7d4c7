---------------------------- MODULE ServiceClient ----------------------------
(***************************************************************************)
(* One downstream service as the decision path sees it: ServiceClient and   *)
(* its CircuitBreaker (src/integrations/client.py), shared without a lock   *)
(* by every thread that handles a request, and made by the first of them    *)
(* (src/integrations/services.py).  Threads that are first together make    *)
(* one each; the last one stays, and whoever holds another goes on with a   *)
(* client that nobody will find again: of such a thread only the outcome is *)
(* modelled.                                                                *)
(*                                                                          *)
(* CPython 3.13 switches threads at calls, not between plain attribute      *)
(* accesses, so is_open and record_failure, which call time.monotonic()     *)
(* halfway, are two steps each and record_success is one.  Time is kept as  *)
(* ages: openedAge is how long ago opened_at was, clockAge how long ago the *)
(* thread read the clock value it is about to use.                          *)
(*                                                                          *)
(* URLs, headers, bodies and the wording of failures are left out; TIMEOUT  *)
(* and ERROR are one result, since both count as a failure.                 *)
(***************************************************************************)
EXTENDS Integers, FiniteSets

CONSTANTS
    Workers,    \* threads that handle requests
    Threshold,  \* failures that open the circuit
    Cooldown,   \* ticks the circuit stays open
    Never       \* opened_at = None

CONSTANT        \* a bound of the model, not of the program
    MaxLag      \* ticks that may pass between two halves of is_open or record_failure

ASSUME BreakerAssumption ==
    /\ IsFiniteSet(Workers)
    /\ Threshold \in Nat \ {0}
    /\ Cooldown \in Nat \ {0}
    /\ MaxLag \in Nat
    /\ Never \notin Int

\* What a dependency makes of an attempt that reaches it, by its health.
Replies == [up   |-> {"ok", "client_error"},
            down |-> {"server_error", "no_answer", "malformed", "truncated"}]

\* What becomes of a request that cannot be sent, whatever the health of the
\* dependency.  Text that is not ASCII in the URL raises UnicodeEncodeError, which is
\* a ValueError; a space in it raises InvalidURL, which is not; and a base URL
\* without a scheme makes Request() raise, outside the try.
Unsendable == {"unencodable", "invalid"}

AllReplies == Replies.up \cup Replies.down \cup Unsendable

VARIABLES
    configured,  \* whether a base URL was given, fixed for the life of the process
    made,        \* clients made so far; the newest is the one in _clients
    dependency,  \* the health of the service on the other side, "up" or "down"
    failures,    \* CircuitBreaker.failures of the newest client
    openedAge,   \* ticks since CircuitBreaker.opened_at, or Never
    pc,          \* where each thread stands
    purpose,     \* what it came for: a "call" or the "status" for /health
    clockAge,    \* ticks since it read the clock
    result,      \* what its last call returned
    probe        \* history: whether a call decided the circuit after a cooldown

breaker == <<failures, openedAge>>
threads == <<pc, purpose, clockAge, result>>
vars    == <<configured, made, dependency, breaker, threads, probe>>

AgeBound == Cooldown + MaxLag
Ages     == 0..AgeBound

\* One tick more, as long as the difference matters.
Older(age) == IF age = Never THEN Never ELSE IF age < AgeBound THEN age + 1 ELSE age

Init ==
    /\ configured \in BOOLEAN
    /\ made = 0
    /\ dependency = "up"
    /\ failures = 0
    /\ openedAge = Never
    /\ pc = [w \in Workers |-> "idle"]
    /\ purpose = [w \in Workers |-> "call"]
    /\ clockAge = [w \in Workers |-> 0]
    /\ result = [w \in Workers |-> "none"]
    /\ probe = "none"

\* The thread is done; its clock value is forgotten.
Return(w, r) ==
    /\ pc' = [pc EXCEPT ![w] = "idle"]
    /\ clockAge' = [clockAge EXCEPT ![w] = 0]
    /\ result' = [result EXCEPT ![w] = r]
    /\ UNCHANGED purpose

Holding == {"compare", "opening"}

\* No thread sits between reading the clock and using it for longer than MaxLag.
Tick ==
    /\ \A w \in Workers : pc[w] \in Holding => clockAge[w] < MaxLag
    /\ openedAge' = Older(openedAge)
    /\ clockAge' = [w \in Workers |->
                      IF pc[w] \in Holding THEN clockAge[w] + 1 ELSE clockAge[w]]
    /\ UNCHANGED <<configured, made, dependency, failures, pc, purpose, result, probe>>

DependencyChanges ==
    /\ dependency' = IF dependency = "up" THEN "down" ELSE "up"
    /\ UNCHANGED <<configured, made, breaker, threads, probe>>

\* Mutant: a client is made for every request.
FindNone(w, why) ==
    /\ pc[w] = "idle"
    /\ pc' = [pc EXCEPT ![w] = "making"]
    /\ purpose' = [purpose EXCEPT ![w] = why]
    /\ result' = [result EXCEPT ![w] = "none"]
    /\ UNCHANGED <<configured, made, dependency, breaker, clockAge, probe>>

\* _client looks for the name in _clients.
Find(w, why) ==
    /\ pc[w] = "idle"
    /\ pc' = [pc EXCEPT ![w] = IF made = 0 THEN "making" ELSE "found"]
    /\ purpose' = [purpose EXCEPT ![w] = why]
    /\ result' = [result EXCEPT ![w] = "none"]
    /\ UNCHANGED <<configured, made, dependency, breaker, clockAge, probe>>

\* Threads that hold the newest client.
Holders == {w \in Workers : pc[w] \notin {"idle", "making", "abandoned"}}

(***************************************************************************)
(* _client makes one and puts it into _clients, over one that another       *)
(* thread put there meanwhile.  A fetch calls _client again before it sends *)
(* a request, and may find the new one; any other holder keeps the old.     *)
(***************************************************************************)
Make(w) ==
    /\ pc[w] = "making"
    /\ made' = made + 1
    /\ failures' = 0
    /\ openedAge' = Never
    /\ probe' = "none"
    /\ \E again \in SUBSET {v \in Holders : pc[v] = "found" /\ purpose[v] = "call"} :
         pc' = [v \in Workers |-> IF v = w THEN "found"
                                  ELSE IF v \in Holders \ again THEN "abandoned"
                                  ELSE pc[v]]
    /\ clockAge' = [v \in Workers |-> 0]
    /\ UNCHANGED <<configured, dependency, purpose, result>>

\* What a thread may bring back from a client that was replaced.
ReturnAbandoned(w) ==
    /\ pc[w] = "abandoned"
    /\ \E r \in IF purpose[w] = "status" THEN {"none", "raised"}
              ELSE IF configured THEN {"ok", "error", "circuit_open", "raised"}
              ELSE {"not_configured"} : Return(w, r)
    /\ UNCHANGED <<configured, made, dependency, breaker, probe>>

\* _call without a base URL.
CallUnconfigured(w) ==
    /\ pc[w] = "found"
    /\ purpose[w] = "call"
    /\ ~configured
    /\ Return(w, "not_configured")
    /\ UNCHANGED <<configured, made, dependency, breaker, probe>>

(***************************************************************************)
(* is_open, first half: nothing is open, or the clock is read.  A closed    *)
(* circuit lets a call through at once, and a status has its answer.        *)
(***************************************************************************)
CheckOpen(w) ==
    /\ pc[w] = "found"
    /\ purpose[w] = "call" => configured
    /\ pc' = [pc EXCEPT ![w] = IF openedAge # Never THEN "compare"
                               ELSE IF purpose[w] = "call" THEN "first" ELSE "idle"]
    /\ UNCHANGED <<configured, made, dependency, breaker, purpose, clockAge, result, probe>>

\* What is_open answers decides how the thread goes on.
Admitted(w) ==
    /\ pc' = [pc EXCEPT ![w] = IF purpose[w] = "call" THEN "first" ELSE "idle"]
    /\ clockAge' = [clockAge EXCEPT ![w] = 0]
    /\ UNCHANGED <<purpose, result>>

\* Mutant: the caller gets the state of the circuit for an outcome.
RefusedOpen(w) == Return(w, IF purpose[w] = "call" THEN "open" ELSE "none")

Refused(w) == Return(w, IF purpose[w] = "call" THEN "circuit_open" ELSE "none")

\* is_open, second half, after the cooldown: the circuit is half-open.
HalfOpen(w) ==
    /\ pc[w] = "compare"
    /\ openedAge # Never
    /\ openedAge - clockAge[w] >= Cooldown
    /\ openedAge' = Never
    /\ failures' = 0
    /\ probe' = "awaited"
    /\ Admitted(w)
    /\ UNCHANGED <<configured, made, dependency>>

\* Mutant: every look at an open circuit starts the cooldown again.
StillOpenRestarts(w) ==
    /\ pc[w] = "compare"
    /\ openedAge # Never
    /\ openedAge - clockAge[w] < Cooldown
    /\ openedAge' = 0
    /\ Refused(w)
    /\ UNCHANGED <<configured, made, dependency, failures, probe>>

\* is_open, second half, before the end of the cooldown.
StillOpen(w) ==
    /\ pc[w] = "compare"
    /\ openedAge # Never
    /\ openedAge - clockAge[w] < Cooldown
    /\ Refused(w)
    /\ UNCHANGED <<configured, made, dependency, breaker, probe>>

\* is_open, second half, after another thread set opened_at to None: the
\* subtraction raises TypeError.
CompareRaises(w) ==
    /\ pc[w] = "compare"
    /\ openedAge = Never
    /\ Return(w, "raised")
    /\ UNCHANGED <<configured, made, dependency, breaker, probe>>

Calling == {"first", "second"}

\* How the attempt of a thread may end: a request that can be sent once can be sent
\* again.
Possible(w) == Replies[dependency] \cup IF pc[w] = "first" THEN Unsendable ELSE {}

\* Mutant: record_success leaves the count alone.
SucceedKeepsCount(w, reply) ==
    /\ pc[w] \in Calling
    /\ reply \in Possible(w)
    /\ reply \in {"ok", "client_error"}
    /\ openedAge' = Never
    /\ probe' = "none"
    /\ Return(w, IF reply = "ok" THEN "ok" ELSE "error")
    /\ UNCHANGED <<configured, made, dependency, failures>>

\* record_success: a good answer, or a 4xx, which says the service is healthy.
Succeed(w, reply) ==
    /\ pc[w] \in Calling
    /\ reply \in Possible(w)
    /\ reply \in {"ok", "client_error"}
    /\ failures' = 0
    /\ openedAge' = Never
    /\ probe' = "none"
    /\ Return(w, IF reply = "ok" THEN "ok" ELSE "error")
    /\ UNCHANGED <<configured, made, dependency>>

\* A 5xx, a timeout or an unreachable host is tried once more.
Retry(w, reply) ==
    /\ pc[w] = "first"
    /\ reply \in Possible(w)
    /\ reply \in {"server_error", "no_answer"}
    /\ pc' = [pc EXCEPT ![w] = "second"]
    /\ UNCHANGED <<configured, made, dependency, breaker, purpose, clockAge, result, probe>>

\* Mutant: the circuit opens one failure late.
CountFailureLate(w, reply) ==
    /\ pc[w] \in Calling
    /\ reply \in Possible(w)
    /\ \/ reply \in {"malformed", "unencodable"}
       \/ pc[w] = "second" /\ reply \in {"server_error", "no_answer"}
    /\ failures' = failures + 1
    /\ IF failures + 1 > Threshold
       THEN /\ pc' = [pc EXCEPT ![w] = "opening"]
            /\ clockAge' = [clockAge EXCEPT ![w] = 0]
            /\ UNCHANGED <<purpose, result, probe>>
       ELSE /\ Return(w, "error")
            /\ UNCHANGED probe
    /\ UNCHANGED <<configured, made, dependency, openedAge>>

(***************************************************************************)
(* record_failure, first half: count, and at the threshold read the clock.  *)
(* It follows a ValueError at once, be it from a body that does not parse or *)
(* from a URL that cannot be encoded, and any other failure after the retry. *)
(***************************************************************************)
CountFailure(w, reply) ==
    /\ pc[w] \in Calling
    /\ reply \in Possible(w)
    /\ \/ reply \in {"malformed", "unencodable"}
       \/ pc[w] = "second" /\ reply \in {"server_error", "no_answer"}
    /\ failures' = failures + 1
    /\ IF failures + 1 >= Threshold
       THEN /\ pc' = [pc EXCEPT ![w] = "opening"]
            /\ clockAge' = [clockAge EXCEPT ![w] = 0]
            /\ UNCHANGED <<purpose, result, probe>>
       ELSE /\ Return(w, "error")
            /\ probe' = IF probe = "awaited" THEN "ignored" ELSE probe
    /\ UNCHANGED <<configured, made, dependency, openedAge>>

\* record_failure, second half: opened_at becomes the clock value read before.
OpenCircuit(w) ==
    /\ pc[w] = "opening"
    /\ openedAge' = clockAge[w]
    /\ probe' = "none"
    /\ Return(w, "error")
    /\ UNCHANGED <<configured, made, dependency, failures>>

\* http.client.IncompleteRead, InvalidURL and their kin are neither an OSError nor
\* a ValueError, and Request() is outside the try: what they raise leaves _call,
\* and the breaker hears nothing of it.
CallRaises(w, reply) ==
    /\ pc[w] \in Calling
    /\ reply \in Possible(w)
    /\ reply \in {"truncated", "invalid"}
    /\ Return(w, "raised")
    /\ UNCHANGED <<configured, made, dependency, breaker, probe>>

Arrive(w) == \E why \in {"call", "status"} : Find(w, why)

Proceed(w) ==
    \/ Make(w)
    \/ ReturnAbandoned(w)
    \/ CallUnconfigured(w)
    \/ CheckOpen(w)
    \/ HalfOpen(w)
    \/ StillOpen(w)
    \/ CompareRaises(w)
    \/ \E reply \in AllReplies :
         \/ Succeed(w, reply)
         \/ Retry(w, reply)
         \/ CountFailure(w, reply)
         \/ CallRaises(w, reply)
    \/ OpenCircuit(w)

Next ==
    \/ Tick
    \/ DependencyChanges
    \/ \E w \in Workers : Arrive(w) \/ Proceed(w)

Spec == Init /\ [][Next]_vars

(***************************************************************************)
(* Threads run, time passes, and the liveness probe of the deployment asks  *)
(* /health, which reads the state of every circuit, again and again         *)
(* (k8s/deployment.yaml).  An attempt is not fair: its timeout bounds each  *)
(* socket operation and not the call, so a dependency that sends a byte now *)
(* and then holds the thread as long as it likes.                           *)
(***************************************************************************)
HealthProbe == \E w \in Workers : Find(w, "status")

\* Under way, on the newest client or possibly on a replaced one.
InCall == {w \in Workers : pc[w] \in Calling \cup {"abandoned"}}

Fairness ==
    /\ WF_vars(Tick)
    /\ WF_vars(HealthProbe)
    /\ \A w \in Workers : WF_vars(w \notin InCall /\ Proceed(w))

FairSpec == Spec /\ Fairness
-----------------------------------------------------------------------------
Results == {"none", "ok", "error", "circuit_open", "not_configured", "raised"}

TypeOK ==
    /\ configured \in BOOLEAN
    /\ made \in Nat
    /\ dependency \in {"up", "down"}
    /\ failures \in Nat
    /\ openedAge \in Ages \cup {Never}
    /\ pc \in [Workers -> {"idle", "making", "found", "abandoned",
                           "compare", "first", "second", "opening"}]
    /\ purpose \in [Workers -> {"call", "status"}]
    /\ clockAge \in [Workers -> 0..MaxLag]
    /\ result \in [Workers -> Results]
    /\ probe \in {"none", "awaited", "ignored"}

Making == {w \in Workers : pc[w] = "making"}

(***************************************************************************)
(* services.py:22-23: "a breaker rebuilt per request would never actually   *)
(* open".  A client is made for an empty _clients only, so that however the *)
(* first requests race fewer clients than there are threads are thrown away *)
(* with what their breakers knew, ever.                                     *)
(***************************************************************************)
FewClientsAreMade == made + Cardinality(Making) <= Cardinality(Workers)

(***************************************************************************)
(* What an outage costs (client.py:15-18): from the moment the circuit last *)
(* closed or became half-open, the failed calls that were counted and the   *)
(* calls under way are fewer than the threshold plus one per thread.  It    *)
(* must hold although the threads share the counter without a lock and the  *)
(* circuit opens one step after the counter reached the threshold.          *)
(***************************************************************************)
OutageCostIsBounded ==
    failures + Cardinality(InCall) <= Threshold - 1 + Cardinality(Workers)

Opening == {w \in Workers : pc[w] = "opening"}

(***************************************************************************)
(* Why it does: while the circuit is closed, each failure from the          *)
(* threshold on belongs to a thread that is about to open it.  A counter    *)
(* that reached the threshold with nobody there to open the circuit would   *)
(* let calls through for ever.                                              *)
(***************************************************************************)
ExcessIsOpening ==
    openedAge = Never => failures <= Threshold - 1 + Cardinality(Opening)

(***************************************************************************)
(* The circuit never stays open for ever (client.py:60-65), be it because   *)
(* of an outage that goes on or of requests that cannot be sent, and        *)
(* although any number of attempts may hold their threads for ever.         *)
(***************************************************************************)
LetsCallsThrough == []<>(openedAge = Never)

\* A request that cannot be sent counts as a failure of the dependency.
Blame == \E w \in Workers : CountFailure(w, "unencodable")

(***************************************************************************)
(* Once the service is back for good, and the requests from then on can be  *)
(* sent, the circuit closes for good, whatever was under way when it came   *)
(* back, and although some threads may be held for ever (client.py:60-65).  *)
(***************************************************************************)
Recovers ==
    <>[](dependency = "up") /\ <>[][~Blame]_vars => <>[](openedAge = Never)

(***************************************************************************)
(* client.py:63-64: after the cooldown the next call is allowed through,    *)
(* "and its result decides whether the circuit closes or re-opens".         *)
(***************************************************************************)
HalfOpenProbeDecides == probe # "ignored"
=============================================================================
