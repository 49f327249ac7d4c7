--------------------------- MODULE OutreachPromise ---------------------------
(***************************************************************************)
(* What the receiver of incident events promises, apart from registries,    *)
(* clocks, locks and databases (src/api/server.py, the docstring of         *)
(* receive_incident_event; src/orchestration/proactive.py): a sender takes  *)
(* an event only while it has no outcome, gives it one, and if that is an   *)
(* outreach has exactly the customers messaged that the outcome names,      *)
(* once, before it turns to anything else.  Only a crash comes in between.  *)
(*                                                                          *)
(* Several senders may have taken the same event before the first of them   *)
(* settles it, and outcomes are lost by a crash or to make room: this much  *)
(* the promise leaves open.                                                 *)
(***************************************************************************)
EXTENDS Naturals

CONSTANTS
    EventIds,   \* the events of the platform
    Customers,  \* whom a round may message
    Senders,    \* who handles events
    Outcomes,   \* records with the fields kind and outreach
    Unsettled,  \* the outcome of an event nobody has settled, or that is forgotten
    Nothing,    \* the duty of a sender that handles no event
    Forgets     \* whether there may be too little room for all outcomes

VARIABLES
    outcome,    \* [EventIds -> Outcomes]
    duty,       \* per sender: its event, whether it has settled it, whom it owes a message
    messaged    \* [EventIds -> [Senders -> [Customers -> Nat]]], messages so far

promiseVars == <<outcome, duty, messaged>>

PromiseInit ==
    /\ outcome = [e \in EventIds |-> Unsettled]
    /\ duty = [s \in Senders |-> Nothing]
    /\ messaged = [e \in EventIds |-> [s \in Senders |-> [c \in Customers |-> 0]]]

Owing(e, customers) == [event |-> e, settled |-> TRUE, owed |-> customers]
Taken(e)            == [event |-> e, settled |-> FALSE, owed |-> {}]

\* A sender takes an event without an outcome.
Take(s, e) ==
    /\ duty[s] = Nothing
    /\ outcome[e] = Unsettled
    /\ duty' = [duty EXCEPT ![s] = Taken(e)]
    /\ UNCHANGED <<outcome, messaged>>

\* It gives up before the event has its outcome.
Drop(s, e) ==
    /\ duty[s] = Taken(e)
    /\ duty' = [duty EXCEPT ![s] = Nothing]
    /\ UNCHANGED <<outcome, messaged>>

\* The event gets its outcome, and another one may lose its own to make room.
Settle(s, e) ==
    /\ duty[s] = Taken(e)
    /\ \E o \in Outcomes \ {Unsettled} :
         /\ \/ outcome' = [outcome EXCEPT ![e] = o]
            \/ /\ Forgets
               /\ \E d \in EventIds \ {e} :
                    outcome' = [outcome EXCEPT ![e] = o, ![d] = Unsettled]
         /\ duty' = [duty EXCEPT
                      ![s] = IF o.kind = "outreach" THEN Owing(e, o.outreach) ELSE Nothing]
    /\ UNCHANGED messaged

\* Everyone the sender owes a message gets it.
Send(s, e) ==
    /\ \E customers \in SUBSET Customers :
         /\ duty[s] = Owing(e, customers)
         /\ messaged' = [messaged EXCEPT
              ![e][s] = [c \in Customers |-> IF c \in customers THEN @[c] + 1 ELSE @[c]]]
    /\ duty' = [duty EXCEPT ![s] = Nothing]
    /\ UNCHANGED outcome

\* What was settled or taken is lost; what was sent is sent.
Crash ==
    /\ outcome' = [e \in EventIds |-> Unsettled]
    /\ duty' = [s \in Senders |-> Nothing]
    /\ UNCHANGED messaged

PromiseNext ==
    \/ \E s \in Senders, e \in EventIds :
         Take(s, e) \/ Drop(s, e) \/ Settle(s, e) \/ Send(s, e)
    \/ Crash

PromiseSpec == PromiseInit /\ [][PromiseNext]_promiseVars
=============================================================================
