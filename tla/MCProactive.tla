---------------------------- MODULE MCProactive ----------------------------
(***************************************************************************)
(* Proactive on small instances.  The events and their contents are chosen  *)
(* per run with EventType <- ... and EventService <- ... in the .cfg.       *)
(***************************************************************************)
EXTENDS Proactive, TLC

CONSTANTS checkout, search,                     \* services
          outage, slowdown, recovery, malformed, nameless \* events

\* An outage of checkout, its recovery, an incident on another service, an event
\* whose sender put an object where the name of the service belongs, and one
\* that names no service.
Types ==
    (outage :> "opened") @@ (slowdown :> "opened") @@
    (recovery :> "resolved") @@ (malformed :> "opened") @@ (nameless :> "opened")
Targets ==
    (outage :> checkout) @@ (slowdown :> search) @@
    (recovery :> checkout) @@ (malformed :> BadService) @@ (nameless :> NoService)

\* A bound for runs in which events are forgotten and handled again and again.
MaxRounds == 2
FewRounds == \A e \in EventIds, w \in Workers : rounds[e][w] <= MaxRounds

EventTypes    == [e \in EventIds |-> Types[e]]
EventServices == [e \in EventIds |-> Targets[e]]
=============================================================================
