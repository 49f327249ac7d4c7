------------------------------ MODULE EventLog ------------------------------
(***************************************************************************)
(* What the event store promises to its callers, apart from connections,    *)
(* migrations, locks and ids (src/utils/storage.py): one log for all of     *)
(* them.  A save that returns has appended its event, and one that raises   *)
(* has not; a read returns the newest events of the log, as it was at one   *)
(* instant of the call.  A crash ends the calls and leaves the log.         *)
(***************************************************************************)
EXTENDS Integers, Sequences

CONSTANTS
    Clients,   \* who calls
    Calls,     \* what for: records with kind, save, request and limit
    NoCall,    \* a client that waits for nothing
    NoRequest, \* a read of the events of all requests
    FirstLogs, \* what the log may hold at first
    MaxEvents  \* no read returns more, unless it asks for everything

VARIABLES
    log,       \* the events, oldest first
    doing,     \* what each client waits for
    outcome,   \* how its last call ended
    told       \* what its last read returned

logVars == <<log, doing, outcome, told>>

LogInit ==
    /\ log \in FirstLogs
    /\ doing = [c \in Clients |-> NoCall]
    /\ outcome = [c \in Clients |-> "none"]
    /\ told = [c \in Clients |-> << >>]

\* A client that waits for nothing calls.
Ask(c) ==
    /\ doing[c] = NoCall
    /\ doing'[c] \in Calls \ {NoCall}
    /\ doing' = [doing EXCEPT ![c] = doing'[c]]
    /\ outcome' = [outcome EXCEPT ![c] = "none"]
    /\ told' = [told EXCEPT ![c] = << >>]
    /\ UNCHANGED log

\* The call ends.
Return(c, how) ==
    /\ doing[c] # NoCall
    /\ doing' = [doing EXCEPT ![c] = NoCall]
    /\ outcome' = [outcome EXCEPT ![c] = how]

\* A save returns.
Record(c) ==
    /\ doing[c].kind = "save"
    /\ log' = Append(log, [save |-> doing[c].save, request |-> doing[c].request])
    /\ Return(c, "ok")
    /\ UNCHANGED told

\* The events a read may return: all, or those of one request.
Sought(request) == {i \in DOMAIN log : request \in {NoRequest, log[i].request}}

\* A reader gets no more than it asks for, and no more than anybody may; a negative
\* limit asks for everything.
Most(limit) == IF limit < MaxEvents THEN limit ELSE MaxEvents

\* The places of the newest events among these, newest first: older ones are left out
\* when the limit is used up, and only then.
Newest(places, limit) ==
    {p \in UNION {[1..n -> places] : n \in 0..Len(log)} :
        /\ \A i, j \in DOMAIN p : i < j => p[i] > p[j]
        /\ limit >= 0 => Len(p) <= Most(limit)
        /\ \A q \in places : (\A i \in DOMAIN p : p[i] # q) =>
              Len(p) = Most(limit) /\ \A i \in DOMAIN p : p[i] > q}

\* A read returns.
Look(c) ==
    /\ doing[c].kind = "read"
    /\ \E p \in Newest(Sought(doing[c].request), doing[c].limit) :
           told' = [told EXCEPT ![c] = [k \in DOMAIN p |-> log[p[k]]]]
    /\ Return(c, "ok")
    /\ UNCHANGED log

\* A call raises.
Fail(c) == Return(c, "raised") /\ UNCHANGED <<log, told>>

Crash ==
    /\ doing' = [c \in Clients |-> NoCall]
    /\ outcome' = [c \in Clients |-> "none"]
    /\ told' = [c \in Clients |-> << >>]
    /\ UNCHANGED log

LogNext ==
    \/ \E c \in Clients : Ask(c) \/ Record(c) \/ Look(c) \/ Fail(c)
    \/ Crash

LogSpec == LogInit /\ [][LogNext]_logVars
=============================================================================
