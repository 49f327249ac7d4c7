------------------------------ MODULE Decision ------------------------------
(***************************************************************************)
(* One request to /decide after the other on one thread: classification,    *)
(* priority, three optional enrichments, policy, action, and the traces it  *)
(* leaves in the contact registry, the drift window and the event store     *)
(* (src/api/server.py, src/orchestration/agent_dag.py and the agents).      *)
(*                                                                          *)
(* Between its first and its last step a request only uses local variables; *)
(* what threads share on the way is modelled in ServiceClient (the clients) *)
(* and Proactive (the registry).                                            *)
(*                                                                          *)
(* The text of a message is its labels and whether it mentions a service.   *)
(* Confidences, the flag derived from them, the planner's keyword scan and  *)
(* the wording of results are left out; TIMEOUT, CIRCUIT_OPEN and ERROR are *)
(* one outcome, "unavailable".                                              *)
(***************************************************************************)
EXTENDS Integers, Sequences

CONSTANTS
    Intents,     \* labels of the intent classifier
    Sentiments,  \* labels of the sentiment classifier
    Hours        \* hours between the two timestamps of a request

ASSUME InputAssumption ==
    /\ Intents # {} /\ Sentiments # {}
    /\ Hours \subseteq Int

VARIABLES
    config,   \* which of the neighbours the environment names
    request,  \* what the request says of customer and service
    step,     \* where the handler stands
    trace,    \* the trace of the decision
    effects,  \* which shared structures the request has changed
    response  \* "ok", "rejected", or what made it fail

vars == <<config, request, step, trace, effects, response>>

Configs == [sales : BOOLEAN, incident : BOOLEAN, rag : BOOLEAN,
            llm : {"off", "on", "invalid"}]

\* An explicit service wins over one mentioned in the message.
Requests == [anonymous : BOOLEAN, service : {"explicit", "mentioned", "none"}]

Tiers == {"free", "standard", "enterprise"}
Dues  == [form : {"absent", "unparsable", "mixed", "dated"}, hours : Hours]

\* What comes of one enrichment: an outcome for the trace, and data or none.
Pending       == [outcome |-> "pending", data |-> "none"]
Skipped(why)  == [outcome |-> why, data |-> "none"]
Unavailable   == [outcome |-> "unavailable", data |-> "none"]
NotAnObject   == [outcome |-> "ok", data |-> "none"]
Answered(d)   == [outcome |-> "ok", data |-> d]

NoTrace == [intent |-> "none", sentiment |-> "none", priority |-> "none",
            account |-> Pending, incident |-> Pending, knowledge |-> Pending,
            rule |-> "none", policy |-> "none", used |-> FALSE, action |-> "none"]

NoEffects == [recorded |-> FALSE, observed |-> FALSE, stored |-> FALSE]
-----------------------------------------------------------------------------
\* _hours_to_sla: 72 unless both timestamps are there and parse; never negative.
HoursToSla(due) ==
    IF due.form = "dated" THEN (IF due.hours > 0 THEN due.hours ELSE 0) ELSE 72

DerivePriority(tier, hours) ==
    IF (tier = "enterprise" /\ hours <= 8) \/ hours <= 2 THEN "high" ELSE "normal"

(***************************************************************************)
(* The policy: ordered rules of which the first that fires decides.  The    *)
(* enriched ones come first and cannot fire without data.                   *)
(***************************************************************************)
Active(c) == c.incident.data \in {"active", "active_misshapen"}
AtRisk(c) == c.sentiment = "negative" /\ c.account.data = "high_propensity"
Unhappy(c) == c.priority = "high" /\ c.sentiment = "negative"

Fires(rule, c) ==
    \/ rule = "known_incident_on_the_service_complained_about" /\ Active(c)
    \/ rule = "high_value_account_at_risk" /\ AtRisk(c)
    \/ rule = "high_priority_unhappy_customer" /\ Unhappy(c)
    \/ rule = "explicit_complaint" /\ c.intent = "complaint"
    \/ rule = "delivery_problem_warrants_goodwill" /\ c.intent = "delivery_issue"
    \/ rule = "refund_requested" /\ c.intent = "refund_request"
    \/ rule = "tracking_requested" /\ c.intent = "tracking_request"
    \/ rule = "default_no_rule_matched"

EnrichedRules == <<"known_incident_on_the_service_complained_about",
                   "high_value_account_at_risk">>

\* Mutant: goodwill is considered before the unhappy customer.
GoodwillFirst == <<"delivery_problem_warrants_goodwill", "high_priority_unhappy_customer",
                   "explicit_complaint", "refund_requested", "tracking_requested",
                   "default_no_rule_matched">>

BaseRules == <<"high_priority_unhappy_customer", "explicit_complaint",
               "delivery_problem_warrants_goodwill", "refund_requested",
               "tracking_requested", "default_no_rule_matched">>

\* Mutant: a policy is renamed in the rules, and not where actions are chosen.
PolicyRenamed ==
    [known_incident_on_the_service_complained_about |-> "incident_response",
     high_value_account_at_risk                     |-> "retain",
     high_priority_unhappy_customer                 |-> "escalate",
     explicit_complaint                             |-> "escalate",
     delivery_problem_warrants_goodwill             |-> "offer_credit",
     refund_requested                               |-> "refund_review",
     tracking_requested                             |-> "send_tracking_update",
     default_no_rule_matched                        |-> "auto_resolve"]

PolicyOf ==
    [known_incident_on_the_service_complained_about |-> "incident_response",
     high_value_account_at_risk                     |-> "escalate",
     high_priority_unhappy_customer                 |-> "escalate",
     explicit_complaint                             |-> "escalate",
     delivery_problem_warrants_goodwill             |-> "offer_credit",
     refund_requested                               |-> "refund_review",
     tracking_requested                             |-> "send_tracking_update",
     default_no_rule_matched                        |-> "auto_resolve"]

\* action_agent: the tool that a policy calls.
ActionOf ==
    [incident_response    |-> "link_to_incident",
     escalate             |-> "create_ticket",
     offer_credit         |-> "apply_credit",
     refund_review        |-> "refund_review",
     send_tracking_update |-> "send_tracking_update",
     auto_resolve         |-> "knowledge_response"]

FirstFired(rules, c) ==
    rules[CHOOSE i \in DOMAIN rules :
            Fires(rules[i], c) /\ \A j \in 1..(i - 1) : ~Fires(rules[j], c)]

\* The enriched rules are asked first, then the base rules.
ExplainPolicy(c) ==
    IF \E i \in DOMAIN EnrichedRules : Fires(EnrichedRules[i], c)
    THEN FirstFired(EnrichedRules, c)
    ELSE FirstFired(BaseRules, c)
-----------------------------------------------------------------------------
Init ==
    /\ config \in Configs
    /\ request = [anonymous |-> TRUE, service |-> "none"]
    /\ step = "idle"
    /\ trace = NoTrace
    /\ effects = NoEffects
    /\ response = "none"

\* A wrong API key, a body that does not validate, or a blank message.
Reject ==
    /\ step = "idle"
    /\ trace' = NoTrace
    /\ effects' = NoEffects
    /\ response' = "rejected"
    /\ UNCHANGED <<config, request, step>>

Receive(r) ==
    /\ step = "idle"
    /\ request' = r
    /\ step' = "intent"
    /\ trace' = NoTrace
    /\ effects' = NoEffects
    /\ response' = "none"
    /\ UNCHANGED config

\* An exception leaves the handler: the request ends with a 500.
Fail(cause) ==
    /\ step' = "idle"
    /\ response' = cause
    /\ UNCHANGED <<config, request, trace, effects>>

(***************************************************************************)
(* _classify: the label the LLM names, or the fitted classifier's when no   *)
(* LLM is enabled, it cannot be reached or it names no label.               *)
(***************************************************************************)
ClassifyIntent(label) ==
    /\ step = "intent"
    /\ config.llm # "invalid"
    /\ trace' = [trace EXCEPT !.intent = label]
    /\ step' = "sentiment"
    /\ UNCHANGED <<config, request, effects, response>>

ClassifySentiment(label) ==
    /\ step = "sentiment"
    /\ config.llm # "invalid"
    /\ trace' = [trace EXCEPT !.sentiment = label]
    /\ step' = "priority"
    /\ UNCHANGED <<config, request, effects, response>>

\* An unsupported LLM_PROVIDER raises outside the try; a reply of the LLM of
\* another shape raises something else than LLMError.
ClassifyRaises ==
    /\ step \in {"intent", "sentiment"}
    /\ config.llm # "off"
    /\ Fail("llm")

\* tier and due are the request's; nothing but the priority depends on them.
Prioritise(tier, due) ==
    /\ step = "priority"
    /\ due.form # "mixed"
    /\ trace' = [trace EXCEPT !.priority = DerivePriority(tier, HoursToSla(due))]
    /\ step' = "account"
    /\ UNCHANGED <<config, request, effects, response>>

\* One timestamp with a zone and one without cannot be subtracted: TypeError.
PrioritiseRaises(due) ==
    /\ step = "priority"
    /\ due.form = "mixed"
    /\ Fail("timestamps")

\* fetch_account_propensity
AccountEdges ==
    IF ~config.sales THEN {Skipped("not_configured")}
    ELSE IF request.anonymous THEN {Skipped("no_account_id")}
    ELSE {Unavailable, NotAnObject, Answered("high_propensity"), Answered("other")}

FetchAccount(edge) ==
    /\ step = "account"
    /\ edge \in AccountEdges
    /\ trace' = [trace EXCEPT !.account = edge]
    /\ step' = "incident"
    /\ UNCHANGED <<config, request, effects, response>>

\* Mutant: whether a service is named is asked before the configuration.
IncidentEdgesByService ==
    IF request.service = "none" THEN {Skipped("no_service")}
    ELSE IF ~config.incident THEN {Skipped("not_configured")}
    ELSE {Unavailable, NotAnObject, Answered("inactive"), Answered("active"),
          Answered("active_misshapen")}

\* fetch_incident_status; an active incident whose details are no object is
\* passed on as it is.
IncidentEdges ==
    IF ~config.incident THEN {Skipped("not_configured")}
    ELSE IF request.service = "none" THEN {Skipped("no_service")}
    ELSE {Unavailable, NotAnObject, Answered("inactive"), Answered("active"),
          Answered("active_misshapen")}

FetchIncident(edge) ==
    /\ step = "incident"
    /\ edge \in IncidentEdges
    /\ trace' = [trace EXCEPT !.incident = edge]
    /\ step' = "knowledge"
    /\ UNCHANGED <<config, request, effects, response>>

\* fetch_grounding; the message is never empty.
GroundingEdges ==
    IF ~config.rag THEN {Skipped("not_configured")}
    ELSE {Unavailable, NotAnObject, Answered("passage")}

FetchGrounding(edge) ==
    /\ step = "knowledge"
    /\ edge \in GroundingEdges
    /\ trace' = [trace EXCEPT !.knowledge = edge]
    /\ step' = "policy"
    /\ UNCHANGED <<config, request, effects, response>>

\* The client raises (ServiceClient), or the reply of the retrieval service is an
\* object whose parts have another shape.
EdgeRaises ==
    /\ \/ step = "account" /\ config.sales /\ ~request.anonymous
       \/ step = "incident" /\ config.incident /\ request.service # "none"
       \/ step = "knowledge" /\ config.rag
    /\ Fail("enrichment")

\* Mutant: every decision made with an answer at hand counts as enriched.
DecideByAnswers ==
    LET rule == ExplainPolicy(trace)
    IN  /\ step = "policy"
        /\ trace' = [trace EXCEPT !.rule = rule, !.policy = PolicyOf[rule], !.used = TRUE]
        /\ step' = "action"
        /\ UNCHANGED <<config, request, effects, response>>

\* Mutant: one of the enriched rules is not counted as such.
DecideForgetting ==
    LET rule == ExplainPolicy(trace)
    IN  /\ step = "policy"
        /\ trace' = [trace EXCEPT !.rule = rule, !.policy = PolicyOf[rule],
                                  !.used = rule = EnrichedRules[1]]
        /\ step' = "action"
        /\ UNCHANGED <<config, request, effects, response>>

Decide ==
    LET rule == ExplainPolicy(trace)
    IN  /\ step = "policy"
        /\ trace' = [trace EXCEPT !.rule = rule, !.policy = PolicyOf[rule],
                                  !.used = rule \in {EnrichedRules[1], EnrichedRules[2]}]
        /\ step' = "action"
        /\ UNCHANGED <<config, request, effects, response>>

Act ==
    /\ step = "action"
    /\ ~(trace.policy = "incident_response" /\ trace.incident.data = "active_misshapen")
    /\ trace' = [trace EXCEPT !.action = ActionOf[trace.policy]]
    /\ step' = "record"
    /\ UNCHANGED <<config, request, effects, response>>

\* link_to_incident asks the details of the incident for a field they do not have.
LinkRaises ==
    /\ step = "action"
    /\ trace.policy = "incident_response"
    /\ trace.incident.data = "active_misshapen"
    /\ Fail("enrichment")

\* A request that is reachable for later outreach: by name, about an explicit service.
Reachable(r) == ~r.anonymous /\ r.service = "explicit"

RecordContact ==
    /\ step = "record"
    /\ effects' = [effects EXCEPT !.recorded = Reachable(request)]
    /\ step' = "observe"
    /\ UNCHANGED <<config, request, trace, response>>

Observe ==
    /\ step = "observe"
    /\ effects' = [effects EXCEPT !.observed = TRUE]
    /\ step' = "save"
    /\ UNCHANGED <<config, request, trace, response>>

Save ==
    /\ step = "save"
    /\ effects' = [effects EXCEPT !.stored = TRUE]
    /\ step' = "idle"
    /\ response' = "ok"
    /\ UNCHANGED <<config, request, trace>>

\* Mutant: a failing save is swallowed.
SaveIgnored ==
    /\ step = "save"
    /\ step' = "idle"
    /\ response' = "ok"
    /\ UNCHANGED <<config, request, trace, effects>>

SaveRaises ==
    /\ step = "save"
    /\ Fail("save")

Classify ==
    \/ \E label \in Intents : ClassifyIntent(label)
    \/ \E label \in Sentiments : ClassifySentiment(label)
    \/ ClassifyRaises
    \/ \E tier \in Tiers, due \in Dues : Prioritise(tier, due)
    \/ \E due \in Dues : PrioritiseRaises(due)

Enrich ==
    \/ \E edge \in AccountEdges : FetchAccount(edge)
    \/ \E edge \in IncidentEdges : FetchIncident(edge)
    \/ \E edge \in GroundingEdges : FetchGrounding(edge)
    \/ EdgeRaises

Conclude ==
    \/ Decide
    \/ Act
    \/ LinkRaises
    \/ RecordContact
    \/ Observe
    \/ Save
    \/ SaveRaises

Next ==
    \/ Reject
    \/ \E r \in Requests : Receive(r)
    \/ Classify
    \/ Enrich
    \/ Conclude

Spec == Init /\ [][Next]_vars
-----------------------------------------------------------------------------
Steps == {"idle", "intent", "sentiment", "priority", "account", "incident", "knowledge",
          "policy", "action", "record", "observe", "save"}
Failures  == {"llm", "timestamps", "enrichment", "save"}
Responses == {"none", "ok", "rejected"} \cup Failures

Edge == [outcome : {"pending", "not_configured", "no_account_id", "no_service",
                    "unavailable", "ok"},
         data    : {"none", "high_propensity", "other", "inactive", "active",
                    "active_misshapen", "passage"}]

Trace == [intent : Intents \cup {"none"}, sentiment : Sentiments \cup {"none"},
          priority : {"none", "high", "normal"},
          account : Edge, incident : Edge, knowledge : Edge,
          rule : DOMAIN PolicyOf \cup {"none"}, policy : DOMAIN ActionOf \cup {"none"},
          used : BOOLEAN, action : {"none"} \cup {ActionOf[p] : p \in DOMAIN ActionOf}]

TypeOK ==
    /\ config \in Configs
    /\ request \in Requests
    /\ step \in Steps
    /\ trace \in Trace
    /\ effects \in [recorded : BOOLEAN, observed : BOOLEAN, stored : BOOLEAN]
    /\ response \in Responses
-----------------------------------------------------------------------------
Decided == trace.policy # "none"
Acted   == trace.action # "none"
Ended   == step = "idle"

\* The policy the rules give without any enrichment.
Standalone(c) == PolicyOf[FirstFired(BaseRules, c)]

(***************************************************************************)
(* A trace that says no enrichment was used (agent_dag.py:157-163) names    *)
(* the very policy the service would have chosen alone, whatever the        *)
(* neighbours answered meanwhile.                                           *)
(***************************************************************************)
UnusedMeansStandalone ==
    Decided /\ ~trace.used => trace.policy = Standalone(trace)

(***************************************************************************)
(* README, "Cross-service integration": with none of the neighbours         *)
(* configured the service decides as it does alone, says so, and no         *)
(* neighbour makes a request fail.                                          *)
(***************************************************************************)
AloneByItself ==
    ~config.sales /\ ~config.incident /\ ~config.rag =>
        /\ response # "enrichment"
        /\ config.llm = "off" => response # "llm"
        /\ Decided => ~trace.used /\ trace.policy = Standalone(trace)

(***************************************************************************)
(* What the written rules promise an auditor (policy_agent.py): a contact   *)
(* is linked to an incident exactly when one is active, a credit or a       *)
(* refund review is never the answer to somebody who must be escalated, and *)
(* an escalation has one of its three reasons.                              *)
(***************************************************************************)
MustEscalate(c) == AtRisk(c) \/ Unhappy(c) \/ c.intent = "complaint"

DecisionIsJustified ==
    Acted =>
        /\ trace.action = "link_to_incident" <=> Active(trace)
        /\ trace.action = "create_ticket" <=> ~Active(trace) /\ MustEscalate(trace)
        /\ trace.action = "apply_credit" => trace.intent = "delivery_issue"
        /\ trace.action = "refund_review" => trace.intent = "refund_request"

(***************************************************************************)
(* The trace tells which edges were live (client.py:51-52, services.py):    *)
(* an edge that is off is reported as not configured and as nothing else,   *)
(* data come from a call that succeeded, and a rule that used an            *)
(* enrichment had data to use.                                              *)
(***************************************************************************)
EdgeIsExplained(edge, on) ==
    /\ edge.outcome # "pending" => (edge.outcome = "not_configured" <=> ~on)
    /\ edge.data # "none" => edge.outcome = "ok"

SourcesAreNamed ==
    /\ EdgeIsExplained(trace.account, config.sales)
    /\ EdgeIsExplained(trace.incident, config.incident)
    /\ EdgeIsExplained(trace.knowledge, config.rag)
    /\ trace.used => trace.account.data # "none" \/ trace.incident.data # "none"

(***************************************************************************)
(* Three structures in three components are changed one after the other     *)
(* (server.py:140-158), and each step may be the last.  A request that was  *)
(* refused or failed before its decision has left nothing behind, one that  *)
(* is answered has left everything, and only a failing save leaves a part.  *)
(***************************************************************************)
EffectsFollowDecision ==
    /\ effects.recorded \/ effects.observed \/ effects.stored => Acted
    /\ Ended /\ response = "ok" =>
         effects = [recorded |-> Reachable(request), observed |-> TRUE, stored |-> TRUE]
    /\ Ended /\ response = "save" =>
         effects = [recorded |-> Reachable(request), observed |-> TRUE, stored |-> FALSE]
    /\ Ended /\ response \notin {"ok", "save"} => effects = NoEffects

(***************************************************************************)
(* The strengthening that makes the invariants above inductive: what the    *)
(* place of the handler says of the trace and of the effects, and which     *)
(* policy goes with which answers.                                          *)
(***************************************************************************)
BeforeDecision == {"intent", "sentiment", "priority", "account", "incident", "knowledge",
                   "policy"}

StepFitsTrace ==
    /\ step \in BeforeDecision => ~Decided /\ ~Acted /\ ~trace.used /\ effects = NoEffects
    /\ step = "action" => Decided /\ ~Acted /\ effects = NoEffects
    /\ step = "record" => Acted /\ effects = NoEffects
    /\ step = "observe" =>
         Acted /\ effects = [NoEffects EXCEPT !.recorded = Reachable(request)]
    /\ step = "save" =>
         /\ Acted
         /\ effects = [recorded |-> Reachable(request), observed |-> TRUE, stored |-> FALSE]
    /\ ~Decided => ~trace.used
    /\ Acted => Decided /\ trace.action = ActionOf[trace.policy]

PolicyFitsAnswers ==
    Decided =>
        /\ trace.used <=> Active(trace) \/ AtRisk(trace)
        /\ Active(trace) => trace.policy = "incident_response"
        /\ ~Active(trace) /\ AtRisk(trace) => trace.policy = "escalate"
        /\ ~trace.used => trace.policy = Standalone(trace)

(***************************************************************************)
(* README, "Cross-service integration": an enrichment may improve a         *)
(* decision, "but it may never prevent one".                                *)
(***************************************************************************)
EnrichmentNeverPrevents == response # "enrichment"

(***************************************************************************)
(* tools/actions.py:21-36: a customer linked to an incident "is added to    *)
(* the notify list for it", so one who has a name is recorded for outreach. *)
(***************************************************************************)
LinkedMeansListed ==
    Ended /\ response = "ok" /\ trace.action = "link_to_incident" /\ ~request.anonymous
      => effects.recorded
=============================================================================
