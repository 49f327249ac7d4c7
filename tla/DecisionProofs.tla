--------------------------- MODULE DecisionProofs ---------------------------
(***************************************************************************)
(* Proofs about Decision, for any labels and any distances of timestamps.   *)
(***************************************************************************)
EXTENDS Decision, TLAPS

\* A rule that fires while none before it does is the one that is found.
LEMMA FirstFiredIs ==
    ASSUME NEW rules, NEW c, NEW k \in DOMAIN rules, DOMAIN rules \subseteq Nat \ {0},
           1..k \subseteq DOMAIN rules,
           Fires(rules[k], c),
           \A i \in 1..(k - 1) : ~Fires(rules[i], c)
    PROVE  FirstFired(rules, c) = rules[k]
<1> DEFINE First(i) == Fires(rules[i], c) /\ \A j \in 1..(i - 1) : ~Fires(rules[j], c)
<1>1. First(k)
  OBVIOUS
<1>2. ASSUME NEW i \in DOMAIN rules, First(i) PROVE i = k
  BY <1>2
<1>3. (CHOOSE i \in DOMAIN rules : First(i)) = k
  <2> HIDE DEF First
  <2> QED
    BY <1>1, <1>2
<1> QED
  BY <1>3 DEF FirstFired

\* What the service decides alone, read as a table.
LEMMA StandaloneCases ==
    ASSUME NEW c
    PROVE  /\ FirstFired(BaseRules, c) \in DOMAIN PolicyOf
           /\ FirstFired(BaseRules, c) \notin {EnrichedRules[1], EnrichedRules[2]}
           /\ Unhappy(c) \/ c.intent = "complaint" => Standalone(c) = "escalate"
           /\ ~Unhappy(c) /\ c.intent = "delivery_issue" => Standalone(c) = "offer_credit"
           /\ ~Unhappy(c) /\ c.intent = "refund_request" => Standalone(c) = "refund_review"
           /\ ~Unhappy(c) /\ c.intent = "tracking_request"
                => Standalone(c) = "send_tracking_update"
           /\ ~Unhappy(c) /\ c.intent \notin {"complaint", "delivery_issue",
                                              "refund_request", "tracking_request"}
                => Standalone(c) = "auto_resolve"
<1>1. DOMAIN BaseRules = 1..6
  BY DEF BaseRules
<1>2. /\ BaseRules[1] = "high_priority_unhappy_customer"
      /\ BaseRules[2] = "explicit_complaint"
      /\ BaseRules[3] = "delivery_problem_warrants_goodwill"
      /\ BaseRules[4] = "refund_requested"
      /\ BaseRules[5] = "tracking_requested"
      /\ BaseRules[6] = "default_no_rule_matched"
  BY DEF BaseRules
<1>3. /\ Fires(BaseRules[1], c) <=> Unhappy(c)
      /\ Fires(BaseRules[2], c) <=> c.intent = "complaint"
      /\ Fires(BaseRules[3], c) <=> c.intent = "delivery_issue"
      /\ Fires(BaseRules[4], c) <=> c.intent = "refund_request"
      /\ Fires(BaseRules[5], c) <=> c.intent = "tracking_request"
      /\ Fires(BaseRules[6], c)
  BY <1>2 DEF Fires
<1>4. CASE Unhappy(c)
  <2>1. \A i \in 1..(1 - 1) : ~Fires(BaseRules[i], c)
    BY <1>3, <1>4
  <2>2. Fires(BaseRules[1], c)
    BY <1>3, <1>4
  <2>3. FirstFired(BaseRules, c) = BaseRules[1]
    BY <1>1, <2>1, <2>2, FirstFiredIs
  <2> QED
    BY <1>2, <1>4, <2>3 DEF Standalone, PolicyOf, EnrichedRules
<1>5. CASE ~Unhappy(c) /\ c.intent = "complaint"
  <2>1. \A i \in 1..(2 - 1) : ~Fires(BaseRules[i], c)
    BY <1>3, <1>5
  <2>2. Fires(BaseRules[2], c)
    BY <1>3, <1>5
  <2>3. FirstFired(BaseRules, c) = BaseRules[2]
    BY <1>1, <2>1, <2>2, FirstFiredIs
  <2> QED
    BY <1>2, <1>5, <2>3 DEF Standalone, PolicyOf, EnrichedRules
<1>6. CASE ~Unhappy(c) /\ c.intent = "delivery_issue"
  <2>1. \A i \in 1..(3 - 1) : ~Fires(BaseRules[i], c)
    BY <1>3, <1>6
  <2>2. Fires(BaseRules[3], c)
    BY <1>3, <1>6
  <2>3. FirstFired(BaseRules, c) = BaseRules[3]
    BY <1>1, <2>1, <2>2, FirstFiredIs
  <2> QED
    BY <1>2, <1>6, <2>3 DEF Standalone, PolicyOf, EnrichedRules
<1>7. CASE ~Unhappy(c) /\ c.intent = "refund_request"
  <2>1. \A i \in 1..(4 - 1) : ~Fires(BaseRules[i], c)
    BY <1>3, <1>7
  <2>2. Fires(BaseRules[4], c)
    BY <1>3, <1>7
  <2>3. FirstFired(BaseRules, c) = BaseRules[4]
    BY <1>1, <2>1, <2>2, FirstFiredIs
  <2> QED
    BY <1>2, <1>7, <2>3 DEF Standalone, PolicyOf, EnrichedRules
<1>8. CASE ~Unhappy(c) /\ c.intent = "tracking_request"
  <2>1. \A i \in 1..(5 - 1) : ~Fires(BaseRules[i], c)
    BY <1>3, <1>8
  <2>2. Fires(BaseRules[5], c)
    BY <1>3, <1>8
  <2>3. FirstFired(BaseRules, c) = BaseRules[5]
    BY <1>1, <2>1, <2>2, FirstFiredIs
  <2> QED
    BY <1>2, <1>8, <2>3 DEF Standalone, PolicyOf, EnrichedRules
<1>9. CASE ~Unhappy(c) /\ c.intent \notin {"complaint", "delivery_issue",
                                           "refund_request", "tracking_request"}
  <2>1. \A i \in 1..(6 - 1) : ~Fires(BaseRules[i], c)
    BY <1>3, <1>9
  <2>2. Fires(BaseRules[6], c)
    BY <1>3, <1>9
  <2>3. FirstFired(BaseRules, c) = BaseRules[6]
    BY <1>1, <2>1, <2>2, FirstFiredIs
  <2> QED
    BY <1>2, <1>9, <2>3 DEF Standalone, PolicyOf, EnrichedRules
<1> QED
  BY <1>4, <1>5, <1>6, <1>7, <1>8, <1>9

\* The enriched rules come first, and without their data they do not count.
LEMMA ExplainedCases ==
    ASSUME NEW c
    PROVE  /\ Active(c) => ExplainPolicy(c) = EnrichedRules[1]
           /\ ~Active(c) /\ AtRisk(c) => ExplainPolicy(c) = EnrichedRules[2]
           /\ ~Active(c) /\ ~AtRisk(c) => ExplainPolicy(c) = FirstFired(BaseRules, c)
<1>1. /\ DOMAIN EnrichedRules = 1..2
      /\ EnrichedRules[1] = "known_incident_on_the_service_complained_about"
      /\ EnrichedRules[2] = "high_value_account_at_risk"
  BY DEF EnrichedRules
<1>2. /\ Fires(EnrichedRules[1], c) <=> Active(c)
      /\ Fires(EnrichedRules[2], c) <=> AtRisk(c)
  BY <1>1 DEF Fires
<1>3. CASE Active(c)
  <2>1. \A i \in 1..(1 - 1) : ~Fires(EnrichedRules[i], c)
    OBVIOUS
  <2>2. FirstFired(EnrichedRules, c) = EnrichedRules[1]
    BY <1>1, <1>2, <1>3, <2>1, FirstFiredIs
  <2> QED
    BY <1>1, <1>2, <1>3, <2>2 DEF ExplainPolicy
<1>4. CASE ~Active(c) /\ AtRisk(c)
  <2>1. \A i \in 1..(2 - 1) : ~Fires(EnrichedRules[i], c)
    BY <1>2, <1>4
  <2>2. FirstFired(EnrichedRules, c) = EnrichedRules[2]
    BY <1>1, <1>2, <1>4, <2>1, FirstFiredIs
  <2> QED
    BY <1>1, <1>2, <1>4, <2>2 DEF ExplainPolicy
<1>5. CASE ~Active(c) /\ ~AtRisk(c)
  <2>1. \A i \in DOMAIN EnrichedRules : ~Fires(EnrichedRules[i], c)
    BY <1>1, <1>2, <1>5
  <2> QED
    BY <1>5, <2>1 DEF ExplainPolicy
<1> QED
  BY <1>3, <1>4, <1>5

\* The rule that fires is always one with a policy.
LEMMA RuleIsKnown ==
    ASSUME NEW c
    PROVE  ExplainPolicy(c) \in DOMAIN PolicyOf
<1>1. EnrichedRules[1] \in DOMAIN PolicyOf /\ EnrichedRules[2] \in DOMAIN PolicyOf
  BY DEF EnrichedRules, PolicyOf
<1>2. FirstFired(BaseRules, c) \in DOMAIN PolicyOf
  BY StandaloneCases
<1> QED
  BY <1>1, <1>2, ExplainedCases

\* A policy has an action.
LEMMA PolicyIsKnown ==
    ASSUME NEW rule \in DOMAIN PolicyOf
    PROVE  PolicyOf[rule] \in DOMAIN ActionOf
BY DEF PolicyOf, ActionOf

\* Nothing is asked and nothing decided before the first request.
LEMMA TypeInit == Init => TypeOK
BY DEF Init, TypeOK, Requests, Steps, Trace, NoTrace, Pending, Edge, NoEffects, Responses

\* Every step of the handler keeps its trace well formed.
LEMMA TypeStep == TypeOK /\ StepFitsTrace /\ [Next]_vars => TypeOK'
<1> SUFFICES ASSUME TypeOK, StepFitsTrace, [Next]_vars PROVE TypeOK'
  OBVIOUS
<1>1. CASE Reject
  BY <1>1 DEF TypeOK, Reject, Trace, NoTrace, Pending, Edge, NoEffects, Responses
<1>2. ASSUME NEW r \in Requests, Receive(r) PROVE TypeOK'
  BY <1>2 DEF TypeOK, Receive, Trace, NoTrace, Pending, Edge, NoEffects, Responses, Steps
<1>3. ASSUME NEW cause \in Failures, Fail(cause) PROVE TypeOK'
  BY <1>3 DEF TypeOK, Fail, Steps, Responses
<1>4. ASSUME NEW label \in Intents, ClassifyIntent(label) PROVE TypeOK'
  BY <1>4 DEF TypeOK, ClassifyIntent, Trace, Steps
<1>5. ASSUME NEW label \in Sentiments, ClassifySentiment(label) PROVE TypeOK'
  BY <1>5 DEF TypeOK, ClassifySentiment, Trace, Steps
<1>6. ASSUME NEW tier \in Tiers, NEW due \in Dues, Prioritise(tier, due) PROVE TypeOK'
  <2>1. DerivePriority(tier, HoursToSla(due)) \in {"none", "high", "normal"}
    BY DEF DerivePriority
  <2> QED
    BY <1>6, <2>1 DEF TypeOK, Prioritise, Trace, Steps
<1>7. ASSUME NEW edge \in AccountEdges, FetchAccount(edge) PROVE TypeOK'
  <2>1. edge \in Edge
    BY DEF AccountEdges, Skipped, Unavailable, NotAnObject, Answered, Edge
  <2> QED
    BY <1>7, <2>1 DEF TypeOK, FetchAccount, Trace, Steps
<1>8. ASSUME NEW edge \in IncidentEdges, FetchIncident(edge) PROVE TypeOK'
  <2>1. edge \in Edge
    BY DEF IncidentEdges, Skipped, Unavailable, NotAnObject, Answered, Edge
  <2> QED
    BY <1>8, <2>1 DEF TypeOK, FetchIncident, Trace, Steps
<1>9. ASSUME NEW edge \in GroundingEdges, FetchGrounding(edge) PROVE TypeOK'
  <2>1. edge \in Edge
    BY DEF GroundingEdges, Skipped, Unavailable, NotAnObject, Answered, Edge
  <2> QED
    BY <1>9, <2>1 DEF TypeOK, FetchGrounding, Trace, Steps
<1>10. CASE Decide
  <2> DEFINE rule == ExplainPolicy(trace)
  <2>1. rule \in DOMAIN PolicyOf /\ PolicyOf[rule] \in DOMAIN ActionOf
    BY RuleIsKnown, PolicyIsKnown
  <2>2. trace' = [trace EXCEPT !.rule = rule, !.policy = PolicyOf[rule],
                               !.used = rule \in {EnrichedRules[1], EnrichedRules[2]}]
    BY <1>10 DEF Decide
  <2>3. (rule \in {EnrichedRules[1], EnrichedRules[2]}) \in BOOLEAN
    OBVIOUS
  <2> HIDE DEF rule
  <2>4. trace' \in Trace
    BY <2>1, <2>2, <2>3 DEF TypeOK, Trace
  <2> QED
    BY <1>10, <2>4 DEF TypeOK, Decide, Steps
<1>11. CASE Act
  <2>1. ActionOf[trace.policy] \in {ActionOf[p] : p \in DOMAIN ActionOf}
    BY <1>11 DEF TypeOK, StepFitsTrace, Act, Trace, Decided
  <2> QED
    BY <1>11, <2>1 DEF TypeOK, Act, Trace, Steps
<1>12. CASE RecordContact \/ Observe \/ Save
  BY <1>12 DEF TypeOK, RecordContact, Observe, Save, Reachable, Steps, Responses, Requests
<1>13. CASE UNCHANGED vars
  BY <1>13 DEF TypeOK, vars
<1> QED
  BY <1>1, <1>2, <1>3, <1>4, <1>5, <1>6, <1>7, <1>8, <1>9, <1>10, <1>11, <1>12, <1>13
     DEF Next, Classify, Enrich, Conclude, ClassifyRaises, PrioritiseRaises, EdgeRaises,
         LinkRaises, SaveRaises, Failures

\* Before the first request there is neither a decision nor an effect.
LEMMA StepInit == Init => StepFitsTrace /\ EffectsFollowDecision
BY DEF Init, StepFitsTrace, EffectsFollowDecision, BeforeDecision, Decided, Acted, Ended,
       NoTrace, NoEffects

\* Every step leaves trace and effects as its place in the handler says.
LEMMA StepStep ==
    TypeOK /\ StepFitsTrace /\ EffectsFollowDecision /\ [Next]_vars
      => StepFitsTrace' /\ EffectsFollowDecision'
<1> SUFFICES ASSUME TypeOK, StepFitsTrace, EffectsFollowDecision, [Next]_vars
             PROVE  StepFitsTrace' /\ EffectsFollowDecision'
  OBVIOUS
<1> USE DEF StepFitsTrace, EffectsFollowDecision, BeforeDecision, Decided, Acted, Ended,
            NoEffects
<1>1. ASSUME Reject \/ \E r \in Requests : Receive(r)
      PROVE  StepFitsTrace' /\ EffectsFollowDecision'
  BY <1>1 DEF Reject, Receive, NoTrace
<1>2. ASSUME NEW cause \in Failures, Fail(cause), step \in BeforeDecision \cup {"action"},
             cause # "save"
      PROVE  StepFitsTrace' /\ EffectsFollowDecision'
  BY <1>2 DEF Fail, Failures
<1>3. CASE SaveRaises
  BY <1>3 DEF SaveRaises, Fail
<1>4. ASSUME NEW label, ClassifyIntent(label) \/ ClassifySentiment(label)
      PROVE  StepFitsTrace' /\ EffectsFollowDecision'
  BY <1>4 DEF ClassifyIntent, ClassifySentiment, TypeOK, Trace
<1>5. ASSUME NEW tier, NEW due, Prioritise(tier, due)
      PROVE  StepFitsTrace' /\ EffectsFollowDecision'
  BY <1>5 DEF Prioritise, TypeOK, Trace
<1>6. ASSUME NEW edge, FetchAccount(edge) \/ FetchIncident(edge) \/ FetchGrounding(edge)
      PROVE  StepFitsTrace' /\ EffectsFollowDecision'
  BY <1>6 DEF FetchAccount, FetchIncident, FetchGrounding, TypeOK, Trace
<1>7. CASE Decide
  <2> DEFINE rule == ExplainPolicy(trace)
  <2>1. rule \in DOMAIN PolicyOf /\ PolicyOf[rule] \in DOMAIN ActionOf
    BY RuleIsKnown, PolicyIsKnown
  <2>2. PolicyOf[rule] # "none"
    BY <2>1 DEF ActionOf
  <2>3. trace' = [trace EXCEPT !.rule = rule, !.policy = PolicyOf[rule],
                               !.used = rule \in {EnrichedRules[1], EnrichedRules[2]}]
    BY <1>7 DEF Decide
  <2> HIDE DEF rule
  <2>4. trace'.policy = PolicyOf[rule] /\ trace'.action = trace.action
    BY <2>3 DEF TypeOK, Trace
  <2> QED
    BY <1>7, <2>2, <2>4 DEF Decide
<1>8. CASE Act
  <2>1. ActionOf[trace.policy] # "none"
    BY <1>8 DEF TypeOK, Trace, Act, ActionOf
  <2>2. /\ trace'.action = ActionOf[trace.policy]
        /\ trace'.policy = trace.policy /\ trace'.used = trace.used
    BY <1>8 DEF TypeOK, Trace, Act
  <2> QED
    BY <1>8, <2>1, <2>2 DEF Act
<1>9. CASE RecordContact
  BY <1>9 DEF RecordContact, Reachable
<1>12. CASE Observe
  BY <1>12 DEF Observe, Reachable
<1>13. CASE Save
  <2>1. effects = [recorded |-> Reachable(request), observed |-> TRUE, stored |-> FALSE]
    BY <1>13 DEF Save
  <2>2. effects' = [recorded |-> Reachable(request), observed |-> TRUE, stored |-> TRUE]
    BY <1>13, <2>1 DEF Save
  <2>3. Reachable(request)' = Reachable(request)
    BY <1>13 DEF Save, Reachable
  <2> QED
    BY <1>13, <2>2, <2>3 DEF Save
<1>10. CASE UNCHANGED vars
  BY <1>10 DEF vars, Reachable
<1>11. ASSUME ClassifyRaises \/ (\E due \in Dues : PrioritiseRaises(due)) \/ EdgeRaises
               \/ LinkRaises
       PROVE  StepFitsTrace' /\ EffectsFollowDecision'
  BY <1>2, <1>11 DEF ClassifyRaises, PrioritiseRaises, EdgeRaises, LinkRaises, Failures
<1> QED
  BY <1>1, <1>3, <1>4, <1>5, <1>6, <1>7, <1>8, <1>9, <1>10, <1>11,
     <1>12, <1>13
     DEF Next, Classify, Enrich, Conclude

\* What the service decides alone depends on intent, sentiment and priority only.
LEMMA StandaloneDepends ==
    ASSUME NEW c, NEW d, c.intent = d.intent, c.sentiment = d.sentiment,
           c.priority = d.priority
    PROVE  Standalone(c) = Standalone(d)
<1>1. Unhappy(c) <=> Unhappy(d)
  BY DEF Unhappy
<1> QED
  BY <1>1, StandaloneCases

\* The policy goes with the answers when it is chosen, and neither changes after.
LEMMA PolicyStep ==
    TypeOK /\ StepFitsTrace /\ PolicyFitsAnswers /\ [Next]_vars => PolicyFitsAnswers'
<1> SUFFICES ASSUME TypeOK, StepFitsTrace, PolicyFitsAnswers, [Next]_vars
             PROVE  PolicyFitsAnswers'
  OBVIOUS
<1>1. ASSUME trace' = trace PROVE PolicyFitsAnswers'
  BY <1>1 DEF PolicyFitsAnswers, Decided, Active, AtRisk
<1>2. ASSUME trace'.policy = "none" PROVE PolicyFitsAnswers'
  BY <1>2 DEF PolicyFitsAnswers, Decided
<1>3. ASSUME step \in BeforeDecision, trace'.policy = trace.policy
      PROVE  PolicyFitsAnswers'
  BY <1>2, <1>3 DEF StepFitsTrace, Decided
<1>4. ASSUME NEW label, ClassifyIntent(label) \/ ClassifySentiment(label)
      PROVE  PolicyFitsAnswers'
  BY <1>3, <1>4 DEF ClassifyIntent, ClassifySentiment, BeforeDecision, TypeOK, Trace
<1>5. ASSUME NEW tier, NEW due, Prioritise(tier, due)
      PROVE  PolicyFitsAnswers'
  BY <1>3, <1>5 DEF Prioritise, BeforeDecision, TypeOK, Trace
<1>6. ASSUME NEW edge, FetchAccount(edge) \/ FetchIncident(edge) \/ FetchGrounding(edge)
      PROVE  PolicyFitsAnswers'
  BY <1>3, <1>6 DEF FetchAccount, FetchIncident, FetchGrounding, BeforeDecision, TypeOK, Trace
<1>7. CASE Decide
  <2> DEFINE rule == ExplainPolicy(trace)
  <2>1. trace' = [trace EXCEPT !.rule = rule, !.policy = PolicyOf[rule],
                               !.used = rule \in {EnrichedRules[1], EnrichedRules[2]}]
    BY <1>7 DEF Decide
  <2>2. /\ Active(trace) => rule = EnrichedRules[1]
        /\ ~Active(trace) /\ AtRisk(trace) => rule = EnrichedRules[2]
        /\ ~Active(trace) /\ ~AtRisk(trace) => rule = FirstFired(BaseRules, trace)
    BY ExplainedCases
  <2> HIDE DEF rule
  <2>3. /\ trace'.policy = PolicyOf[rule]
        /\ trace'.used <=> rule \in {EnrichedRules[1], EnrichedRules[2]}
        /\ trace'.account = trace.account /\ trace'.incident = trace.incident
        /\ trace'.intent = trace.intent /\ trace'.sentiment = trace.sentiment
        /\ trace'.priority = trace.priority
    BY <2>1 DEF TypeOK, Trace
  <2>4. (Active(trace)' <=> Active(trace)) /\ (AtRisk(trace)' <=> AtRisk(trace))
    BY <2>3 DEF Active, AtRisk
  <2>5. Standalone(trace)' = Standalone(trace)
    BY <2>3, StandaloneDepends
  <2>6. /\ PolicyOf[EnrichedRules[1]] = "incident_response"
        /\ PolicyOf[EnrichedRules[2]] = "escalate"
    BY DEF PolicyOf, EnrichedRules
  <2>7. FirstFired(BaseRules, trace) \notin {EnrichedRules[1], EnrichedRules[2]}
    BY StandaloneCases
  <2>8. ~Active(trace) /\ ~AtRisk(trace) => trace'.policy = Standalone(trace)
    BY <2>2, <2>3 DEF Standalone
  <2>9. trace'.used <=> Active(trace) \/ AtRisk(trace)
    BY <2>2, <2>3, <2>7
  <2> QED
    BY <2>2, <2>3, <2>4, <2>5, <2>6, <2>8, <2>9 DEF PolicyFitsAnswers
<1>8. CASE Act
  <2>1. /\ trace'.policy = trace.policy /\ trace'.used = trace.used
        /\ trace'.account = trace.account /\ trace'.incident = trace.incident
        /\ trace'.intent = trace.intent /\ trace'.sentiment = trace.sentiment
        /\ trace'.priority = trace.priority
    BY <1>8 DEF Act, TypeOK, Trace
  <2>2. Standalone(trace)' = Standalone(trace)
    BY <2>1, StandaloneDepends
  <2> QED
    BY <2>1, <2>2 DEF PolicyFitsAnswers, Decided, Active, AtRisk
<1>9. CASE Reject \/ \E r \in Requests : Receive(r)
  BY <1>2, <1>9 DEF Reject, Receive, NoTrace
<1> QED
  BY <1>1, <1>4, <1>5, <1>6, <1>7, <1>8, <1>9
     DEF Next, Classify, Enrich, Conclude, ClassifyRaises, PrioritiseRaises, EdgeRaises,
         LinkRaises, SaveRaises, Fail, RecordContact, Observe, Save, vars

\* The three edges of the trace are explained by the configuration.
EdgesAreExplained ==
    /\ EdgeIsExplained(trace.account, config.sales)
    /\ EdgeIsExplained(trace.incident, config.incident)
    /\ EdgeIsExplained(trace.knowledge, config.rag)

\* An edge that a fetch may write into the trace is explained.
LEMMA FetchedIsExplained ==
    /\ \A edge \in AccountEdges : EdgeIsExplained(edge, config.sales)
    /\ \A edge \in IncidentEdges : EdgeIsExplained(edge, config.incident)
    /\ \A edge \in GroundingEdges : EdgeIsExplained(edge, config.rag)
BY DEF AccountEdges, IncidentEdges, GroundingEdges, EdgeIsExplained, Skipped, Unavailable,
       NotAnObject, Answered

\* The configuration is fixed, and only the fetches write an edge.
LEMMA EdgesStep == TypeOK /\ EdgesAreExplained /\ [Next]_vars => EdgesAreExplained'
<1> SUFFICES ASSUME TypeOK, EdgesAreExplained, [Next]_vars PROVE EdgesAreExplained'
  OBVIOUS
<1>1. ASSUME config' = config, trace'.account = trace.account,
             trace'.incident = trace.incident, trace'.knowledge = trace.knowledge
      PROVE  EdgesAreExplained'
  BY <1>1 DEF EdgesAreExplained, EdgeIsExplained
<1>2. CASE Reject \/ \E r \in Requests : Receive(r)
  BY <1>2 DEF Reject, Receive, NoTrace, Pending, EdgesAreExplained, EdgeIsExplained
<1>3. CASE Classify
  BY <1>1, <1>3 DEF Classify, ClassifyIntent, ClassifySentiment, ClassifyRaises, Prioritise,
                    PrioritiseRaises, Fail, TypeOK, Trace
<1>4. ASSUME NEW edge \in AccountEdges, FetchAccount(edge) PROVE EdgesAreExplained'
  <2>1. /\ config' = config /\ trace'.account = edge
        /\ trace'.incident = trace.incident /\ trace'.knowledge = trace.knowledge
    BY <1>4 DEF FetchAccount, TypeOK, Trace
  <2> QED
    BY <2>1, FetchedIsExplained DEF EdgesAreExplained, EdgeIsExplained
<1>5. ASSUME NEW edge \in IncidentEdges, FetchIncident(edge) PROVE EdgesAreExplained'
  <2>1. /\ config' = config /\ trace'.account = trace.account
        /\ trace'.incident = edge /\ trace'.knowledge = trace.knowledge
    BY <1>5 DEF FetchIncident, TypeOK, Trace
  <2> QED
    BY <2>1, FetchedIsExplained DEF EdgesAreExplained, EdgeIsExplained
<1>6. ASSUME NEW edge \in GroundingEdges, FetchGrounding(edge) PROVE EdgesAreExplained'
  <2>1. /\ config' = config /\ trace'.account = trace.account
        /\ trace'.incident = trace.incident /\ trace'.knowledge = edge
    BY <1>6 DEF FetchGrounding, TypeOK, Trace
  <2> QED
    BY <2>1, FetchedIsExplained DEF EdgesAreExplained, EdgeIsExplained
<1>7. CASE EdgeRaises
  BY <1>1, <1>7 DEF EdgeRaises, Fail
<1>8. CASE Conclude
  BY <1>1, <1>8 DEF Conclude, Decide, Act, LinkRaises, RecordContact, Observe, Save,
                    SaveRaises, Fail, TypeOK, Trace
<1>9. CASE UNCHANGED vars
  BY <1>1, <1>9 DEF vars
<1> QED
  BY <1>2, <1>3, <1>4, <1>5, <1>6, <1>7, <1>8, <1>9 DEF Next, Enrich

\* A request fails on a neighbour or on the LLM only where one is configured.
FailuresAreOwned ==
    /\ response = "enrichment" => config.sales \/ config.incident \/ config.rag
    /\ response = "llm" => config.llm # "off"

\* An exception has a cause that the configuration allows.
LEMMA FailuresStep ==
    TypeOK /\ EdgesAreExplained /\ FailuresAreOwned /\ [Next]_vars => FailuresAreOwned'
<1> SUFFICES ASSUME TypeOK, EdgesAreExplained, FailuresAreOwned, [Next]_vars
             PROVE  FailuresAreOwned'
  OBVIOUS
<1> USE DEF FailuresAreOwned
<1>1. CASE Reject \/ \E r \in Requests : Receive(r)
  BY <1>1 DEF Reject, Receive
<1>2. CASE Classify
  BY <1>2 DEF Classify, ClassifyIntent, ClassifySentiment, ClassifyRaises, Prioritise,
              PrioritiseRaises, Fail
<1>3. CASE Enrich
  BY <1>3 DEF Enrich, FetchAccount, FetchIncident, FetchGrounding, EdgeRaises, Fail
<1>4. CASE LinkRaises
  <2>1. config.incident
    BY <1>4 DEF LinkRaises, EdgesAreExplained, EdgeIsExplained, TypeOK, Configs
  <2> QED
    BY <1>4, <2>1 DEF LinkRaises, Fail
<1>5. CASE Decide \/ Act \/ RecordContact \/ Observe \/ Save \/ SaveRaises
  BY <1>5 DEF Decide, Act, RecordContact, Observe, Save, SaveRaises, Fail
<1>6. CASE UNCHANGED vars
  BY <1>6 DEF vars
<1> QED
  BY <1>1, <1>2, <1>3, <1>4, <1>5, <1>6 DEF Next, Conclude

\* What is right of every state of the handler.
DecisionInv ==
    /\ TypeOK
    /\ StepFitsTrace
    /\ EffectsFollowDecision
    /\ PolicyFitsAnswers
    /\ EdgesAreExplained
    /\ FailuresAreOwned

\* The conjuncts of DecisionInv hold at first and every step preserves them.
LEMMA DecisionInvariant == Spec => []DecisionInv
<1>1. Init => DecisionInv
  <2>1. Init => PolicyFitsAnswers
    BY DEF Init, NoTrace, PolicyFitsAnswers, Decided
  <2>2. Init => EdgesAreExplained /\ FailuresAreOwned
    BY DEF Init, NoTrace, Pending, EdgesAreExplained, EdgeIsExplained, FailuresAreOwned
  <2> QED
    BY <2>1, <2>2, TypeInit, StepInit DEF DecisionInv
<1>2. DecisionInv /\ [Next]_vars => DecisionInv'
  BY TypeStep, StepStep, PolicyStep, EdgesStep, FailuresStep DEF DecisionInv
<1> QED
  BY <1>1, <1>2, PTL DEF Spec

\* Every variable of the /decide handler keeps its type, and its trace names only
\* rules that have a policy and policies that have a tool (action_agent.py).
THEOREM TypeCorrect == Spec => []TypeOK
BY DecisionInvariant, PTL DEF DecisionInv

\* What a request leaves in the registry, the drift window and the event store is
\* told by its outcome; only a failing save leaves a part (server.py:140-158).
THEOREM EffectsAreAccounted == Spec => []EffectsFollowDecision
BY DecisionInvariant, PTL DEF DecisionInv

\* A trace with used_enrichment false names the policy of the base rules
\* (agent_dag.py:157-163), whatever the neighbours answered.
THEOREM UnusedIsStandalone == Spec => []UnusedMeansStandalone
<1>1. DecisionInv => UnusedMeansStandalone
  BY DEF DecisionInv, PolicyFitsAnswers, UnusedMeansStandalone
<1> QED
  BY <1>1, DecisionInvariant, PTL

\* With no neighbour configured (client.py:51-52) none makes a request fail, and
\* the decision is the one of the base rules.
THEOREM AloneIsStandalone == Spec => []AloneByItself
<1>1. DecisionInv => AloneByItself
  <2> SUFFICES ASSUME DecisionInv, ~config.sales, ~config.incident, ~config.rag
               PROVE  /\ response # "enrichment"
                      /\ config.llm = "off" => response # "llm"
                      /\ Decided => ~trace.used /\ trace.policy = Standalone(trace)
    BY DEF AloneByItself
  <2>1. response # "enrichment" /\ (config.llm = "off" => response # "llm")
    BY DEF DecisionInv, FailuresAreOwned
  <2>2. trace.account.data = "none" /\ trace.incident.data = "none"
    BY DEF DecisionInv, EdgesAreExplained, EdgeIsExplained
  <2>3. ~Active(trace) /\ ~AtRisk(trace)
    BY <2>2 DEF Active, AtRisk
  <2> QED
    BY <2>1, <2>3 DEF DecisionInv, PolicyFitsAnswers
<1> QED
  BY <1>1, DecisionInvariant, PTL

\* The tool that was called is the one an auditor expects of the written rules
\* (policy_agent.py, action_agent.py).
THEOREM DecisionsAreJustified == Spec => []DecisionIsJustified
<1>1. DecisionInv => DecisionIsJustified
  <2> SUFFICES ASSUME DecisionInv, Acted
               PROVE  /\ trace.action = "link_to_incident" <=> Active(trace)
                      /\ trace.action = "create_ticket"
                           <=> ~Active(trace) /\ MustEscalate(trace)
                      /\ trace.action = "apply_credit" => trace.intent = "delivery_issue"
                      /\ trace.action = "refund_review" => trace.intent = "refund_request"
    BY DEF DecisionIsJustified
  <2>1. Decided /\ trace.action = ActionOf[trace.policy]
    BY DEF DecisionInv, StepFitsTrace
  <2>2. CASE Active(trace)
    <3>1. trace.action = "link_to_incident"
      BY <2>1, <2>2 DEF DecisionInv, PolicyFitsAnswers, ActionOf
    <3> QED
      BY <2>2, <3>1
  <2>3. CASE ~Active(trace) /\ AtRisk(trace)
    <3>1. trace.action = "create_ticket"
      BY <2>1, <2>3 DEF DecisionInv, PolicyFitsAnswers, ActionOf
    <3> QED
      BY <2>3, <3>1 DEF MustEscalate
  <2>4. CASE ~Active(trace) /\ ~AtRisk(trace)
    <3>1. trace.policy = Standalone(trace)
      BY <2>1, <2>4 DEF DecisionInv, PolicyFitsAnswers
    <3>2. MustEscalate(trace) <=> Unhappy(trace) \/ trace.intent = "complaint"
      BY <2>4 DEF MustEscalate
    <3> QED
      BY <2>1, <2>4, <3>1, <3>2, StandaloneCases DEF ActionOf
  <2> QED
    BY <2>2, <2>3, <2>4
<1> QED
  BY <1>1, DecisionInvariant, PTL

\* The trace says which edges were live, and a rule that used an enrichment had
\* data to use (services.py, agent_dag.py:157-163).
THEOREM SourcesNamed == Spec => []SourcesAreNamed
<1>1. DecisionInv => SourcesAreNamed
  <2> SUFFICES ASSUME DecisionInv PROVE SourcesAreNamed
    OBVIOUS
  <2>1. trace.used => Decided
    BY DEF DecisionInv, StepFitsTrace
  <2>2. trace.used => Active(trace) \/ AtRisk(trace)
    BY <2>1 DEF DecisionInv, PolicyFitsAnswers
  <2> QED
    BY <2>2 DEF DecisionInv, EdgesAreExplained, SourcesAreNamed, Active, AtRisk
<1> QED
  BY <1>1, DecisionInvariant, PTL
=============================================================================
