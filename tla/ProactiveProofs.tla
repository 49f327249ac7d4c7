-------------------------- MODULE ProactiveProofs --------------------------
(***************************************************************************)
(* Proofs about Proactive: for every set of workers, customers, services    *)
(* and events, and every capacity.                                          *)
(***************************************************************************)
EXTENDS Proactive, FiniteSetTheorems, SequenceTheorems, TLAPS

USE DEF vars, memory, history, platform
-----------------------------------------------------------------------------
(* Sequences.                                                               *)

\* Appending to a bounded sequence keeps its type and its bound
\* (collections.deque with a maxlen).
LEMMA BoundedAppendProperties ==
    ASSUME NEW S, NEW s \in Seq(S), NEW x \in S, NEW n \in Nat \ {0}
    PROVE  /\ BoundedAppend(s, x, n) \in Seq(S)
           /\ Len(s) <= n => Len(BoundedAppend(s, x, n)) <= n
<1>1. CASE Len(s) < n
  BY <1>1, AppendProperties, LenProperties DEF BoundedAppend
<1>2. CASE ~(Len(s) < n)
  <2>1. Len(s) \in Nat /\ Len(s) >= n
    BY <1>2, LenProperties
  <2>2. s # << >>
    BY <2>1
  <2>3. Tail(s) \in Seq(S) /\ Len(Tail(s)) = Len(s) - 1
    BY <2>2, HeadTailProperties
  <2>4. /\ Append(Tail(s), x) \in Seq(S)
        /\ Len(Append(Tail(s), x)) = Len(Tail(s)) + 1
    BY <2>3, AppendProperties
  <2> QED
    BY <1>2, <2>1, <2>3, <2>4 DEF BoundedAppend
<1> QED
  BY <1>1, <1>2

\* A sequence of distinct events is no longer than the set of events.
LEMMA DistinctSequenceLength ==
    ASSUME NEW S, IsFiniteSet(S), NEW s \in Seq(S),
           \A i, j \in DOMAIN s : s[i] = s[j] => i = j
    PROVE  Len(s) <= Cardinality(S)
<1>1. Len(s) \in Nat /\ s \in [1..Len(s) -> S] /\ DOMAIN s = 1..Len(s)
  BY LenProperties
<1>2. s \in Injection(1..Len(s), S)
  BY <1>1 DEF Injection, IsInjective
<1>3. Cardinality(1..Len(s)) <= Cardinality(S)
  BY <1>2, FS_Injection
<1>4. Cardinality(1..Len(s)) = Len(s)
  BY <1>1, FS_Interval
<1> QED
  BY <1>3, <1>4
-----------------------------------------------------------------------------
(* Type correctness.                                                        *)

\* What _remember does to the two halves of _seen_events keeps their types.
LEMMA StoreType ==
    ASSUME TypeOK, NEW e \in EventIds, NEW r \in Result, Store(e, r)
    PROVE  /\ seenOrder' \in Seq(EventIds)
           /\ seenResult' \in [EventIds -> Result]
           /\ forgotten' \in SUBSET EventIds
           /\ lost' \in [EventIds -> Nat]
<1> DEFINE order  == IF Remembered(e) THEN seenOrder ELSE Append(seenOrder, e)
           stored == [seenResult EXCEPT ![e] = r]
<1>1. order \in Seq(EventIds) /\ Len(order) \in Nat
  BY AppendProperties, LenProperties DEF TypeOK
<1>2. stored \in [EventIds -> Result]
  BY DEF TypeOK
<1>3. NoResult \in Result
  BY DEF NoResult, Result
<1>4. CASE Len(order) > MaxSeenEvents
  <2>1. order # << >>
    BY <1>1, <1>4, CapacityAssumption
  <2>2. Head(order) \in EventIds /\ Tail(order) \in Seq(EventIds)
    BY <1>1, <2>1, HeadTailProperties
  <2>3. /\ seenOrder' = Tail(order)
        /\ seenResult' = [stored EXCEPT ![Head(order)] = NoResult]
        /\ forgotten' = forgotten \cup {Head(order)}
        /\ lost' = [lost EXCEPT ![Head(order)] = @ + 1]
    BY <1>4 DEF Store
  <2>4. forgotten' \in SUBSET EventIds /\ lost' \in [EventIds -> Nat]
    <3> HIDE DEF order
    <3> QED
      BY <2>2, <2>3 DEF TypeOK
  <2> QED
    BY <1>2, <1>3, <2>2, <2>3, <2>4
<1>5. CASE ~(Len(order) > MaxSeenEvents)
  <2>1. /\ seenOrder' = order /\ seenResult' = stored
        /\ UNCHANGED <<forgotten, lost>>
    BY <1>5 DEF Store
  <2>2. forgotten' \in SUBSET EventIds /\ lost' \in [EventIds -> Nat]
    BY <2>1 DEF TypeOK
  <2> QED
    BY <1>1, <1>2, <2>1, <2>2
<1> QED
  BY <1>4, <1>5

\* Every outcome the handler stores is a result.
LEMMA OutcomeType ==
    ASSUME NEW e, NEW a \in SUBSET Customers
    PROVE  Outcome(e, a) \in Result
BY DEF Outcome, Result

\* Answering frees the worker and may acknowledge the event.
LEMMA AnswerType ==
    ASSUME TypeOK, NEW w \in Workers, NEW e \in EventIds, Answer(w, e)
    PROVE  /\ pc' \in [Workers -> PcValues]
           /\ job' \in [Workers -> Job]
           /\ acked' \in SUBSET EventIds
<1>1. NoJob \in Job
  BY DEF NoJob, Job
<1> QED
  BY <1>1 DEF TypeOK, Answer, PcValues

\* Typing is inductive only together with what the program counter says about
\* the job.
TypeInv == TypeOK /\ JobFitsStep

\* The structures of a process that has just started are well typed.
LEMMA TypeInit == Init => TypeInv
<1> SUFFICES ASSUME Init PROVE TypeInv
  OBVIOUS
<1>1. NoJob \in Job /\ NoResult \in Result
  BY DEF NoJob, Job, NoResult, Result
<1>2. /\ << >> \in Seq(EventIds)
      /\ << >> \in Seq(Contact)
      /\ << >> \in Seq(Batch)
  BY EmptySeq
<1>3. TypeOK
  BY <1>1, <1>2 DEF Init, TypeOK, PcValues
<1>4. JobFitsStep
  BY DEF Init, JobFitsStep
<1> QED
  BY <1>3, <1>4 DEF TypeInv

\* Every step of the handlers, and a restart, keeps them well typed.
LEMMA TypeStep == TypeInv /\ [Next]_vars => TypeInv'
<1> SUFFICES ASSUME TypeInv, [Next]_vars PROVE TypeInv'
  OBVIOUS
<1> USE CapacityAssumption, EventAssumption
<1>0. TypeOK /\ JobFitsStep
  BY DEF TypeInv
<1>a. NoJob \in Job /\ NoResult \in Result
  BY DEF NoJob, Job, NoResult, Result
<1>1. CASE Tick
  BY <1>0, <1>1 DEF TypeInv, TypeOK, JobFitsStep, Tick, WantsOutreach
<1>2. ASSUME NEW c \in Customers, NEW s \in Services \cup {NoService},
             RecordContact(c, s)
      PROVE  TypeInv'
  <2> DEFINE entry == [customer |-> c, at |-> now]
  <2>1. s \in Services
    BY <1>2 DEF RecordContact
  <2>2. entry \in Contact
    BY <1>0 DEF TypeOK, Contact
  <2>3. BoundedAppend(contacts[s], entry, MaxContactsPerService) \in Seq(Contact)
    BY <1>0, <2>1, <2>2, BoundedAppendProperties DEF TypeOK
  <2>4. Append(wrote[s], entry) \in Seq(Contact)
    BY <1>0, <2>1, <2>2, AppendProperties DEF TypeOK
  <2>5. /\ contacts' \in [Services -> Seq(Contact)]
        /\ wrote' \in [Services -> Seq(Contact)]
    BY <1>0, <1>2, <2>1, <2>3, <2>4 DEF TypeOK, RecordContact
  <2>6. TypeOK'
    BY <1>0, <1>2, <2>5 DEF TypeOK, RecordContact
  <2>7. JobFitsStep'
    BY <1>0, <1>2 DEF JobFitsStep, RecordContact, WantsOutreach
  <2> QED
    BY <2>6, <2>7 DEF TypeInv
<1>3. ASSUME NEW w \in Workers, NEW e \in EventIds, CheckDuplicate(w, e)
      PROVE  TypeInv'
  <2>1. /\ pc' \in [Workers -> PcValues]
        /\ job' \in [Workers -> Job]
        /\ acked' \in SUBSET EventIds
    BY <1>0, <1>3, AnswerType DEF CheckDuplicate
  <2>2. redelivered' \in Nat
    BY <1>0, <1>3 DEF CheckDuplicate, Deliver, TypeOK
  <2>3. TypeOK'
    BY <1>0, <1>3, <2>1, <2>2 DEF TypeOK, CheckDuplicate
  <2>4. JobFitsStep'
    BY <1>0, <1>3 DEF TypeOK, JobFitsStep, CheckDuplicate, Answer, WantsOutreach
  <2> QED
    BY <2>3, <2>4 DEF TypeInv
<1>4. ASSUME NEW w \in Workers, NEW e \in EventIds, CheckFresh(w, e)
      PROVE  TypeInv'
  <2>a. now \in Nat
    BY <1>0 DEF TypeOK
  <2>1. JobFor(e) \in Job /\ JobFor(e).event = e
    BY <2>a DEF JobFor, Job
  <2>2. /\ pc' \in [Workers -> PcValues]
        /\ job' \in [Workers -> Job]
        /\ redelivered' \in Nat
    BY <1>0, <1>4, <2>1 DEF CheckFresh, Deliver, TypeOK, PcValues
  <2>3. TypeOK'
    BY <1>0, <1>4, <2>2 DEF TypeOK, CheckFresh
  <2>4. JobFitsStep'
    BY <1>0, <1>4, <2>1 DEF TypeOK, JobFitsStep, CheckFresh, WantsOutreach
  <2> QED
    BY <2>3, <2>4 DEF TypeInv
<1>5. ASSUME NEW w \in Workers, TakeCutoff(w)
      PROVE  TypeInv'
  <2>a. job[w] \in Job /\ now - ContactWindow \in Int
    BY <1>0 DEF TypeOK
  <2>1. [job[w] EXCEPT !.cutoff = now - ContactWindow] \in Job
    BY <2>a DEF Job
  <2>2. job' \in [Workers -> Job] /\ pc' \in [Workers -> PcValues]
    BY <1>0, <1>5, <2>1 DEF TypeOK, TakeCutoff, PcValues
  <2>3. TypeOK'
    BY <1>0, <1>5, <2>2 DEF TypeOK, TakeCutoff
  <2>4. \A v \in Workers : job'[v].event = job[v].event
    BY <1>0, <1>5 DEF TypeOK, TakeCutoff, Job
  <2>5. JobFitsStep'
    BY <1>0, <1>5, <2>4 DEF TypeOK, JobFitsStep, TakeCutoff, WantsOutreach
  <2> QED
    BY <2>3, <2>5 DEF TypeInv
<1>6. ASSUME NEW w \in Workers, Snapshot(w)
      PROVE  TypeInv'
  <2> DEFINE s == EventService[job[w].event]
             told == Affected(s, job[w].cutoff)
  <2>1. job[w].event \in EventIds /\ WantsOutreach(job[w].event) /\ s # BadService
    BY <1>0, <1>6 DEF JobFitsStep, Snapshot
  <2>2. s \in Services
    BY <2>1 DEF WantsOutreach
  <2>3. contacts[s] \in Seq(Contact)
    BY <1>0, <2>2 DEF TypeOK
  <2>4. Elements(contacts[s]) \subseteq Contact
    BY <2>3, ElementOfSeq, LenProperties DEF Elements
  <2>5. told \in SUBSET Customers
    BY <2>4 DEF Affected, Contact
  <2>a. job[w] \in Job
    BY <1>0 DEF TypeOK
  <2>6. [job[w] EXCEPT !.outreach = told] \in Job
    BY <2>5, <2>a DEF Job
  <2>7. job' \in [Workers -> Job] /\ pc' \in [Workers -> PcValues]
    BY <1>0, <1>6, <2>6 DEF TypeOK, Snapshot, PcValues
  <2>8. TypeOK'
    BY <1>0, <1>6, <2>7 DEF TypeOK, Snapshot
  <2>9. \A v \in Workers : job'[v].event = job[v].event
    BY <1>0, <1>6 DEF TypeOK, Snapshot, Job
  <2>10. JobFitsStep'
    BY <1>0, <1>6, <2>2, <2>9 DEF TypeOK, JobFitsStep, Snapshot, WantsOutreach
  <2> QED
    BY <2>8, <2>10 DEF TypeInv
<1>7. ASSUME NEW w \in Workers, SnapshotRaises(w)
      PROVE  TypeInv'
  <2>1. TypeOK'
    BY <1>0, <1>a, <1>7 DEF TypeOK, SnapshotRaises, PcValues
  <2>2. JobFitsStep'
    BY <1>0, <1>7 DEF TypeOK, JobFitsStep, SnapshotRaises, WantsOutreach
  <2> QED
    BY <2>1, <2>2 DEF TypeInv
<1>8. ASSUME NEW w \in Workers, RememberQuiet(w)
      PROVE  TypeInv'
  <2> DEFINE e == job[w].event
  <2>1. e \in EventIds /\ Store(e, Outcome(e, {})) /\ Answer(w, e)
    BY <1>0, <1>8 DEF JobFitsStep, RememberQuiet
  <2>2. /\ seenOrder' \in Seq(EventIds)
        /\ seenResult' \in [EventIds -> Result]
        /\ forgotten' \in SUBSET EventIds
        /\ lost' \in [EventIds -> Nat]
    BY <1>0, <2>1, OutcomeType, StoreType
  <2>3. /\ pc' \in [Workers -> PcValues]
        /\ job' \in [Workers -> Job]
        /\ acked' \in SUBSET EventIds
    BY <1>0, <2>1, AnswerType
  <2>4. TypeOK'
    BY <1>0, <1>8, <2>2, <2>3 DEF TypeOK, RememberQuiet
  <2>5. JobFitsStep'
    BY <1>0, <2>1 DEF TypeOK, JobFitsStep, Answer, WantsOutreach
  <2> QED
    BY <2>4, <2>5 DEF TypeInv
<1>9. ASSUME NEW w \in Workers, RememberOutreach(w)
      PROVE  TypeInv'
  <2> DEFINE e == job[w].event
  <2>1. e \in EventIds /\ Store(e, Outcome(e, job[w].outreach))
    BY <1>0, <1>9 DEF JobFitsStep, RememberOutreach
  <2>2. job[w].outreach \in SUBSET Customers
    BY <1>0 DEF TypeOK, Job
  <2>3. /\ seenOrder' \in Seq(EventIds)
        /\ seenResult' \in [EventIds -> Result]
        /\ forgotten' \in SUBSET EventIds
        /\ lost' \in [EventIds -> Nat]
    BY <1>0, <2>1, <2>2, OutcomeType, StoreType
  <2>4. TypeOK'
    BY <1>0, <1>9, <2>3 DEF TypeOK, RememberOutreach, PcValues
  <2>5. JobFitsStep'
    BY <1>0, <1>9, <2>1 DEF TypeOK, JobFitsStep, RememberOutreach, WantsOutreach
  <2> QED
    BY <2>4, <2>5 DEF TypeInv
<1>10. ASSUME NEW w \in Workers, Log(w)
       PROVE  TypeInv'
  <2> DEFINE e == job[w].event
             batch == [service |-> EventService[e], received |-> job[w].received,
                       at |-> now, outreach |-> job[w].outreach]
  <2>1. e \in EventIds /\ EventService[e] \in Services /\ Answer(w, e)
    BY <1>0, <1>10 DEF JobFitsStep, Log
  <2>2. batch \in Batch
    BY <1>0, <2>1 DEF TypeOK, Job, Batch
  <2>3. outreachLog' \in Seq(Batch)
    BY <1>0, <1>10, <2>2, BoundedAppendProperties DEF TypeOK, Log
  <2>4. /\ pc' \in [Workers -> PcValues]
        /\ job' \in [Workers -> Job]
        /\ acked' \in SUBSET EventIds
    BY <1>0, <2>1, AnswerType
  <2>5. rounds' \in [EventIds -> [Workers -> Nat]]
    BY <1>0, <1>10, <2>1 DEF TypeOK, Log
  <2>6. messaged' \in [EventIds -> [Workers -> [Customers -> Nat]]]
    <3>1. /\ messaged[e][w] \in [Customers -> Nat]
          /\ messaged' = [messaged EXCEPT
               ![e][w] = [c \in Customers |->
                            IF c \in job[w].outreach THEN @[c] + 1 ELSE @[c]]]
      BY <1>0, <1>10, <2>1 DEF TypeOK, Log
    <3>2. [c \in Customers |-> IF c \in job[w].outreach THEN messaged[e][w][c] + 1
                                                       ELSE messaged[e][w][c]]
            \in [Customers -> Nat]
      BY <3>1
    <3>3. messaged \in [EventIds -> [Workers -> [Customers -> Nat]]]
      BY <1>0 DEF TypeOK
    <3> QED
      BY <2>1, <3>1, <3>2, <3>3
  <2>7. TypeOK'
    BY <1>0, <1>10, <2>3, <2>4, <2>5, <2>6 DEF TypeOK, Log
  <2>8. JobFitsStep'
    BY <1>0, <2>1 DEF TypeOK, JobFitsStep, Answer, WantsOutreach
  <2> QED
    BY <2>7, <2>8 DEF TypeInv
<1>11. CASE Restart
  <2>1. /\ << >> \in Seq(EventIds)
        /\ << >> \in Seq(Contact)
        /\ << >> \in Seq(Batch)
    BY EmptySeq
  <2>a. lost' \in [EventIds -> Nat]
    BY <1>0, <1>11 DEF TypeOK, Restart
  <2>2. TypeOK'
    BY <1>0, <1>a, <1>11, <2>1, <2>a DEF TypeOK, Restart, PcValues
  <2>3. JobFitsStep'
    BY <1>11 DEF JobFitsStep, Restart
  <2> QED
    BY <2>2, <2>3 DEF TypeInv
<1>12. CASE Waiting \/ UNCHANGED vars
  BY <1>0, <1>12 DEF TypeInv, TypeOK, JobFitsStep, WantsOutreach, Waiting
<1> QED
  BY <1>1, <1>2, <1>3, <1>4, <1>5, <1>6, <1>7, <1>8, <1>9, <1>10, <1>11, <1>12
  DEF Next, Receive, Proceed

\* The types are right in every reachable state, whatever the threads, the
\* deliveries and the restarts do: no round is ever logged for a payload whose
\* service is missing or not a name.
THEOREM TypeCorrect == Spec => [](TypeOK /\ JobFitsStep)
<1>1. Spec => []TypeInv
  BY TypeInit, TypeStep, PTL DEF Spec
<1> QED
  BY <1>1 DEF TypeInv
-----------------------------------------------------------------------------
(* The idempotency memory.                                                  *)

\* The order _remember works with, before it evicts.
OrderWith(e) == IF Remembered(e) THEN seenOrder ELSE Append(seenOrder, e)

\* It is one event longer at most, free of repetitions, and holds the remembered
\* events and the new one.
LEMMA ExtendedOrder ==
    ASSUME TypeOK, SeenConsistent, NEW e \in EventIds, NEW r \in Result, r # NoResult
    PROVE  /\ OrderWith(e) \in Seq(EventIds)
           /\ Len(OrderWith(e)) \in Nat
           /\ DOMAIN OrderWith(e) = 1..Len(OrderWith(e))
           /\ Len(OrderWith(e)) <= MaxSeenEvents + 1
           /\ \A i, j \in DOMAIN OrderWith(e) : OrderWith(e)[i] = OrderWith(e)[j] => i = j
           /\ \A x \in EventIds : [seenResult EXCEPT ![e] = r][x] # NoResult
                 <=> \E i \in DOMAIN OrderWith(e) : OrderWith(e)[i] = x
<1> DEFINE order == OrderWith(e)
<1>0. order = IF Remembered(e) THEN seenOrder ELSE Append(seenOrder, e)
  BY DEF OrderWith
<1> HIDE DEF order
<1> SUFFICES /\ order \in Seq(EventIds)
             /\ Len(order) \in Nat
             /\ DOMAIN order = 1..Len(order)
             /\ Len(order) <= MaxSeenEvents + 1
             /\ \A i, j \in DOMAIN order : order[i] = order[j] => i = j
             /\ \A x \in EventIds : [seenResult EXCEPT ![e] = r][x] # NoResult
                   <=> \E i \in DOMAIN order : order[i] = x
  BY DEF order
<1> USE CapacityAssumption
<1>1. /\ seenOrder \in Seq(EventIds)
      /\ Len(seenOrder) \in Nat
      /\ DOMAIN seenOrder = 1..Len(seenOrder)
      /\ seenResult \in [EventIds -> Result]
  BY LenProperties DEF TypeOK
<1>2. CASE Remembered(e)
  BY <1>0, <1>1, <1>2 DEF SeenConsistent, Remembered
<1>3. CASE ~Remembered(e)
  <2>1. order = Append(seenOrder, e)
    BY <1>0, <1>3
  <2>2. /\ order \in Seq(EventIds)
        /\ Len(order) = Len(seenOrder) + 1
        /\ \A i \in 1..Len(seenOrder) : order[i] = seenOrder[i]
        /\ order[Len(seenOrder) + 1] = e
    BY <1>1, <2>1, AppendProperties
  <2>3. DOMAIN order = 1..Len(order)
    BY <2>2, LenProperties
  <2>4. \A i \in 1..Len(seenOrder) : seenOrder[i] # e
    BY <1>1, <1>3 DEF SeenConsistent
  <2>5. \A i, j \in DOMAIN order : order[i] = order[j] => i = j
    BY <1>1, <2>2, <2>3, <2>4 DEF SeenConsistent
  <2>6. ASSUME NEW x \in EventIds
        PROVE  [seenResult EXCEPT ![e] = r][x] # NoResult
                 <=> \E i \in DOMAIN order : order[i] = x
    <3>1. CASE x = e
      BY <1>1, <2>2, <2>3, <3>1
    <3>2. CASE x # e
      BY <1>1, <2>2, <2>3, <3>2 DEF SeenConsistent, Remembered
    <3> QED
      BY <3>1, <3>2
  <2> QED
    BY <1>1, <2>2, <2>3, <2>5, <2>6 DEF SeenConsistent
<1> QED
  BY <1>2, <1>3

\* _remember keeps the memory consistent, with and without an eviction.
LEMMA StoreConsistent ==
    ASSUME TypeOK, SeenConsistent, NEW e \in EventIds, NEW r \in Result, r # NoResult,
           Store(e, r)
    PROVE  SeenConsistent'
<1> DEFINE order  == OrderWith(e)
           stored == [seenResult EXCEPT ![e] = r]
<1> USE CapacityAssumption
<1>1. /\ order \in Seq(EventIds)
      /\ Len(order) \in Nat
      /\ DOMAIN order = 1..Len(order)
      /\ Len(order) <= MaxSeenEvents + 1
      /\ \A i, j \in DOMAIN order : order[i] = order[j] => i = j
      /\ \A x \in EventIds : stored[x] # NoResult
            <=> \E i \in DOMAIN order : order[i] = x
  BY ExtendedOrder
<1>2. stored \in [EventIds -> Result]
  BY DEF TypeOK
<1>3. \/ /\ Len(order) > MaxSeenEvents
         /\ seenOrder' = Tail(order)
         /\ seenResult' = [stored EXCEPT ![Head(order)] = NoResult]
      \/ /\ ~(Len(order) > MaxSeenEvents)
         /\ seenOrder' = order
         /\ seenResult' = stored
  BY DEF Store, OrderWith
<1> HIDE DEF order, stored
<1>4. CASE Len(order) > MaxSeenEvents
  <2>1. order # << >> /\ Head(order) = order[1]
    BY <1>1, <1>4
  <2>2. /\ Tail(order) \in Seq(EventIds)
        /\ Len(Tail(order)) = Len(order) - 1
        /\ \A i \in 1..Len(Tail(order)) : Tail(order)[i] = order[i + 1]
    BY <1>1, <2>1, HeadTailProperties
  <2>3. DOMAIN seenOrder' = 1..(Len(order) - 1)
    BY <1>3, <1>4, <2>2, LenProperties
  <2>4. \A i \in 1..(Len(order) - 1) : seenOrder'[i] = order[i + 1]
    BY <1>3, <1>4, <2>2
  <2>5. \A i, j \in DOMAIN seenOrder' : seenOrder'[i] = seenOrder'[j] => i = j
    <3> SUFFICES ASSUME NEW i \in 1..(Len(order) - 1), NEW j \in 1..(Len(order) - 1),
                        order[i + 1] = order[j + 1]
                 PROVE  i = j
      BY <2>3, <2>4
    <3>1. i + 1 \in DOMAIN order /\ j + 1 \in DOMAIN order
      BY <1>1
    <3>2. i + 1 = j + 1
      BY <1>1, <3>1
    <3> QED
      BY <1>1, <3>2
  <2>6. ASSUME NEW x \in EventIds
        PROVE  seenResult'[x] # NoResult <=> \E i \in DOMAIN seenOrder' : seenOrder'[i] = x
    <3>1. CASE x = order[1]
      <4>1. seenResult'[x] = NoResult
        BY <1>2, <1>3, <1>4, <2>1, <3>1
      <4>2. \A i \in 1..(Len(order) - 1) : order[i + 1] # order[1]
        BY <1>1, <1>4
      <4> QED
        BY <2>3, <2>4, <3>1, <4>1, <4>2
    <3>2. CASE x # order[1]
      <4>1. seenResult'[x] = stored[x]
        BY <1>2, <1>3, <1>4, <2>1, <3>2
      <4>2. (\E i \in 1..Len(order) : order[i] = x)
              <=> (\E i \in 1..(Len(order) - 1) : order[i + 1] = x)
        <5>1. ASSUME NEW i \in 1..Len(order), order[i] = x
              PROVE  \E k \in 1..(Len(order) - 1) : order[k + 1] = x
          <6>1. i # 1 /\ i - 1 \in 1..(Len(order) - 1) /\ (i - 1) + 1 = i
            BY <1>1, <3>2, <5>1
          <6> QED
            BY <5>1, <6>1
        <5>2. ASSUME NEW i \in 1..(Len(order) - 1), order[i + 1] = x
              PROVE  \E k \in 1..Len(order) : order[k] = x
          <6>1. i + 1 \in 1..Len(order)
            BY <1>1
          <6> QED
            BY <5>2, <6>1
        <5> QED
          BY <5>1, <5>2
      <4>3. (\E i \in DOMAIN seenOrder' : seenOrder'[i] = x)
              <=> (\E i \in 1..(Len(order) - 1) : order[i + 1] = x)
        BY <2>3, <2>4
      <4>4. stored[x] # NoResult <=> \E i \in 1..Len(order) : order[i] = x
        BY <1>1
      <4> QED
        BY <4>1, <4>2, <4>3, <4>4
    <3> QED
      BY <3>1, <3>2
  <2>7. Len(seenOrder') <= MaxSeenEvents
    BY <1>1, <1>3, <1>4, <2>2
  <2> QED
    BY <2>5, <2>6, <2>7 DEF SeenConsistent, Remembered
<1>5. CASE ~(Len(order) > MaxSeenEvents)
  BY <1>1, <1>3, <1>5 DEF SeenConsistent, Remembered
<1> QED
  BY <1>4, <1>5

\* _remember gives one event its result.  Another one, which was remembered, makes
\* room for it at most, and only where the memory cannot hold every event.
LEMMA StoreEvicts ==
    ASSUME TypeOK, SeenConsistent,
           NEW e \in EventIds, NEW r \in Result, r # NoResult, Store(e, r)
    PROVE  \/ seenResult' = [seenResult EXCEPT ![e] = r] /\ lost' = lost
           \/ /\ ~NoEviction
              /\ \E d \in EventIds \ {e} :
                   /\ Remembered(d)
                   /\ seenResult' = [seenResult EXCEPT ![e] = r, ![d] = NoResult]
                   /\ lost' = [lost EXCEPT ![d] = @ + 1]
<1> DEFINE order == OrderWith(e)
           d == Head(order)
<1> USE CapacityAssumption
<1>1. /\ order \in Seq(EventIds)
      /\ Len(order) \in Nat
      /\ \A i, j \in DOMAIN order : order[i] = order[j] => i = j
  BY ExtendedOrder
<1>2. CASE ~(Len(order) > MaxSeenEvents)
  BY <1>2 DEF Store, OrderWith
<1>3. CASE Len(order) > MaxSeenEvents
  <2>1. /\ seenResult' = [seenResult EXCEPT ![e] = r, ![d] = NoResult]
        /\ lost' = [lost EXCEPT ![d] = @ + 1]
    BY <1>3 DEF Store, OrderWith
  <2>2. ~NoEviction
    <3>1. Len(order) <= Cardinality(EventIds)
      <4> HIDE DEF order
      <4> QED
        BY <1>1, DistinctSequenceLength, EventAssumption
    <3>2. Cardinality(EventIds) \in Nat
      BY FS_CardinalityType, EventAssumption
    <3> QED
      BY <1>1, <1>3, <3>1, <3>2 DEF NoEviction
  <2>3. seenOrder \in Seq(EventIds) /\ Len(seenOrder) \in Nat /\ Len(seenOrder) <= MaxSeenEvents
    BY LenProperties DEF TypeOK, SeenConsistent
  <2>4. ~Remembered(e) /\ order = Append(seenOrder, e)
    BY <1>3, <2>3 DEF OrderWith
  <2>5. Len(order) = Len(seenOrder) + 1 /\ 1 \in 1..Len(seenOrder)
    BY <1>3, <2>3, <2>4, AppendProperties
  <2>6. order[1] = seenOrder[1]
    BY <2>3, <2>4, <2>5, AppendProperties
  <2>7. d = seenOrder[1] /\ 1 \in DOMAIN seenOrder /\ seenOrder[1] \in EventIds
    BY <1>1, <2>3, <2>5, <2>6, LenProperties, ElementOfSeq
  <2>8. Remembered(d)
    BY <2>7 DEF SeenConsistent
  <2>9. d \in EventIds \ {e}
    BY <2>4, <2>7, <2>8
  <2> HIDE DEF d
  <2> QED
    BY <2>1, <2>2, <2>8, <2>9
<1> QED
  BY <1>2, <1>3

\* What _remember drops is recorded, and what it does not drop it keeps.
LEMMA StoreKeepsTheRest ==
    ASSUME TypeOK, NEW e \in EventIds, NEW r \in Result, r # NoResult, Store(e, r),
           NEW x \in EventIds, x \notin forgotten'
    PROVE  /\ x \notin forgotten
           /\ x = e \/ seenResult[x] # NoResult => seenResult'[x] # NoResult
<1> DEFINE order  == IF Remembered(e) THEN seenOrder ELSE Append(seenOrder, e)
           stored == [seenResult EXCEPT ![e] = r]
<1>1. \/ /\ seenResult' = [stored EXCEPT ![Head(order)] = NoResult]
         /\ forgotten' = forgotten \cup {Head(order)}
      \/ seenResult' = stored /\ forgotten' = forgotten
  BY DEF Store
<1>2. /\ stored \in [EventIds -> Result]
      /\ stored[x] = IF x = e THEN r ELSE seenResult[x]
  BY DEF TypeOK
<1> HIDE DEF order, stored
<1> QED
  BY <1>1, <1>2

\* A stored outcome is never the absence of a result.
LEMMA OutcomeIsResult ==
    ASSUME NEW e, NEW a PROVE Outcome(e, a) # NoResult
BY DEF Outcome, NoResult

\* Every reachable state keeps the idempotency memory consistent.
LEMMA SeenInit == Init => SeenConsistent
<1> SUFFICES ASSUME Init PROVE SeenConsistent
  OBVIOUS
<1>1. Len(seenOrder) = 0 /\ DOMAIN seenOrder = {}
  BY DEF Init
<1> QED
  BY <1>1, CapacityAssumption DEF Init, SeenConsistent, Remembered

\* Every step keeps _seen_events a proper ordered dictionary.
LEMMA SeenStep == TypeInv /\ SeenConsistent /\ [Next]_vars => SeenConsistent'
<1> SUFFICES ASSUME TypeInv, SeenConsistent, [Next]_vars PROVE SeenConsistent'
  OBVIOUS
<1>0. TypeOK /\ JobFitsStep
  BY DEF TypeInv
<1>1. ASSUME UNCHANGED <<seenOrder, seenResult>>
      PROVE  SeenConsistent'
  BY <1>1 DEF SeenConsistent, Remembered
<1>2. ASSUME NEW w \in Workers, RememberQuiet(w)
      PROVE  SeenConsistent'
  <2>1. /\ job[w].event \in EventIds
        /\ Store(job[w].event, Outcome(job[w].event, {}))
    BY <1>0, <1>2 DEF JobFitsStep, RememberQuiet
  <2> QED
    BY <1>0, <2>1, OutcomeType, OutcomeIsResult, StoreConsistent
<1>3. ASSUME NEW w \in Workers, RememberOutreach(w)
      PROVE  SeenConsistent'
  <2>1. /\ job[w].event \in EventIds
        /\ Store(job[w].event, Outcome(job[w].event, job[w].outreach))
    BY <1>0, <1>3 DEF JobFitsStep, RememberOutreach
  <2>2. job[w].outreach \in SUBSET Customers
    BY <1>0 DEF TypeOK, Job
  <2> QED
    BY <1>0, <2>1, <2>2, OutcomeType, OutcomeIsResult, StoreConsistent
<1>4. CASE Restart
  <2>1. Len(seenOrder') = 0 /\ DOMAIN seenOrder' = {}
    BY <1>4 DEF Restart
  <2> QED
    BY <1>4, <2>1, CapacityAssumption DEF Restart, SeenConsistent, Remembered
<1>5. CASE Tick \/ Waiting \/ UNCHANGED vars
  BY <1>1, <1>5 DEF Tick, Waiting
<1>6. ASSUME NEW c \in Customers, NEW s \in Services \cup {NoService},
             RecordContact(c, s)
      PROVE  SeenConsistent'
  BY <1>1, <1>6 DEF RecordContact
<1>7. ASSUME NEW w \in Workers, NEW e \in EventIds, Receive(w, e)
      PROVE  SeenConsistent'
  BY <1>1, <1>7 DEF Receive, CheckDuplicate, CheckFresh
<1>8. ASSUME NEW w \in Workers,
             TakeCutoff(w) \/ Snapshot(w) \/ SnapshotRaises(w) \/ Log(w)
      PROVE  SeenConsistent'
  BY <1>1, <1>8 DEF TakeCutoff, Snapshot, SnapshotRaises, Log
<1> QED
  BY <1>2, <1>3, <1>4, <1>5, <1>6, <1>7, <1>8 DEF Next, Proceed

\* What a step of type-correct states does to the two other structures.
LEMMA CapacityStep ==
    TypeInv /\ MemoryConsistent /\ [Next]_vars =>
        /\ Len(outreachLog') <= MaxOutreachLog
        /\ \A s \in Services : Len(contacts'[s]) <= MaxContactsPerService
<1> SUFFICES ASSUME TypeInv, MemoryConsistent, [Next]_vars
             PROVE  /\ Len(outreachLog') <= MaxOutreachLog
                    /\ \A s \in Services : Len(contacts'[s]) <= MaxContactsPerService
  OBVIOUS
<1> USE CapacityAssumption
<1>0. TypeOK /\ JobFitsStep
  BY DEF TypeInv
<1>1. /\ Len(outreachLog) <= MaxOutreachLog
      /\ \A s \in Services : Len(contacts[s]) <= MaxContactsPerService
  BY DEF MemoryConsistent
<1>2. ASSUME NEW c \in Customers, NEW s \in Services \cup {NoService},
             RecordContact(c, s)
      PROVE  /\ outreachLog' = outreachLog
             /\ \A x \in Services : Len(contacts'[x]) <= MaxContactsPerService
  <2> DEFINE entry == [customer |-> c, at |-> now]
  <2>1. s \in Services /\ entry \in Contact /\ contacts[s] \in Seq(Contact)
    BY <1>0, <1>2 DEF TypeOK, RecordContact, Contact
  <2>2. Len(BoundedAppend(contacts[s], entry, MaxContactsPerService))
          <= MaxContactsPerService
    BY <1>1, <2>1, BoundedAppendProperties
  <2> QED
    BY <1>0, <1>1, <1>2, <2>1, <2>2 DEF TypeOK, RecordContact
<1>3. ASSUME NEW w \in Workers, Log(w)
      PROVE  Len(outreachLog') <= MaxOutreachLog /\ contacts' = contacts
  <2> DEFINE e == job[w].event
             batch == [service |-> EventService[e], received |-> job[w].received,
                       at |-> now, outreach |-> job[w].outreach]
  <2>1. EventService[e] \in Services /\ job[w] \in Job /\ now \in Nat
    BY <1>0, <1>3 DEF JobFitsStep, Log, TypeOK
  <2>2. batch \in Batch
    BY <2>1 DEF Job, Batch
  <2>3. outreachLog' = BoundedAppend(outreachLog, batch, MaxOutreachLog)
    BY <1>3 DEF Log
  <2>4. Len(BoundedAppend(outreachLog, batch, MaxOutreachLog)) <= MaxOutreachLog
    BY <1>0, <1>1, <2>2, BoundedAppendProperties DEF TypeOK
  <2> QED
    BY <1>3, <2>3, <2>4 DEF Log
<1>4. CASE Restart
  BY <1>4 DEF Restart
<1>5. CASE Tick \/ Waiting \/ UNCHANGED vars
  BY <1>1, <1>5 DEF Tick, Waiting
<1>6. ASSUME NEW w \in Workers, NEW e \in EventIds, Receive(w, e)
      PROVE  UNCHANGED <<outreachLog, contacts>>
  BY <1>6 DEF Receive, CheckDuplicate, CheckFresh
<1>7. ASSUME NEW w \in Workers,
             \/ TakeCutoff(w) \/ Snapshot(w) \/ SnapshotRaises(w)
             \/ RememberQuiet(w) \/ RememberOutreach(w)
      PROVE  UNCHANGED <<outreachLog, contacts>>
  BY <1>7 DEF TakeCutoff, Snapshot, SnapshotRaises, RememberQuiet, RememberOutreach
<1> QED
  BY <1>1, <1>2, <1>3, <1>4, <1>5, <1>6, <1>7 DEF Next, Proceed

\* The three bounded structures of proactive.py are consistent in every
\* reachable state, for every capacity and every number of workers.
THEOREM MemoryIsConsistent == Spec => []MemoryConsistent
<1>1. Init => MemoryConsistent
  <2>1. ASSUME Init PROVE Len(outreachLog) = 0 /\ \A s \in Services : Len(contacts[s]) = 0
    BY <2>1 DEF Init
  <2> QED
    BY <2>1, SeenInit, CapacityAssumption DEF MemoryConsistent
<1>2. TypeInv /\ MemoryConsistent /\ [Next]_vars => MemoryConsistent'
  BY SeenStep, CapacityStep DEF MemoryConsistent
<1> QED
  BY <1>1, <1>2, TypeInit, TypeStep, PTL DEF Spec
-----------------------------------------------------------------------------
(* One round per worker.                                                    *)

RoundInv == TypeInv /\ SeenConsistent /\ RoundIsRemembered /\ OneRoundPerWorker

\* Both parts hold initially, with or without room for every event.
LEMMA RoundInit == Init => RoundIsRemembered /\ OneRoundPerWorker
BY DEF Init, RoundIsRemembered, OneRoundPerWorker

\* No step makes a worker repeat the round of an event that was not forgotten, nor
\* forget it unrecorded.
LEMMA RoundStep ==
    RoundInv /\ [Next]_vars => RoundIsRemembered' /\ OneRoundPerWorker'
<1> SUFFICES ASSUME RoundInv, [Next]_vars, NEW e \in EventIds \ forgotten', NEW w \in Workers
             PROVE  /\ rounds'[e][w] > 0 => seenResult'[e] # NoResult
                    /\ pc'[w] # "idle" /\ job'[w].event = e => rounds'[e][w] = 0
                    /\ pc'[w] = "log" /\ job'[w].event = e => seenResult'[e] # NoResult
                    /\ rounds'[e][w] <= 1
  BY DEF RoundIsRemembered, OneRoundPerWorker, Remembered
<1>0. TypeOK /\ JobFitsStep /\ SeenConsistent
  BY DEF RoundInv, TypeInv
<1>k. ASSUME e \notin forgotten
      PROVE  /\ rounds[e][w] > 0 => seenResult[e] # NoResult
             /\ pc[w] # "idle" /\ job[w].event = e => rounds[e][w] = 0
             /\ pc[w] = "log" /\ job[w].event = e => seenResult[e] # NoResult
             /\ rounds[e][w] <= 1
             /\ rounds[e][w] \in Nat
  BY <1>k DEF RoundInv, TypeInv, RoundIsRemembered, OneRoundPerWorker, TypeOK, Remembered
<1>2. CASE Tick \/ Waiting \/ UNCHANGED vars
  BY <1>k, <1>2 DEF Tick, Waiting
<1>3. ASSUME NEW c \in Customers, NEW s \in Services \cup {NoService},
             RecordContact(c, s)
      PROVE  UNCHANGED <<rounds, forgotten, seenResult, pc, job>>
  BY <1>3 DEF RecordContact
<1>4. CASE \E v \in Workers, x \in EventIds : CheckDuplicate(v, x)
  <2> PICK v \in Workers, x \in EventIds : CheckDuplicate(v, x)
    BY <1>4
  <2>1. /\ UNCHANGED <<rounds, forgotten, seenResult>>
        /\ pc' = [pc EXCEPT ![v] = "idle"]
        /\ job' = [job EXCEPT ![v] = NoJob]
    BY DEF CheckDuplicate, Answer
  <2> QED
    BY <1>0, <1>k, <2>1 DEF TypeOK
<1>5. CASE \E v \in Workers, x \in EventIds : CheckFresh(v, x)
  <2> PICK v \in Workers, x \in EventIds : CheckFresh(v, x)
    BY <1>5
  <2>1. /\ UNCHANGED <<rounds, forgotten, seenResult>>
        /\ seenResult[x] = NoResult
        /\ pc'[v] \in {"cutoff", "remember"}
        /\ v # w => pc'[w] = pc[w] /\ job'[w] = job[w]
        /\ job'[v].event = x
    BY <1>0 DEF CheckFresh, TypeOK, JobFor, Remembered
  <2> QED
    BY <1>0, <1>k, <2>1
<1>6. CASE \E v \in Workers : TakeCutoff(v) \/ Snapshot(v)
  <2> PICK v \in Workers : TakeCutoff(v) \/ Snapshot(v)
    BY <1>6
  <2>1. /\ UNCHANGED <<rounds, forgotten, seenResult>>
        /\ pc[v] # "idle" /\ pc'[v] # "log"
        /\ v # w => pc'[w] = pc[w]
    BY <1>0 DEF TypeOK, TakeCutoff, Snapshot
  <2>2. job'[w].event = job[w].event
    <3>1. CASE TakeCutoff(v)
      BY <1>0, <3>1 DEF TypeOK, TakeCutoff, Job
    <3>2. CASE Snapshot(v)
      BY <1>0, <3>2 DEF TypeOK, Snapshot, Job
    <3> QED
      BY <3>1, <3>2
  <2> QED
    BY <1>k, <2>1, <2>2
<1>7. CASE \E v \in Workers : SnapshotRaises(v)
  <2> PICK v \in Workers : SnapshotRaises(v)
    BY <1>7
  <2>1. /\ UNCHANGED <<rounds, forgotten, seenResult>>
        /\ pc' = [pc EXCEPT ![v] = "idle"]
        /\ job' = [job EXCEPT ![v] = NoJob]
    BY DEF SnapshotRaises
  <2> QED
    BY <1>0, <1>k, <2>1 DEF TypeOK
<1>8. CASE \E v \in Workers : RememberQuiet(v)
  <2> PICK v \in Workers : RememberQuiet(v)
    BY <1>8
  <2> DEFINE x == job[v].event
             r == Outcome(x, {})
  <2>1. x \in EventIds /\ Store(x, r) /\ r \in Result /\ r # NoResult
    BY <1>0, OutcomeType, OutcomeIsResult DEF JobFitsStep, RememberQuiet
  <2>2. e \notin forgotten /\ (seenResult[e] # NoResult => seenResult'[e] # NoResult)
    <3> HIDE DEF x, r
    <3> QED
      BY <1>0, <2>1, StoreKeepsTheRest
  <2>3. /\ rounds' = rounds
        /\ pc' = [pc EXCEPT ![v] = "idle"]
        /\ job' = [job EXCEPT ![v] = NoJob]
    BY DEF RememberQuiet, Answer
  <2> HIDE DEF x, r
  <2> QED
    BY <1>0, <1>k, <2>2, <2>3 DEF TypeOK
<1>9. CASE \E v \in Workers : RememberOutreach(v)
  <2> PICK v \in Workers : RememberOutreach(v)
    BY <1>9
  <2> DEFINE x == job[v].event
             r == Outcome(x, job[v].outreach)
  <2>0. job[v].outreach \in SUBSET Customers
    BY <1>0 DEF TypeOK, Job
  <2>1. x \in EventIds /\ Store(x, r) /\ r \in Result /\ r # NoResult
    BY <1>0, <2>0, OutcomeType, OutcomeIsResult DEF JobFitsStep, RememberOutreach
  <2>2. /\ e \notin forgotten
        /\ e = x \/ seenResult[e] # NoResult => seenResult'[e] # NoResult
    <3> HIDE DEF x, r
    <3> QED
      BY <1>0, <2>1, StoreKeepsTheRest
  <2>3. /\ UNCHANGED <<rounds, job>>
        /\ pc[v] = "remember"
        /\ pc' = [pc EXCEPT ![v] = "log"]
    BY DEF RememberOutreach
  <2> QED
    BY <1>0, <1>k, <2>2, <2>3 DEF TypeOK
<1>10. CASE \E v \in Workers : Log(v)
  <2> PICK v \in Workers : Log(v)
    BY <1>10
  <2> DEFINE x == job[v].event
  <2>1. x \in EventIds /\ pc[v] = "log"
    BY <1>0 DEF JobFitsStep, Log
  <2>2. /\ UNCHANGED <<seenResult, forgotten>>
        /\ rounds' = [rounds EXCEPT ![x][v] = @ + 1]
        /\ pc' = [pc EXCEPT ![v] = "idle"]
        /\ job' = [job EXCEPT ![v] = NoJob]
    BY DEF Log, Answer
  <2>3. rounds'[e][w] = IF x = e /\ v = w THEN rounds[e][w] + 1 ELSE rounds[e][w]
    BY <1>0, <2>1, <2>2 DEF TypeOK
  <2>4. pc'[w] # "idle" => v # w /\ pc'[w] = pc[w] /\ job'[w] = job[w]
    BY <1>0, <2>2 DEF TypeOK
  <2> QED
    BY <1>k, <2>1, <2>2, <2>3, <2>4
<1>11. CASE Restart
  BY <1>11 DEF Restart
<1> QED
  BY <1>k, <1>2, <1>3, <1>4, <1>5, <1>6, <1>7, <1>8, <1>9, <1>10, <1>11
  DEF Next, Receive, Proceed

\* However events are redelivered and interleaved, a worker sends at most one
\* round for an event in the life of the process, until the event is pushed out
\* of the memory: |Workers| rounds bound what the documentation calls one.
THEOREM OneRound == Spec => [](OneRoundPerWorker /\ RoundIsRemembered)
<1>1. Init => RoundInv
  BY TypeInit, SeenInit, RoundInit DEF RoundInv
<1>2. RoundInv /\ [Next]_vars => RoundInv'
  BY TypeStep, SeenStep, RoundStep DEF RoundInv
<1>3. RoundInv => OneRoundPerWorker /\ RoundIsRemembered
  BY DEF RoundInv
<1> QED
  BY <1>1, <1>2, <1>3, PTL DEF Spec
-----------------------------------------------------------------------------
(* No silent round.                                                         *)

\* The outcome of an event without outreach is not an outreach.
LEMMA QuietOutcome ==
    ASSUME NEW e, ~WantsOutreach(e), NEW a PROVE Outcome(e, a).kind # "outreach"
BY DEF Outcome

\* Storing the result of one event leaves every other one as it was or forgets it.
LEMMA StoreElsewhere ==
    ASSUME TypeOK, NEW e \in EventIds, NEW r \in Result, Store(e, r), NEW x \in EventIds
    PROVE  seenResult'[x] \in {IF x = e THEN r ELSE seenResult[x], NoResult}
<1> DEFINE order  == IF Remembered(e) THEN seenOrder ELSE Append(seenOrder, e)
           stored == [seenResult EXCEPT ![e] = r]
<1>1. stored \in [EventIds -> Result] /\ stored[x] = IF x = e THEN r ELSE seenResult[x]
  BY DEF TypeOK
<1>2. seenResult' = stored \/ seenResult' = [stored EXCEPT ![Head(order)] = NoResult]
  BY DEF Store
<1> HIDE DEF order, stored
<1> QED
  BY <1>1, <1>2

\* An event remembered as an outreach had its round sent, or a worker is about
\* to send it: the order of the two critical sections loses no round, with any
\* number of workers, and also when the memory evicts.
THEOREM RoundNotSilent == Spec => []NoSilentRound
<1>1. Init => NoSilentRound
  BY DEF Init, NoSilentRound, NoResult
<1>2. TypeInv /\ NoSilentRound /\ [Next]_vars => NoSilentRound'
  <2> SUFFICES ASSUME TypeInv, NoSilentRound, [Next]_vars,
                      NEW e \in EventIds, seenResult'[e].kind = "outreach"
               PROVE  \E w \in Workers :
                        rounds'[e][w] > 0 \/ (pc'[w] = "log" /\ job'[w].event = e)
    BY DEF NoSilentRound
  <2>0. /\ TypeOK /\ JobFitsStep
        /\ seenResult[e].kind = "outreach" =>
             \E w \in Workers : rounds[e][w] > 0 \/ (pc[w] = "log" /\ job[w].event = e)
        /\ NoResult.kind # "outreach"
    BY DEF TypeInv, NoSilentRound, NoResult
  <2>1. ASSUME NEW w \in Workers, pc[w] # "log", seenResult[e].kind = "outreach",
               rounds' = rounds,
               \A v \in Workers \ {w} : pc'[v] = pc[v] /\ job'[v] = job[v]
        PROVE  \E v \in Workers :
                 rounds'[e][v] > 0 \/ (pc'[v] = "log" /\ job'[v].event = e)
    BY <2>0, <2>1
  <2>2. CASE UNCHANGED <<seenResult, rounds, pc, job>>
    BY <2>0, <2>2
  <2>3. CASE \E w \in Workers, x \in EventIds : Receive(w, x)
    <3> PICK w \in Workers, x \in EventIds : Receive(w, x)
      BY <2>3
    <3>1. /\ pc[w] = "idle" /\ UNCHANGED <<seenResult, rounds>>
          /\ \A v \in Workers \ {w} : pc'[v] = pc[v] /\ job'[v] = job[v]
      BY <2>0 DEF TypeOK, Receive, CheckDuplicate, CheckFresh, Deliver, Answer
    <3> QED
      BY <2>1, <3>1
  <2>4. CASE \E w \in Workers : TakeCutoff(w) \/ Snapshot(w) \/ SnapshotRaises(w)
    <3> PICK w \in Workers : TakeCutoff(w) \/ Snapshot(w) \/ SnapshotRaises(w)
      BY <2>4
    <3>1. /\ pc[w] # "log" /\ UNCHANGED <<seenResult, rounds>>
          /\ \A v \in Workers \ {w} : pc'[v] = pc[v] /\ job'[v] = job[v]
      BY <2>0 DEF TypeOK, TakeCutoff, Snapshot, SnapshotRaises
    <3> QED
      BY <2>1, <3>1
  <2>5. CASE \E w \in Workers : RememberQuiet(w)
    <3> PICK w \in Workers : RememberQuiet(w)
      BY <2>5
    <3> DEFINE x == job[w].event
               r == Outcome(x, {})
    <3>1. /\ x \in EventIds /\ Store(x, r) /\ r \in Result
          /\ r.kind # "outreach"
      BY <2>0, OutcomeType, QuietOutcome DEF JobFitsStep, RememberQuiet
    <3>2. seenResult'[e] \in {IF e = x THEN r ELSE seenResult[e], NoResult}
      BY <2>0, <3>1, StoreElsewhere
    <3>3. seenResult[e].kind = "outreach"
      BY <2>0, <3>1, <3>2
    <3>4. /\ pc[w] # "log" /\ rounds' = rounds
          /\ \A v \in Workers \ {w} : pc'[v] = pc[v] /\ job'[v] = job[v]
      BY <2>0 DEF TypeOK, RememberQuiet, Answer
    <3> QED
      BY <2>1, <3>3, <3>4
  <2>6. CASE \E w \in Workers : RememberOutreach(w)
    <3> PICK w \in Workers : RememberOutreach(w)
      BY <2>6
    <3> DEFINE x == job[w].event
               r == Outcome(x, job[w].outreach)
    <3>0. job[w].outreach \in SUBSET Customers
      BY <2>0 DEF TypeOK, Job
    <3>1. x \in EventIds /\ Store(x, r) /\ r \in Result
      BY <2>0, <3>0, OutcomeType DEF JobFitsStep, RememberOutreach
    <3>2. seenResult'[e] \in {IF e = x THEN r ELSE seenResult[e], NoResult}
      BY <2>0, <3>1, StoreElsewhere
    <3>3. /\ pc[w] # "log" /\ UNCHANGED <<rounds, job>>
          /\ pc'[w] = "log"
          /\ \A v \in Workers \ {w} : pc'[v] = pc[v]
      BY <2>0 DEF TypeOK, RememberOutreach
    <3>4. CASE e = x
      BY <3>3, <3>4
    <3>5. CASE e # x
      BY <2>0, <2>1, <3>2, <3>3, <3>5
    <3> QED
      BY <3>4, <3>5
  <2>7. CASE \E w \in Workers : Log(w)
    <3> PICK w \in Workers : Log(w)
      BY <2>7
    <3> DEFINE x == job[w].event
    <3>1. /\ x \in EventIds
          /\ seenResult' = seenResult
          /\ rounds' = [rounds EXCEPT ![x][w] = @ + 1]
          /\ \A v \in Workers \ {w} : pc'[v] = pc[v] /\ job'[v] = job[v]
      BY <2>0 DEF TypeOK, JobFitsStep, Log, Answer
    <3>2. rounds'[x][w] > 0 /\ \A v \in Workers : rounds[e][v] > 0 => rounds'[e][v] > 0
      BY <2>0, <3>1 DEF TypeOK
    <3> QED
      BY <2>0, <3>1, <3>2
  <2>8. CASE Restart
    BY <2>0, <2>8 DEF Restart
  <2>9. CASE Tick \/ Waiting \/ UNCHANGED vars
    BY <2>2, <2>9 DEF Tick, Waiting
  <2>10. ASSUME NEW c \in Customers, NEW s \in Services \cup {NoService},
                RecordContact(c, s)
         PROVE  UNCHANGED <<seenResult, rounds, pc, job>>
    BY <2>10 DEF RecordContact
  <2> QED
    BY <2>2, <2>3, <2>4, <2>5, <2>6, <2>7, <2>8, <2>9, <2>10 DEF Next, Proceed
<1> QED
  BY <1>1, <1>2, TypeInit, TypeStep, PTL DEF Spec
-----------------------------------------------------------------------------
(* The audience.                                                            *)

AudienceInv == TypeInv /\ AudienceInMaking /\ AudienceWroteToUs

\* The elements of a sequence after an append, bounded or not.
LEMMA AppendElements ==
    ASSUME NEW S, NEW s \in Seq(S), NEW x \in S
    PROVE  Elements(Append(s, x)) = Elements(s) \cup {x}
<1>1. /\ Len(s) \in Nat /\ DOMAIN s = 1..Len(s)
      /\ Append(s, x) \in Seq(S)
      /\ Len(Append(s, x)) = Len(s) + 1
      /\ \A i \in 1..Len(s) : Append(s, x)[i] = s[i]
      /\ Append(s, x)[Len(s) + 1] = x
  BY AppendProperties, LenProperties
<1>2. DOMAIN Append(s, x) = 1..(Len(s) + 1)
  BY <1>1, LenProperties
<1>3. ASSUME NEW y \in Elements(Append(s, x)) PROVE y \in Elements(s) \cup {x}
  <2>1. PICK i \in 1..(Len(s) + 1) : y = Append(s, x)[i]
    BY <1>2, <1>3 DEF Elements
  <2>2. CASE i = Len(s) + 1
    BY <1>1, <2>1, <2>2
  <2>3. CASE i \in 1..Len(s)
    BY <1>1, <2>1, <2>3 DEF Elements
  <2> QED
    BY <1>1, <2>2, <2>3
<1>4. ASSUME NEW y \in Elements(s) PROVE y \in Elements(Append(s, x))
  <2>1. PICK i \in 1..Len(s) : y = s[i]
    BY <1>1, <1>4 DEF Elements
  <2>2. i \in 1..(Len(s) + 1) /\ y = Append(s, x)[i]
    BY <1>1, <2>1
  <2> QED
    BY <1>2, <2>2 DEF Elements
<1>5. x \in Elements(Append(s, x))
  BY <1>1, <1>2 DEF Elements
<1> QED
  BY <1>3, <1>4, <1>5

\* A bounded append brings in the new element and no other.
LEMMA BoundedAppendElements ==
    ASSUME NEW S, NEW s \in Seq(S), NEW x \in S, NEW n \in Nat \ {0}
    PROVE  Elements(BoundedAppend(s, x, n)) \subseteq Elements(s) \cup {x}
<1>1. CASE Len(s) < n
  BY <1>1, AppendElements DEF BoundedAppend
<1>2. CASE ~(Len(s) < n)
  <2>1. Len(s) \in Nat /\ DOMAIN s = 1..Len(s) /\ s # << >>
    BY <1>2, LenProperties
  <2>2. /\ Tail(s) \in Seq(S)
        /\ Len(Tail(s)) = Len(s) - 1
        /\ \A i \in 1..Len(Tail(s)) : Tail(s)[i] = s[i + 1]
    BY <2>1, HeadTailProperties
  <2>3. DOMAIN Tail(s) = 1..(Len(s) - 1)
    BY <2>2, LenProperties
  <2>4. Elements(Tail(s)) \subseteq Elements(s)
    <3> SUFFICES ASSUME NEW i \in 1..(Len(s) - 1) PROVE Tail(s)[i] \in Elements(s)
      BY <2>3 DEF Elements
    <3>1. i + 1 \in DOMAIN s /\ Tail(s)[i] = s[i + 1]
      BY <2>1, <2>2
    <3> QED
      BY <3>1 DEF Elements
  <2>5. Elements(Append(Tail(s), x)) = Elements(Tail(s)) \cup {x}
    BY <2>2, AppendElements
  <2> QED
    BY <1>2, <2>4, <2>5 DEF BoundedAppend
<1> QED
  BY <1>1, <1>2

\* Once true it stays true while the history and the clock only grow.
LEMMA WroteBetweenGrows ==
    ASSUME TypeOK, NEW c, NEW s \in Services, NEW from \in Int,
           NEW until \in Nat, NEW later \in Nat, until <= later,
           WroteBetween(c, s, from, until),
           Elements(wrote[s]) \subseteq Elements(wrote'[s])
    PROVE  /\ c # Anonymous
           /\ \E d \in Elements(wrote'[s]) : d.customer = c /\ d.at >= from /\ d.at <= later
<1>1. PICK d \in Elements(wrote[s]) : d.customer = c /\ d.at >= from /\ d.at <= until
  BY DEF WroteBetween
<1>2. wrote[s] \in Seq(Contact)
  BY DEF TypeOK
<1>3. d \in Contact
  BY <1>1, <1>2, ElementOfSeq, LenProperties DEF Elements
<1>4. d.at \in Nat /\ d.at <= later
  BY <1>1, <1>3 DEF Contact
<1> QED
  BY <1>1, <1>4 DEF WroteBetween

\* Before the first contact there is no audience to be wrong about.
LEMMA AudienceInit == Init => AudienceInMaking /\ AudienceWroteToUs
BY DEF Init, AudienceInMaking, AudienceWroteToUs, Elements

\* The part of the invariant about the contacts.
LEMMA RegistryStep ==
    AudienceInv /\ [Next]_vars =>
        \A s \in Services : /\ Elements(contacts'[s]) \subseteq Elements(wrote'[s])
                           /\ \A d \in Elements(wrote'[s]) : d.customer # Anonymous /\ d.at <= now'
<1> SUFFICES ASSUME AudienceInv, [Next]_vars, NEW s \in Services
             PROVE  /\ Elements(contacts'[s]) \subseteq Elements(wrote'[s])
                    /\ \A d \in Elements(wrote'[s]) : d.customer # Anonymous /\ d.at <= now'
  OBVIOUS
<1>0. /\ TypeOK
      /\ Elements(contacts[s]) \subseteq Elements(wrote[s])
      /\ \A d \in Elements(wrote[s]) : d.customer # Anonymous /\ d.at <= now
      /\ contacts[s] \in Seq(Contact) /\ wrote[s] \in Seq(Contact) /\ now \in Nat
  BY DEF AudienceInv, TypeInv, AudienceInMaking, TypeOK
<1>1. Elements(wrote[s]) \subseteq Contact
  BY <1>0, ElementOfSeq, LenProperties DEF Elements
<1>2. ASSUME UNCHANGED <<contacts, wrote, now>>
      PROVE  /\ Elements(contacts'[s]) \subseteq Elements(wrote'[s])
             /\ \A d \in Elements(wrote'[s]) : d.customer # Anonymous /\ d.at <= now'
  BY <1>0, <1>2
<1>3. CASE Tick
  <2>1. contacts' = contacts /\ wrote' = wrote /\ now' = now + 1
    BY <1>3 DEF Tick
  <2>2. \A d \in Elements(wrote[s]) : d.at \in Nat
    BY <1>1 DEF Contact
  <2> QED
    BY <1>0, <2>1, <2>2
<1>4. ASSUME NEW c \in Customers, NEW x \in Services \cup {NoService}, RecordContact(c, x)
      PROVE  /\ Elements(contacts'[s]) \subseteq Elements(wrote'[s])
             /\ \A d \in Elements(wrote'[s]) : d.customer # Anonymous /\ d.at <= now'
  <2> DEFINE entry == [customer |-> c, at |-> now]
  <2>1. /\ entry \in Contact /\ entry.customer # Anonymous /\ entry.at = now /\ now' = now
    BY <1>0, <1>4 DEF RecordContact, Contact
  <2>2. CASE x = s
    <3>1. /\ contacts'[s] = BoundedAppend(contacts[s], entry, MaxContactsPerService)
          /\ wrote'[s] = Append(wrote[s], entry)
      BY <1>0, <1>4, <2>2 DEF RecordContact, TypeOK
    <3> HIDE DEF entry
    <3>2. /\ Elements(contacts'[s]) \subseteq Elements(contacts[s]) \cup {entry}
          /\ Elements(wrote'[s]) = Elements(wrote[s]) \cup {entry}
      BY <1>0, <2>1, <3>1, AppendElements, BoundedAppendElements, CapacityAssumption
    <3> QED
      BY <1>0, <2>1, <3>2
  <2>3. CASE x # s
    <3>1. contacts'[s] = contacts[s] /\ wrote'[s] = wrote[s]
      BY <1>0, <1>4, <2>3 DEF RecordContact, TypeOK
    <3> QED
      BY <1>0, <2>1, <3>1
  <2> QED
    BY <2>2, <2>3
<1>5. CASE Restart
  <2>1. contacts'[s] = << >> /\ wrote'[s] = << >>
    BY <1>5 DEF Restart
  <2> QED
    BY <2>1 DEF Elements
<1>6. ASSUME NEW w \in Workers, NEW e \in EventIds, Receive(w, e)
      PROVE  UNCHANGED <<contacts, wrote, now>>
  BY <1>6 DEF Receive, CheckDuplicate, CheckFresh
<1>7. ASSUME NEW w \in Workers, Proceed(w)
      PROVE  UNCHANGED <<contacts, wrote, now>>
  BY <1>7 DEF Proceed, TakeCutoff, Snapshot, SnapshotRaises, RememberQuiet,
              RememberOutreach, Log
<1>8. CASE Waiting \/ UNCHANGED vars
  BY <1>2, <1>8 DEF Waiting
<1> QED
  BY <1>2, <1>3, <1>4, <1>5, <1>6, <1>7, <1>8 DEF Next

\* The history of a service only grows, and the clock with it, except when the
\* process restarts.
LEMMA HistoryGrows ==
    AudienceInv /\ [Next]_vars /\ ~Restart =>
        /\ now' \in Nat /\ now <= now'
        /\ \A s \in Services : Elements(wrote[s]) \subseteq Elements(wrote'[s])
<1> SUFFICES ASSUME AudienceInv, [Next]_vars, ~Restart
             PROVE  /\ now' \in Nat /\ now <= now'
                    /\ \A s \in Services : Elements(wrote[s]) \subseteq Elements(wrote'[s])
  OBVIOUS
<1>0. TypeOK /\ now \in Nat
  BY DEF AudienceInv, TypeInv, TypeOK
<1>1. CASE Tick
  BY <1>0, <1>1 DEF Tick
<1>2. ASSUME NEW c \in Customers, NEW x \in Services \cup {NoService}, RecordContact(c, x)
      PROVE  /\ now' = now
             /\ \A s \in Services : Elements(wrote[s]) \subseteq Elements(wrote'[s])
  <2> DEFINE entry == [customer |-> c, at |-> now]
  <2>1. x \in Services /\ entry \in Contact /\ wrote[x] \in Seq(Contact) /\ now' = now
    BY <1>0, <1>2 DEF RecordContact, Contact, TypeOK
  <2>2. Elements(Append(wrote[x], entry)) = Elements(wrote[x]) \cup {entry}
    BY <2>1, AppendElements
  <2>3. \A s \in Services : wrote'[s] = IF s = x THEN Append(wrote[x], entry) ELSE wrote[s]
    BY <1>0, <1>2 DEF RecordContact, TypeOK
  <2> QED
    BY <2>1, <2>2, <2>3
<1>3. ASSUME NEW w \in Workers, NEW e \in EventIds, Receive(w, e)
      PROVE  UNCHANGED <<wrote, now>>
  BY <1>3 DEF Receive, CheckDuplicate, CheckFresh
<1>4. ASSUME NEW w \in Workers, Proceed(w)
      PROVE  UNCHANGED <<wrote, now>>
  BY <1>4 DEF Proceed, TakeCutoff, Snapshot, SnapshotRaises, RememberQuiet,
              RememberOutreach, Log
<1>5. CASE Waiting \/ UNCHANGED vars
  <2>1. now' = now /\ wrote' = wrote
    BY <1>5 DEF Waiting
  <2> QED
    BY <1>0, <2>1
<1> QED
  BY <1>0, <1>1, <1>2, <1>3, <1>4, <1>5 DEF Next

\* What AudienceInMaking says of one worker.
WorkerInMaking(w) ==
    /\ pc[w] # "idle" => job[w].received <= now
    /\ pc[w] = "snapshot" => job[w].cutoff >= job[w].received - ContactWindow
    /\ pc[w] \in {"remember", "log"} /\ WantsOutreach(job[w].event) =>
         \A c \in job[w].outreach :
             WroteBetween(c, EventService[job[w].event],
                          job[w].received - ContactWindow, now)

\* A worker that does not move keeps a sound cutoff and a sound audience.
LEMMA WorkerStays ==
    ASSUME AudienceInv, [Next]_vars, ~Restart, NEW w \in Workers,
           pc'[w] = pc[w], job'[w] = job[w]
    PROVE  WorkerInMaking(w)'
<1>0. /\ TypeOK /\ JobFitsStep /\ WorkerInMaking(w)
      /\ now \in Nat /\ now' \in Nat /\ now <= now'
      /\ \A s \in Services : Elements(wrote[s]) \subseteq Elements(wrote'[s])
  BY HistoryGrows DEF AudienceInv, TypeInv, TypeOK, AudienceInMaking, WorkerInMaking
<1>1. job[w].received \in Nat /\ job[w].received - ContactWindow \in Int
  BY <1>0, CapacityAssumption DEF TypeOK, Job
<1>2. ASSUME pc[w] \in {"remember", "log"}, WantsOutreach(job[w].event),
             NEW c \in job[w].outreach
      PROVE  WroteBetween(c, EventService[job[w].event],
                          job[w].received - ContactWindow, now)'
  <2>1. EventService[job[w].event] \in Services
    BY <1>0, <1>2 DEF JobFitsStep
  <2>2. WroteBetween(c, EventService[job[w].event], job[w].received - ContactWindow, now)
    BY <1>0, <1>2 DEF WorkerInMaking
  <2>3. /\ c # Anonymous
        /\ \E d \in Elements(wrote'[EventService[job[w].event]]) :
             /\ d.customer = c
             /\ d.at >= job[w].received - ContactWindow
             /\ d.at <= now'
    BY <1>0, <1>1, <2>1, <2>2, WroteBetweenGrows
  <2> QED
    BY <2>3 DEF WroteBetween, Elements
<1> QED
  BY <1>0, <1>1, <1>2 DEF WorkerInMaking, WantsOutreach

\* Each step of a worker makes its cutoff or its audience soundly.
LEMMA WorkerMoves ==
    ASSUME AudienceInv, [Next]_vars, NEW w \in Workers,
           (\E e \in EventIds : Receive(w, e)) \/ Proceed(w)
    PROVE  WorkerInMaking(w)'
<1> USE CapacityAssumption
<1>0. /\ TypeOK /\ JobFitsStep /\ WorkerInMaking(w) /\ now \in Nat
      /\ \A s \in Services : Elements(contacts[s]) \subseteq Elements(wrote[s])
      /\ \A s \in Services : \A d \in Elements(wrote[s]) : d.customer # Anonymous /\ d.at <= now
      /\ job[w] \in Job
  BY DEF AudienceInv, TypeInv, TypeOK, AudienceInMaking, WorkerInMaking
<1>1. ASSUME pc'[w] = "idle" PROVE WorkerInMaking(w)'
  BY <1>1 DEF WorkerInMaking
<1>2. ASSUME NEW e \in EventIds, CheckDuplicate(w, e)
      PROVE  WorkerInMaking(w)'
  BY <1>0, <1>1, <1>2 DEF TypeOK, CheckDuplicate, Answer
<1>3. ASSUME NEW e \in EventIds, CheckFresh(w, e)
      PROVE  WorkerInMaking(w)'
  <2>1. /\ now' = now /\ pc'[w] \in {"cutoff", "remember"}
        /\ job'[w].event = e /\ job'[w].received = now /\ job'[w].outreach = {}
    BY <1>0, <1>3 DEF TypeOK, CheckFresh, JobFor
  <2> QED
    BY <1>0, <2>1 DEF WorkerInMaking
<1>4. CASE TakeCutoff(w)
  <2>1. /\ now' = now /\ pc[w] = "cutoff" /\ pc'[w] = "snapshot"
        /\ job'[w] = [job[w] EXCEPT !.cutoff = now - ContactWindow]
    BY <1>0, <1>4 DEF TypeOK, TakeCutoff
  <2>2. job'[w].received = job[w].received /\ job'[w].cutoff = now - ContactWindow
    BY <1>0, <2>1 DEF Job
  <2>3. job[w].received \in Nat /\ job[w].received <= now
    BY <1>0, <2>1 DEF Job, WorkerInMaking
  <2> QED
    BY <1>0, <2>1, <2>2, <2>3 DEF WorkerInMaking
<1>5. CASE Snapshot(w)
  <2> DEFINE s    == EventService[job[w].event]
             told == Affected(s, job[w].cutoff)
  <2>1. /\ UNCHANGED <<now, wrote>> /\ pc[w] = "snapshot" /\ pc'[w] = "remember"
        /\ s # BadService
        /\ job'[w] = [job[w] EXCEPT !.outreach = told]
    BY <1>0, <1>5 DEF TypeOK, Snapshot
  <2>2. s \in Services
    BY <1>0, <2>1, EventAssumption DEF JobFitsStep, WantsOutreach
  <2> HIDE DEF told
  <2>3. /\ job'[w].received = job[w].received
        /\ job'[w].event = job[w].event
        /\ job'[w].outreach = told
    BY <1>0, <2>1 DEF Job
  <2>4. /\ job[w].received \in Nat /\ job[w].received <= now
        /\ job[w].cutoff \in Int
        /\ job[w].cutoff >= job[w].received - ContactWindow
    BY <1>0, <2>1 DEF Job, WorkerInMaking
  <2>5. ASSUME NEW c \in told
        PROVE  WroteBetween(c, s, job[w].received - ContactWindow, now)'
    <3>1. PICK d \in Elements(contacts[s]) : d.customer = c /\ d.at >= job[w].cutoff
      BY <2>5 DEF told, Affected
    <3>2. d \in Elements(wrote[s]) /\ d.customer # Anonymous /\ d.at <= now
      BY <1>0, <2>2, <3>1
    <3>a. wrote[s] \in Seq(Contact)
      BY <1>0, <2>2 DEF TypeOK
    <3>b. d \in Contact
      BY <3>2, <3>a, ElementOfSeq, LenProperties DEF Elements
    <3>3. d.at \in Nat
      BY <3>b DEF Contact
    <3>4. d.at >= job[w].received - ContactWindow
      BY <2>4, <3>1, <3>3
    <3>5. /\ c # Anonymous
          /\ \E x \in Elements(wrote[s]) :
               x.customer = c /\ x.at >= job[w].received - ContactWindow /\ x.at <= now
      BY <3>1, <3>2, <3>4
    <3> QED
      BY <2>1, <3>5 DEF WroteBetween, Elements
  <2>6. job'[w].received <= now'
    BY <2>1, <2>3, <2>4
  <2>7. \A c \in job'[w].outreach :
          WroteBetween(c, EventService[job[w].event], job[w].received - ContactWindow, now)'
    BY <2>3, <2>5
  <2> QED
    BY <2>1, <2>3, <2>6, <2>7 DEF WorkerInMaking
<1>6. CASE RememberOutreach(w)
  <2>1. /\ UNCHANGED <<now, wrote, job>> /\ pc[w] = "remember" /\ pc'[w] = "log"
        /\ WantsOutreach(job[w].event)
    BY <1>0, <1>6 DEF TypeOK, RememberOutreach
  <2> QED
    BY <1>0, <2>1 DEF WorkerInMaking, WroteBetween, WantsOutreach, Elements
<1>7. CASE SnapshotRaises(w) \/ RememberQuiet(w) \/ Log(w)
  BY <1>0, <1>1, <1>7 DEF TypeOK, SnapshotRaises, RememberQuiet, Log, Answer
<1> QED
  BY <1>2, <1>3, <1>4, <1>5, <1>6, <1>7 DEF Receive, Proceed

\* Other workers, and everything else that happens except a restart, leave a worker
\* alone.
LEMMA OthersStay ==
    ASSUME TypeOK, [Next]_vars, NEW w \in Workers
    PROVE  \/ Restart
           \/ (\E e \in EventIds : Receive(w, e)) \/ Proceed(w)
           \/ ~Restart /\ pc'[w] = pc[w] /\ job'[w] = job[w]
<1>1. ASSUME restarts' = restarts PROVE ~Restart
  BY <1>1 DEF Restart, TypeOK
<1>2. ASSUME NEW v \in Workers \ {w}, NEW e \in EventIds, Receive(v, e)
      PROVE  pc'[w] = pc[w] /\ job'[w] = job[w] /\ restarts' = restarts
  BY <1>2 DEF TypeOK, Receive, CheckDuplicate, CheckFresh, Answer
<1>3. ASSUME NEW v \in Workers \ {w}, Proceed(v)
      PROVE  pc'[w] = pc[w] /\ job'[w] = job[w] /\ restarts' = restarts
  BY <1>3 DEF TypeOK, Proceed, TakeCutoff, Snapshot, SnapshotRaises, RememberQuiet,
              RememberOutreach, Log, Answer
<1>4. CASE \/ Tick \/ Waiting \/ UNCHANGED vars
           \/ \E c \in Customers, s \in Services \cup {NoService} : RecordContact(c, s)
  <2>1. pc' = pc /\ job' = job /\ restarts' = restarts
    BY <1>4 DEF Tick, Waiting, RecordContact
  <2> QED
    BY <1>1, <2>1
<1> QED
  BY <1>1, <1>2, <1>3, <1>4 DEF Next

\* So every worker has a sound cutoff and a sound audience.
LEMMA WorkersStep ==
    AudienceInv /\ [Next]_vars => \A w \in Workers : WorkerInMaking(w)'
<1> SUFFICES ASSUME AudienceInv, [Next]_vars, NEW w \in Workers
             PROVE  WorkerInMaking(w)'
  OBVIOUS
<1>1. CASE Restart
  BY <1>1 DEF Restart, WorkerInMaking
<1>2. TypeOK
  BY DEF AudienceInv, TypeInv
<1> QED
  BY <1>1, <1>2, OthersStay, WorkerMoves, WorkerStays

\* The elements of the bounded log after a batch was added.
LEMMA BatchesStep == AudienceInv /\ [Next]_vars => AudienceWroteToUs'
<1> SUFFICES ASSUME AudienceInv, [Next]_vars, ~Restart PROVE AudienceWroteToUs'
  BY DEF Restart, AudienceWroteToUs, Elements
<1>0. /\ TypeOK /\ JobFitsStep /\ AudienceWroteToUs /\ now \in Nat
      /\ \A w \in Workers : WorkerInMaking(w)
      /\ \A s \in Services : Elements(wrote[s]) \subseteq Elements(wrote'[s])
      /\ outreachLog \in Seq(Batch)
  BY HistoryGrows
  DEF AudienceInv, TypeInv, TypeOK, AudienceInMaking, WorkerInMaking
<1>1. Elements(outreachLog) \subseteq Batch
  BY <1>0, ElementOfSeq, LenProperties DEF Elements
<1>2. ASSUME NEW b \in Batch,
             \A c \in b.outreach :
                 WroteBetween(c, b.service, b.received - ContactWindow, b.at),
             NEW c \in b.outreach
      PROVE  WroteBetween(c, b.service, b.received - ContactWindow, b.at)'
  <2>1. /\ b.service \in Services /\ b.at \in Nat /\ b.at <= b.at
        /\ b.received - ContactWindow \in Int
    BY CapacityAssumption DEF Batch
  <2>2. /\ c # Anonymous
        /\ \E d \in Elements(wrote'[b.service]) :
             d.customer = c /\ d.at >= b.received - ContactWindow /\ d.at <= b.at
    BY <1>0, <1>2, <2>1, WroteBetweenGrows
  <2> QED
    BY <2>2 DEF WroteBetween, Elements
<1>3. ASSUME NEW w \in Workers, Log(w)
      PROVE  AudienceWroteToUs'
  <2> DEFINE e == job[w].event
             batch == [service |-> EventService[e], received |-> job[w].received,
                       at |-> now, outreach |-> job[w].outreach]
  <2>1. /\ pc[w] = "log" /\ e \in EventIds /\ WantsOutreach(e)
        /\ EventService[e] \in Services /\ job[w] \in Job
        /\ outreachLog' = BoundedAppend(outreachLog, batch, MaxOutreachLog)
    BY <1>0, <1>3 DEF JobFitsStep, Log, TypeOK
  <2>2. batch \in Batch
    BY <1>0, <2>1 DEF Job, Batch
  <2>3. \A c \in batch.outreach :
           WroteBetween(c, batch.service, batch.received - ContactWindow, batch.at)
    BY <1>0, <2>1 DEF WorkerInMaking
  <2>4. Elements(outreachLog') \subseteq Elements(outreachLog) \cup {batch}
    BY <1>0, <2>1, <2>2, BoundedAppendElements, CapacityAssumption
  <2> HIDE DEF batch
  <2>5. ASSUME NEW b \in Elements(outreachLog'), NEW c \in b.outreach
        PROVE  WroteBetween(c, b.service, b.received - ContactWindow, b.at)'
    <3>1. /\ b \in Batch
          /\ \A x \in b.outreach :
               WroteBetween(x, b.service, b.received - ContactWindow, b.at)
      BY <1>0, <1>1, <2>2, <2>3, <2>4, <2>5 DEF AudienceWroteToUs
    <3> QED
      BY <1>2, <2>5, <3>1
  <2> QED
    BY <2>5 DEF AudienceWroteToUs, Elements
<1>4. CASE outreachLog' = outreachLog
  <2>1. ASSUME NEW b \in Elements(outreachLog), NEW c \in b.outreach
        PROVE  WroteBetween(c, b.service, b.received - ContactWindow, b.at)'
    BY <1>0, <1>1, <1>2, <2>1 DEF AudienceWroteToUs
  <2> QED
    BY <1>4, <2>1 DEF AudienceWroteToUs, Elements
<1>5. ASSUME NEW w \in Workers,
             \/ \E e \in EventIds : Receive(w, e)
             \/ TakeCutoff(w) \/ Snapshot(w) \/ SnapshotRaises(w)
             \/ RememberQuiet(w) \/ RememberOutreach(w)
      PROVE  outreachLog' = outreachLog
  BY <1>5 DEF Receive, CheckDuplicate, CheckFresh, TakeCutoff, Snapshot,
              SnapshotRaises, RememberQuiet, RememberOutreach
<1>6. CASE \/ Tick \/ Waiting \/ UNCHANGED vars
           \/ \E c \in Customers, s \in Services \cup {NoService} : RecordContact(c, s)
  BY <1>4, <1>6 DEF Tick, Waiting, RecordContact
<1> QED
  BY <1>3, <1>4, <1>5, <1>6 DEF Next, Proceed

\* Whoever is addressed wrote to us about that service, no longer ago than the
\* window before the event: in every reachable state, however the contacts, the
\* other workers and the clock move between the steps of the handler.
THEOREM AudienceIsReal == Spec => []AudienceWroteToUs
<1>1. Init => AudienceInv
  BY TypeInit, AudienceInit DEF AudienceInv
<1>2. AudienceInv /\ [Next]_vars => AudienceInMaking'
  BY RegistryStep, WorkersStep DEF AudienceInMaking, WorkerInMaking, Elements
<1>3. AudienceInv /\ [Next]_vars => AudienceInv'
  BY <1>2, TypeStep, BatchesStep DEF AudienceInv
<1>4. AudienceInv => AudienceWroteToUs
  BY DEF AudienceInv
<1> QED
  BY <1>1, <1>3, <1>4, PTL DEF Spec
-----------------------------------------------------------------------------
(* The audience is complete.                                                *)

CompleteInv == TypeInv /\ CompletenessInMaking /\ AudienceIsComplete

\* A bounded sequence that holds the last elements of a history still does when
\* both get the same new element.
LEMMA BoundedAppendHoldsLast ==
    ASSUME NEW S, NEW s \in Seq(S), NEW h \in Seq(S), NEW x \in S, NEW n \in Nat \ {0},
           HoldsLast(s, h, n)
    PROVE  HoldsLast(BoundedAppend(s, x, n), Append(h, x), n)
<1> DEFINE longer == Append(h, x)
           k == Len(s)
           l == Len(h)
           gone == l - k
<1>1. /\ k \in Nat /\ DOMAIN s = 1..k
      /\ l \in Nat
  BY LenProperties
<1>2. /\ Len(longer) = l + 1
      /\ \A i \in 1..l : longer[i] = h[i]
      /\ longer[l + 1] = x
  BY AppendProperties
<1>3. /\ gone >= 0 /\ k <= n
      /\ gone = 0 \/ k = n
  BY DEF HoldsLast
<1>4. \A i \in 1..k : s[i] = h[gone + i]
  BY <1>1 DEF HoldsLast
<1>5. CASE k < n
  <2> DEFINE t == Append(s, x)
  <2>1. /\ Len(t) = k + 1
        /\ \A i \in 1..k : t[i] = s[i]
        /\ t[k + 1] = x
    BY AppendProperties
  <2>2. DOMAIN t = 1..(k + 1)
    <3>1. t \in Seq(S)
      BY AppendProperties
    <3> QED
      BY <2>1, <3>1, LenProperties
  <2>3. BoundedAppend(s, x, n) = t
    BY <1>5 DEF BoundedAppend
  <2> HIDE DEF t, longer, k, l
  <2>4. l = k /\ gone = 0
    BY <1>1, <1>3, <1>5
  <2>5. \A i \in 1..(k + 1) : t[i] = longer[i]
    <3> SUFFICES ASSUME NEW i \in 1..(k + 1) PROVE t[i] = longer[i]
      OBVIOUS
    <3>1. CASE i \in 1..k
      <4>1. s[i] = h[i]
        <5>1. gone + i = i
          BY <2>4, <3>1
        <5> QED
          BY <1>4, <3>1, <5>1
      <4> QED
        BY <1>2, <2>1, <2>4, <3>1, <4>1
    <3>2. CASE i = k + 1
      BY <1>2, <2>1, <2>4, <3>2
    <3> QED
      BY <1>1, <3>1, <3>2
  <2>6. /\ Len(longer) - Len(t) = 0 /\ Len(t) <= n
        /\ \A i \in 1..(k + 1) : (Len(longer) - Len(t)) + i = i
    BY <1>1, <1>2, <1>5, <2>1, <2>4
  <2>7. HoldsLast(t, longer, n)
    <3>1. \A i \in DOMAIN t : t[i] = longer[(Len(longer) - Len(t)) + i]
      BY <2>2, <2>5, <2>6
    <3>2. 0 >= 0
      OBVIOUS
    <3> QED
      BY <2>6, <3>1, <3>2 DEF HoldsLast
  <2> QED
    BY <2>3, <2>7 DEF longer
<1>6. CASE ~(k < n)
  <2> DEFINE t == Append(Tail(s), x)
  <2>1. k = n /\ k \in Nat \ {0} /\ s # << >>
    <3>1. s # << >>
      <4>1. k >= n /\ n > 0
        BY <1>1, <1>6
      <4> QED
        BY <4>1, EmptySeq
    <3> HIDE DEF k, l
    <3> QED
      BY <1>1, <1>3, <1>6, <3>1
  <2>2. /\ Tail(s) \in Seq(S) /\ Len(Tail(s)) = k - 1
        /\ \A i \in 1..Len(Tail(s)) : Tail(s)[i] = s[i + 1]
    BY <2>1, HeadTailProperties
  <2>3. /\ Len(t) = Len(Tail(s)) + 1
        /\ \A i \in 1..Len(Tail(s)) : t[i] = Tail(s)[i]
        /\ t[Len(Tail(s)) + 1] = x
    BY <2>2, AppendProperties
  <2>4. DOMAIN t = 1..Len(t)
    <3>1. t \in Seq(S)
      BY <2>2, AppendProperties
    <3> QED
      BY <3>1, LenProperties
  <2>5. BoundedAppend(s, x, n) = t
    BY <1>6 DEF BoundedAppend
  <2> HIDE DEF t, longer, k, l
  <2>6. (k - 1) + 1 = k
    BY <2>1
  <2>7. /\ Len(t) = k
        /\ \A i \in 1..(k - 1) : t[i] = s[i + 1]
        /\ t[k] = x
    BY <2>2, <2>3, <2>6
  <2>8. gone \in Nat /\ l = gone + k /\ (l + 1) - k = gone + 1
    BY <1>1, <1>3
  <2> HIDE DEF gone
  <2>9. \A i \in 1..k : t[i] = longer[(gone + 1) + i]
    <3> SUFFICES ASSUME NEW i \in 1..k PROVE t[i] = longer[(gone + 1) + i]
      OBVIOUS
    <3>1. CASE i = k
      <4>1. (gone + 1) + i = l + 1
        BY <1>1, <2>8, <3>1
      <4> QED
        BY <1>2, <2>7, <3>1, <4>1
    <3>2. CASE i # k
      <4>1. i \in 1..(k - 1) /\ i + 1 \in 1..k
        BY <1>1, <3>2
      <4>2. (gone + 1) + i = gone + (i + 1) /\ gone + (i + 1) \in 1..l
        BY <1>1, <2>8, <4>1
      <4>3. t[i] = h[gone + (i + 1)]
        BY <1>4, <2>7, <4>1
      <4> QED
        BY <1>2, <4>2, <4>3
    <3> QED
      BY <3>1, <3>2
  <2>10. Len(longer) - Len(t) = gone + 1 /\ gone + 1 >= 0 /\ Len(t) <= n /\ Len(t) = n
    BY <1>2, <2>1, <2>7, <2>8
  <2>11. HoldsLast(t, longer, n)
    BY <2>4, <2>7, <2>9, <2>10 DEF HoldsLast
  <2> QED
    BY <2>5, <2>11 DEF longer
<1> QED
  BY <1>5, <1>6

\* What holds the last n elements of a history has every one of them.
LEMMA LastIsHeld ==
    ASSUME NEW S, NEW s \in Seq(S), NEW h \in Seq(S), NEW n \in Nat, HoldsLast(s, h, n),
           NEW i \in DOMAIN h, i > Len(h) - n
    PROVE  h[i] \in Elements(s)
<1> DEFINE k == Len(s)
           l == Len(h)
           gone == l - k
<1>1. /\ k \in Nat /\ DOMAIN s = 1..k
      /\ l \in Nat /\ i \in 1..l /\ i > l - n
  BY LenProperties
<1>2. gone >= 0 /\ (gone = 0 \/ k = n)
  BY DEF HoldsLast
<1>3. \A j \in 1..k : s[j] = h[gone + j]
  BY <1>1 DEF HoldsLast
<1> HIDE DEF k, l
<1>4. i - gone \in 1..k /\ gone + (i - gone) = i
  BY <1>1, <1>2
<1> HIDE DEF gone
<1>5. s[i - gone] = h[i]
  BY <1>3, <1>4
<1> QED
  BY <1>1, <1>4, <1>5 DEF Elements

\* The history of a service is what it was, or has one contact more, of this instant;
\* the clock goes on.  Only a restart is different.
LEMMA OneContactAtATime ==
    ASSUME TypeOK, [Next]_vars, ~Restart
    PROVE  /\ now \in Nat /\ now' \in Nat /\ now <= now'
           /\ \A s \in Services :
                 \/ wrote'[s] = wrote[s] /\ contacts'[s] = contacts[s]
                 \/ \E x \in Contact :
                       /\ x.at = now
                       /\ wrote'[s] = Append(wrote[s], x)
                       /\ contacts'[s] = BoundedAppend(contacts[s], x, MaxContactsPerService)
<1>0. now \in Nat
  BY DEF TypeOK
<1>1. CASE Tick
  BY <1>0, <1>1 DEF Tick
<1>2. ASSUME NEW c \in Customers, NEW y \in Services \cup {NoService}, RecordContact(c, y),
             NEW s \in Services
      PROVE  /\ now' = now
             /\ \/ wrote'[s] = wrote[s] /\ contacts'[s] = contacts[s]
                \/ \E x \in Contact :
                      /\ x.at = now
                      /\ wrote'[s] = Append(wrote[s], x)
                      /\ contacts'[s] = BoundedAppend(contacts[s], x, MaxContactsPerService)
  <2> DEFINE entry == [customer |-> c, at |-> now]
  <2>1. entry \in Contact /\ entry.at = now /\ now' = now
    BY <1>0, <1>2 DEF RecordContact, Contact
  <2>2. /\ wrote' = [wrote EXCEPT ![y] = Append(@, entry)]
        /\ contacts' = [contacts EXCEPT ![y] = BoundedAppend(@, entry, MaxContactsPerService)]
    BY <1>2 DEF RecordContact
  <2> HIDE DEF entry
  <2>3. CASE s = y
    <3>1. /\ wrote'[s] = Append(wrote[s], entry)
          /\ contacts'[s] = BoundedAppend(contacts[s], entry, MaxContactsPerService)
      BY <2>2, <2>3 DEF TypeOK
    <3> QED
      BY <2>1, <3>1
  <2>4. CASE s # y
    <3>1. wrote'[s] = wrote[s] /\ contacts'[s] = contacts[s]
      BY <2>2, <2>4 DEF TypeOK
    <3> QED
      BY <2>1, <3>1
  <2> QED
    BY <2>3, <2>4
<1>3. ASSUME NEW w \in Workers, NEW e \in EventIds, Receive(w, e)
      PROVE  UNCHANGED <<contacts, wrote, now>>
  BY <1>3 DEF Receive, CheckDuplicate, CheckFresh
<1>4. ASSUME NEW w \in Workers, Proceed(w)
      PROVE  UNCHANGED <<contacts, wrote, now>>
  BY <1>4 DEF Proceed, TakeCutoff, Snapshot, SnapshotRaises, RememberQuiet,
              RememberOutreach, Log
<1>5. ASSUME UNCHANGED <<contacts, wrote, now>>
      PROVE  /\ now <= now' /\ now' \in Nat
             /\ \A s \in Services : wrote'[s] = wrote[s] /\ contacts'[s] = contacts[s]
  BY <1>0, <1>5
<1>6. CASE Waiting \/ UNCHANGED vars
  BY <1>0, <1>5, <1>6 DEF Waiting
<1>7. CASE \E c \in Customers, y \in Services \cup {NoService} : RecordContact(c, y)
  <2>1. now' = now
    BY <1>7 DEF RecordContact
  <2> QED
    BY <1>0, <1>2, <1>7, <2>1
<1> QED
  BY <1>0, <1>1, <1>3, <1>4, <1>5, <1>6, <1>7 DEF Next

\* A complete audience stays complete: a contact that comes later is not older than
\* the event, and pushes the others out, never in.
LEMMA CoversStays ==
    ASSUME TypeOK, [Next]_vars, ~Restart, NEW audience, NEW s \in Services,
           NEW received \in Nat, received <= now,
           NEW sent \in Nat, NEW later \in Nat, sent <= later,
           Covers(audience, s, received, sent)
    PROVE  \A i \in DOMAIN wrote'[s] :
               /\ Entitled(wrote'[s][i], received, later)
               /\ i > Len(wrote'[s]) - MaxContactsPerService
               => wrote'[s][i].customer \in audience
<1> SUFFICES ASSUME NEW i \in DOMAIN wrote'[s], Entitled(wrote'[s][i], received, later),
                    i > Len(wrote'[s]) - MaxContactsPerService
             PROVE  wrote'[s][i].customer \in audience
  OBVIOUS
<1> USE CapacityAssumption
<1>1. wrote[s] \in Seq(Contact) /\ now \in Nat
  BY DEF TypeOK
<1>2. Len(wrote[s]) \in Nat /\ DOMAIN wrote[s] = 1..Len(wrote[s])
  BY <1>1, LenProperties
<1>3. ASSUME i \in DOMAIN wrote[s], wrote'[s][i] = wrote[s][i],
             Len(wrote'[s]) \in Nat, Len(wrote[s]) <= Len(wrote'[s])
      PROVE  wrote'[s][i].customer \in audience
  <2> DEFINE d == wrote[s][i]
  <2>1. d \in Contact
    BY <1>1, <1>3, ElementOfSeq, LenProperties
  <2>2. d.at \in Nat
    BY <2>1 DEF Contact
  <2>3. d.at < received /\ d.at >= later - ContactWindow
    BY <1>3 DEF Entitled
  <2> HIDE DEF d
  <2>4. d.at < received /\ d.at >= sent - ContactWindow
    BY <2>2, <2>3
  <2>5. i \in Nat /\ i > Len(wrote[s]) - MaxContactsPerService
    BY <1>2, <1>3
  <2> QED
    BY <1>3, <2>4, <2>5 DEF Covers, Entitled, d
<1>4. CASE wrote'[s] = wrote[s]
  BY <1>2, <1>3, <1>4
<1>5. ASSUME NEW x \in Contact, x.at = now, wrote'[s] = Append(wrote[s], x)
      PROVE  wrote'[s][i].customer \in audience
  <2>1. /\ Len(wrote'[s]) = Len(wrote[s]) + 1
        /\ DOMAIN wrote'[s] = 1..(Len(wrote[s]) + 1)
        /\ \A j \in 1..Len(wrote[s]) : wrote'[s][j] = wrote[s][j]
        /\ wrote'[s][Len(wrote[s]) + 1] = x
    <3>1. Append(wrote[s], x) \in Seq(Contact)
      BY <1>1, AppendProperties
    <3> QED
      BY <1>1, <1>5, <3>1, AppendProperties, LenProperties
  <2>2. CASE i = Len(wrote[s]) + 1
    <3>1. now < received
      BY <1>5, <2>1, <2>2 DEF Entitled
    <3> QED
      BY <1>1, <3>1
  <2>3. CASE i # Len(wrote[s]) + 1
    <3>1. i \in 1..Len(wrote[s]) /\ Len(wrote'[s]) \in Nat /\ Len(wrote[s]) <= Len(wrote'[s])
      BY <1>2, <2>1, <2>3
    <3> QED
      BY <1>2, <1>3, <2>1, <3>1
  <2> QED
    BY <2>2, <2>3
<1> QED
  BY <1>4, <1>5, OneContactAtATime

\* The registry keeps holding the last contacts of each service.
LEMMA RegistryHolds ==
    CompleteInv /\ [Next]_vars =>
        \A s \in Services : HoldsLast(contacts'[s], wrote'[s], MaxContactsPerService)
<1> SUFFICES ASSUME CompleteInv, [Next]_vars, NEW s \in Services
             PROVE  HoldsLast(contacts'[s], wrote'[s], MaxContactsPerService)
  OBVIOUS
<1>0. /\ TypeOK /\ HoldsLast(contacts[s], wrote[s], MaxContactsPerService)
      /\ contacts[s] \in Seq(Contact) /\ wrote[s] \in Seq(Contact)
      /\ MaxContactsPerService \in Nat \ {0}
  BY CapacityAssumption DEF CompleteInv, TypeInv, CompletenessInMaking, TypeOK
<1>1. CASE Restart
  <2>1. contacts'[s] = << >> /\ wrote'[s] = << >>
    BY <1>1 DEF Restart
  <2>2. HoldsLast(<< >>, << >>, MaxContactsPerService)
    <3>1. DOMAIN << >> = {} /\ Len(<< >>) = 0
      BY EmptySeq
    <3> QED
      BY <1>0, <3>1 DEF HoldsLast
  <2> QED
    BY <2>1, <2>2
<1>2. CASE ~Restart
  <2>1. CASE wrote'[s] = wrote[s] /\ contacts'[s] = contacts[s]
    BY <1>0, <2>1
  <2>2. ASSUME NEW x \in Contact,
               wrote'[s] = Append(wrote[s], x),
               contacts'[s] = BoundedAppend(contacts[s], x, MaxContactsPerService)
        PROVE  HoldsLast(contacts'[s], wrote'[s], MaxContactsPerService)
    BY <1>0, <2>2, BoundedAppendHoldsLast
  <2> QED
    BY <1>0, <1>2, <2>1, <2>2, OneContactAtATime
<1> QED
  BY <1>1, <1>2

\* What CompletenessInMaking says of one worker.
CompleteSoFar(w) ==
    /\ pc[w] # "idle" => job[w].received <= now
    /\ pc[w] = "snapshot" => job[w].cutoff <= now - ContactWindow
    /\ pc[w] \in {"remember", "log"} /\ WantsOutreach(job[w].event) =>
         Covers(job[w].outreach, EventService[job[w].event], job[w].received, now)

\* A worker that does not move keeps its audience complete.
LEMMA CompleteStays ==
    ASSUME CompleteInv, [Next]_vars, ~Restart, NEW w \in Workers,
           pc'[w] = pc[w], job'[w] = job[w]
    PROVE  CompleteSoFar(w)'
<1>0. /\ TypeOK /\ JobFitsStep /\ CompleteSoFar(w)
      /\ now \in Nat /\ now' \in Nat /\ now <= now'
  BY OneContactAtATime DEF CompleteInv, TypeInv, CompletenessInMaking, CompleteSoFar
<1>1. /\ job[w].received \in Nat /\ job[w].cutoff \in Int /\ ContactWindow \in Nat
  BY <1>0, CapacityAssumption DEF TypeOK, Job
<1>2. ASSUME pc[w] \in {"remember", "log"}, WantsOutreach(job[w].event)
      PROVE  Covers(job[w].outreach, EventService[job[w].event], job[w].received, now)'
  <2>1. /\ EventService[job[w].event] \in Services
        /\ Covers(job[w].outreach, EventService[job[w].event], job[w].received, now)
        /\ job[w].received <= now
    BY <1>0, <1>2 DEF JobFitsStep, CompleteSoFar
  <2>2. \A i \in DOMAIN wrote'[EventService[job[w].event]] :
           /\ Entitled(wrote'[EventService[job[w].event]][i], job[w].received, now')
           /\ i > Len(wrote'[EventService[job[w].event]]) - MaxContactsPerService
           => wrote'[EventService[job[w].event]][i].customer \in job[w].outreach
    BY <1>0, <1>1, <2>1, CoversStays
  <2> QED
    BY <2>2 DEF Covers, Entitled
<1>3. pc[w] # "idle" => job[w].received <= now'
  BY <1>0, <1>1 DEF CompleteSoFar
<1>4. pc[w] = "snapshot" => job[w].cutoff <= now' - ContactWindow
  BY <1>0, <1>1 DEF CompleteSoFar
<1> QED
  BY <1>2, <1>3, <1>4 DEF CompleteSoFar, WantsOutreach

\* Each step of a worker makes its cutoff or its audience complete.
LEMMA CompleteMoves ==
    ASSUME CompleteInv, [Next]_vars, NEW w \in Workers,
           (\E e \in EventIds : Receive(w, e)) \/ Proceed(w)
    PROVE  CompleteSoFar(w)'
<1> USE CapacityAssumption
<1>0. /\ TypeOK /\ JobFitsStep /\ CompleteSoFar(w) /\ now \in Nat
      /\ \A s \in Services : HoldsLast(contacts[s], wrote[s], MaxContactsPerService)
      /\ job[w] \in Job
  BY DEF CompleteInv, TypeInv, TypeOK, CompletenessInMaking, CompleteSoFar
<1>1. ASSUME pc'[w] = "idle" PROVE CompleteSoFar(w)'
  BY <1>1 DEF CompleteSoFar
<1>2. ASSUME NEW e \in EventIds, CheckDuplicate(w, e)
      PROVE  CompleteSoFar(w)'
  BY <1>0, <1>1, <1>2 DEF TypeOK, CheckDuplicate, Answer
<1>3. ASSUME NEW e \in EventIds, CheckFresh(w, e)
      PROVE  CompleteSoFar(w)'
  <2>1. /\ now' = now
        /\ job'[w].event = e /\ job'[w].received = now
        /\ pc'[w] = IF WantsOutreach(e) THEN "cutoff" ELSE "remember"
    BY <1>0, <1>3 DEF TypeOK, CheckFresh, JobFor
  <2> QED
    BY <1>0, <2>1 DEF CompleteSoFar, WantsOutreach
<1>4. CASE TakeCutoff(w)
  <2>1. /\ now' = now /\ pc[w] = "cutoff" /\ pc'[w] = "snapshot"
        /\ job'[w] = [job[w] EXCEPT !.cutoff = now - ContactWindow]
    BY <1>0, <1>4 DEF TypeOK, TakeCutoff
  <2>2. job'[w].received = job[w].received /\ job'[w].cutoff = now - ContactWindow
    BY <1>0, <2>1 DEF Job
  <2>3. job[w].received \in Nat /\ job[w].received <= now
    BY <1>0, <2>1 DEF Job, CompleteSoFar
  <2>4. job'[w].cutoff <= now' - ContactWindow
    BY <1>0, <2>1, <2>2
  <2> QED
    BY <1>0, <2>1, <2>2, <2>3, <2>4 DEF CompleteSoFar
<1>5. CASE Snapshot(w)
  <2> DEFINE s    == EventService[job[w].event]
             told == Affected(s, job[w].cutoff)
  <2>1. /\ UNCHANGED <<now, wrote>> /\ pc[w] = "snapshot" /\ pc'[w] = "remember"
        /\ s # BadService
        /\ job'[w] = [job[w] EXCEPT !.outreach = told]
    BY <1>0, <1>5 DEF TypeOK, Snapshot
  <2>2. s \in Services
    BY <1>0, <2>1, EventAssumption DEF JobFitsStep, WantsOutreach
  <2> HIDE DEF told
  <2>3. /\ job'[w].received = job[w].received
        /\ job'[w].event = job[w].event
        /\ job'[w].outreach = told
    BY <1>0, <2>1 DEF Job
  <2>4. /\ job[w].received \in Nat /\ job[w].received <= now
        /\ job[w].cutoff \in Int
        /\ job[w].cutoff <= now - ContactWindow
    BY <1>0, <2>1 DEF Job, CompleteSoFar
  <2>5. /\ wrote[s] \in Seq(Contact) /\ contacts[s] \in Seq(Contact)
        /\ HoldsLast(contacts[s], wrote[s], MaxContactsPerService)
    BY <1>0, <2>2 DEF TypeOK
  <2>6. ASSUME NEW i \in DOMAIN wrote[s],
               Entitled(wrote[s][i], job[w].received, now),
               i > Len(wrote[s]) - MaxContactsPerService
        PROVE  wrote[s][i].customer \in told
    <3>1. wrote[s][i] \in Elements(contacts[s])
      BY <2>5, <2>6, LastIsHeld
    <3>2. wrote[s][i] \in Contact
      BY <2>5, <2>6, ElementOfSeq, LenProperties
    <3>3. wrote[s][i].at \in Nat
      BY <3>2 DEF Contact
    <3>4. wrote[s][i].at >= now - ContactWindow
      BY <2>6 DEF Entitled
    <3>5. wrote[s][i].at >= job[w].cutoff
      BY <1>0, <2>4, <3>3, <3>4
    <3> QED
      BY <3>1, <3>5 DEF told, Affected
  <2>7. Covers(told, s, job[w].received, now)
    BY <2>6 DEF Covers
  <2>8. Covers(job[w].outreach, EventService[job[w].event], job[w].received, now)'
    BY <2>1, <2>3, <2>7 DEF Covers, Entitled
  <2>9. job'[w].received <= now'
    BY <2>1, <2>3, <2>4
  <2> QED
    BY <2>1, <2>8, <2>9 DEF CompleteSoFar
<1>6. CASE RememberOutreach(w)
  <2>1. /\ UNCHANGED <<now, wrote, job>> /\ pc[w] = "remember" /\ pc'[w] = "log"
        /\ WantsOutreach(job[w].event)
    BY <1>0, <1>6 DEF TypeOK, RememberOutreach
  <2> QED
    BY <1>0, <2>1 DEF CompleteSoFar, Covers, Entitled, WantsOutreach
<1>7. CASE SnapshotRaises(w) \/ RememberQuiet(w) \/ Log(w)
  BY <1>0, <1>1, <1>7 DEF TypeOK, SnapshotRaises, RememberQuiet, Log, Answer
<1> QED
  BY <1>2, <1>3, <1>4, <1>5, <1>6, <1>7 DEF Receive, Proceed

\* So every worker keeps what it has complete.
LEMMA CompleteWorkers ==
    CompleteInv /\ [Next]_vars => \A w \in Workers : CompleteSoFar(w)'
<1> SUFFICES ASSUME CompleteInv, [Next]_vars, NEW w \in Workers
             PROVE  CompleteSoFar(w)'
  OBVIOUS
<1>1. CASE Restart
  BY <1>1 DEF Restart, CompleteSoFar
<1>2. TypeOK
  BY DEF CompleteInv, TypeInv
<1> QED
  BY <1>1, <1>2, OthersStay, CompleteMoves, CompleteStays

\* A round that went out stays complete, and the one that goes out now is.
LEMMA CompleteBatches ==
    CompleteInv /\ [Next]_vars =>
        AudienceIsComplete' /\ \A b \in Elements(outreachLog') : b.received <= now'
<1> SUFFICES ASSUME CompleteInv, [Next]_vars
             PROVE  /\ \A b \in Elements(outreachLog') :
                          Covers(b.outreach, b.service, b.received, b.at)'
                    /\ \A b \in Elements(outreachLog') : b.received <= now'
  BY DEF AudienceIsComplete, Elements
<1>0. /\ TypeOK /\ JobFitsStep /\ outreachLog \in Seq(Batch) /\ now \in Nat
      /\ \A w \in Workers : CompleteSoFar(w)
      /\ \A b \in Elements(outreachLog) :
            Covers(b.outreach, b.service, b.received, b.at) /\ b.received <= now
  BY DEF CompleteInv, TypeInv, TypeOK, CompletenessInMaking, CompleteSoFar,
         AudienceIsComplete
<1>1. Elements(outreachLog) \subseteq Batch
  BY <1>0, ElementOfSeq, LenProperties DEF Elements
<1>2. CASE Restart
  <2>1. Elements(outreachLog') = {}
    BY <1>2, EmptySeq DEF Restart, Elements
  <2> QED
    BY <2>1
<1>3. ASSUME ~Restart, NEW b \in Batch, b.received <= now,
             Covers(b.outreach, b.service, b.received, b.at)
      PROVE  Covers(b.outreach, b.service, b.received, b.at)' /\ b.received <= now'
  <2>1. b.service \in Services /\ b.received \in Nat /\ b.at \in Nat /\ b.at <= b.at
    BY DEF Batch
  <2>2. now' \in Nat /\ now <= now'
    BY <1>0, <1>3, OneContactAtATime
  <2>3. \A i \in DOMAIN wrote'[b.service] :
           /\ Entitled(wrote'[b.service][i], b.received, b.at)
           /\ i > Len(wrote'[b.service]) - MaxContactsPerService
           => wrote'[b.service][i].customer \in b.outreach
    BY <1>0, <1>3, <2>1, CoversStays
  <2>4. Covers(b.outreach, b.service, b.received, b.at)'
    BY <2>3 DEF Covers, Entitled
  <2> QED
    BY <1>0, <1>3, <2>1, <2>2, <2>4
<1>4. ASSUME NEW w \in Workers, Log(w), ~Restart, NEW b \in Elements(outreachLog')
      PROVE  Covers(b.outreach, b.service, b.received, b.at)' /\ b.received <= now'
  <2> DEFINE e == job[w].event
             batch == [service |-> EventService[e], received |-> job[w].received,
                       at |-> now, outreach |-> job[w].outreach]
  <2>1. /\ pc[w] = "log" /\ e \in EventIds /\ WantsOutreach(e)
        /\ EventService[e] \in Services /\ job[w] \in Job
        /\ outreachLog' = BoundedAppend(outreachLog, batch, MaxOutreachLog)
    BY <1>0, <1>4 DEF JobFitsStep, Log, TypeOK
  <2>2. batch \in Batch
    BY <1>0, <2>1 DEF Job, Batch
  <2>3. /\ Covers(batch.outreach, batch.service, batch.received, batch.at)
        /\ batch.received <= now
    BY <1>0, <2>1 DEF CompleteSoFar
  <2>4. Elements(outreachLog') \subseteq Elements(outreachLog) \cup {batch}
    BY <1>0, <2>1, <2>2, BoundedAppendElements, CapacityAssumption
  <2> HIDE DEF batch
  <2>5. /\ b \in Batch /\ b.received <= now
        /\ Covers(b.outreach, b.service, b.received, b.at)
    BY <1>0, <1>1, <1>4, <2>2, <2>3, <2>4
  <2> QED
    BY <1>3, <1>4, <2>5
<1>5. ASSUME outreachLog' = outreachLog, ~Restart, NEW b \in Elements(outreachLog')
      PROVE  Covers(b.outreach, b.service, b.received, b.at)' /\ b.received <= now'
  BY <1>0, <1>1, <1>3, <1>5
<1>6. ASSUME NEW w \in Workers,
             \/ \E e \in EventIds : Receive(w, e)
             \/ TakeCutoff(w) \/ Snapshot(w) \/ SnapshotRaises(w)
             \/ RememberQuiet(w) \/ RememberOutreach(w)
      PROVE  outreachLog' = outreachLog
  BY <1>6 DEF Receive, CheckDuplicate, CheckFresh, TakeCutoff, Snapshot,
              SnapshotRaises, RememberQuiet, RememberOutreach
<1>7. CASE \/ Tick \/ Waiting \/ UNCHANGED vars
           \/ \E c \in Customers, s \in Services \cup {NoService} : RecordContact(c, s)
  <2>1. outreachLog' = outreachLog
    BY <1>7 DEF Tick, Waiting, RecordContact
  <2> QED
    BY <1>2, <1>5, <2>1
<1>8. ~Restart => \/ outreachLog' = outreachLog
                  \/ \E w \in Workers : Log(w)
  BY <1>6, <1>7 DEF Next, Proceed, Tick, Waiting, RecordContact
<1> QED
  BY <1>2, <1>4, <1>5, <1>8

\* Whoever the registry can still know, and is entitled to a round, is in it: in
\* every reachable state, whichever customers write, and whichever contacts they push
\* out, while a thread is between its cutoff, its snapshot and its log
\* (proactive.py:36-61, 90-136).
THEOREM AudienceComplete == Spec => []AudienceIsComplete
<1>1. Init => CompleteInv
  <2>1. Init => CompletenessInMaking /\ AudienceIsComplete
    <3>1. DOMAIN << >> = {} /\ Len(<< >>) = 0
      BY EmptySeq
    <3>2. Elements(<< >>) = {}
      BY <3>1 DEF Elements
    <3>3. HoldsLast(<< >>, << >>, MaxContactsPerService)
      BY <3>1, CapacityAssumption DEF HoldsLast
    <3> QED
      BY <3>2, <3>3 DEF Init, CompletenessInMaking, AudienceIsComplete
  <2> QED
    BY <2>1, TypeInit DEF CompleteInv
<1>2. CompleteInv /\ [Next]_vars => CompletenessInMaking'
  BY RegistryHolds, CompleteWorkers, CompleteBatches
  DEF CompletenessInMaking, CompleteSoFar, Elements, HoldsLast
<1>3. CompleteInv /\ [Next]_vars => CompleteInv'
  BY <1>2, TypeStep, CompleteBatches DEF CompleteInv
<1>4. CompleteInv => AudienceIsComplete
  BY DEF CompleteInv
<1> QED
  BY <1>1, <1>3, <1>4, PTL DEF Spec
-----------------------------------------------------------------------------
(* Repeated messages.                                                       *)

\* What the memory gains is the event it stores; what it gives up is counted.
LEMMA StoreCounts ==
    ASSUME TypeOK, SeenConsistent, TypeOK',
           NEW e \in EventIds, NEW r \in Result, r # NoResult, Store(e, r),
           NEW x \in EventIds
    PROVE  /\ lost'[x] >= lost[x]
           /\ lost'[x] + Held(x)' = lost[x] + IF x = e THEN 1 ELSE Held(x)
           /\ Held(x) \in {0, 1}
<1>0. /\ seenResult \in [EventIds -> Result] /\ lost \in [EventIds -> Nat]
      /\ NoResult \in Result
  BY DEF TypeOK, NoResult, Result
<1>h. /\ Held(x) = IF seenResult[x] # NoResult THEN 1 ELSE 0
      /\ Held(x)' = IF seenResult'[x] # NoResult THEN 1 ELSE 0
  BY DEF Held, Remembered
<1>1. CASE seenResult' = [seenResult EXCEPT ![e] = r] /\ lost' = lost
  BY <1>0, <1>1, <1>h
<1>2. ASSUME NEW d \in EventIds \ {e}, Remembered(d),
             seenResult' = [seenResult EXCEPT ![e] = r, ![d] = NoResult],
             lost' = [lost EXCEPT ![d] = @ + 1]
      PROVE  /\ lost'[x] >= lost[x]
             /\ lost'[x] + Held(x)' = lost[x] + IF x = e THEN 1 ELSE Held(x)
  <2>1. /\ seenResult'[x] = IF x = d THEN NoResult ELSE IF x = e THEN r ELSE seenResult[x]
        /\ lost'[x] = IF x = d THEN lost[x] + 1 ELSE lost[x]
        /\ lost[x] \in Nat
    BY <1>0, <1>2
  <2>2. x = d => seenResult[x] # NoResult
    BY <1>2 DEF Remembered
  <2> QED
    BY <1>h, <1>2, <2>1, <2>2
<1> QED
  BY <1>1, <1>2, <1>h, StoreEvicts

RepeatInv == TypeInv /\ SeenConsistent /\ RepeatsInMaking

\* Nobody has a message yet.
LEMMA RepeatInit == Init => RepeatsInMaking
<1> SUFFICES ASSUME Init, NEW e \in EventIds, NEW w \in Workers, NEW c \in Customers
             PROVE  /\ messaged[e][w][c] <= lost[e] + Held(e)
                    /\ pc[w] \notin {"cutoff", "snapshot", "remember", "log"}
  BY DEF RepeatsInMaking
<1> QED
  BY DEF Init, Held, Remembered

\* No step lets a worker repeat itself more often than the memory lost the event.
LEMMA RepeatStep == RepeatInv /\ [Next]_vars => RepeatsInMaking'
<1> SUFFICES ASSUME RepeatInv, [Next]_vars,
                    NEW e \in EventIds, NEW w \in Workers, NEW c \in Customers
             PROVE  /\ messaged'[e][w][c] <= lost'[e] + Held(e)'
                    /\ job'[w].event = e =>
                         /\ pc'[w] \in {"cutoff", "snapshot", "remember"}
                               => messaged'[e][w][c] <= lost'[e]
                         /\ pc'[w] = "log" => messaged'[e][w][c] < lost'[e] + Held(e)'
  BY DEF RepeatsInMaking
<1>0. TypeOK /\ JobFitsStep /\ SeenConsistent /\ TypeOK'
  BY TypeStep DEF RepeatInv, TypeInv
<1>k. /\ messaged[e][w][c] <= lost[e] + Held(e)
      /\ job[w].event = e =>
           /\ pc[w] \in {"cutoff", "snapshot", "remember"} => messaged[e][w][c] <= lost[e]
           /\ pc[w] = "log" => messaged[e][w][c] < lost[e] + Held(e)
      /\ messaged[e][w][c] \in Nat /\ lost[e] \in Nat /\ lost'[e] \in Nat
      /\ messaged'[e][w][c] \in Nat
  BY <1>0 DEF RepeatInv, RepeatsInMaking, TypeOK
<1>h. /\ Held(e) = (IF seenResult[e] # NoResult THEN 1 ELSE 0)
      /\ Held(e)' = (IF seenResult'[e] # NoResult THEN 1 ELSE 0)
      /\ Held(e) \in {0, 1} /\ Held(e)' \in {0, 1}
  BY DEF Held, Remembered
<1>2. CASE Tick \/ Waiting \/ UNCHANGED vars
  BY <1>k, <1>h, <1>2 DEF Tick, Waiting
<1>3. ASSUME NEW x \in Customers, NEW s \in Services \cup {NoService},
             RecordContact(x, s)
      PROVE  UNCHANGED <<messaged, lost, seenResult, pc, job>>
  BY <1>3 DEF RecordContact
<1>4. ASSUME NEW v \in Workers,
             pc' = [pc EXCEPT ![v] = "idle"], job' = [job EXCEPT ![v] = NoJob],
             UNCHANGED <<messaged, lost, seenResult>>
      PROVE  /\ messaged'[e][w][c] <= lost'[e] + Held(e)'
             /\ job'[w].event = e =>
                  /\ pc'[w] \in {"cutoff", "snapshot", "remember"}
                        => messaged'[e][w][c] <= lost'[e]
                  /\ pc'[w] = "log" => messaged'[e][w][c] < lost'[e] + Held(e)'
  <2>1. \/ pc'[w] = "idle"
        \/ pc'[w] = pc[w] /\ job'[w] = job[w]
    BY <1>0, <1>4 DEF TypeOK
  <2> QED
    BY <1>k, <1>h, <1>4, <2>1
<1>5. CASE \E v \in Workers, x \in EventIds : CheckDuplicate(v, x)
  BY <1>4, <1>5 DEF CheckDuplicate, Answer
<1>6. CASE \E v \in Workers, x \in EventIds : CheckFresh(v, x)
  <2> PICK v \in Workers, x \in EventIds : CheckFresh(v, x)
    BY <1>6
  <2>1. /\ UNCHANGED <<messaged, lost, seenResult>>
        /\ seenResult[x] = NoResult
        /\ pc'[v] \in {"cutoff", "remember"}
        /\ v # w => pc'[w] = pc[w] /\ job'[w] = job[w]
        /\ job'[v].event = x
    BY <1>0 DEF CheckFresh, TypeOK, JobFor, Remembered
  <2> QED
    BY <1>k, <1>h, <2>1
<1>7. CASE \E v \in Workers : TakeCutoff(v) \/ Snapshot(v)
  <2> PICK v \in Workers : TakeCutoff(v) \/ Snapshot(v)
    BY <1>7
  <2>1. /\ UNCHANGED <<messaged, lost, seenResult>>
        /\ pc[v] \in {"cutoff", "snapshot"} /\ pc'[v] # "log"
        /\ v # w => pc'[w] = pc[w]
    BY <1>0 DEF TypeOK, TakeCutoff, Snapshot
  <2>2. job'[w].event = job[w].event
    <3>1. CASE TakeCutoff(v)
      BY <1>0, <3>1 DEF TypeOK, TakeCutoff, Job
    <3>2. CASE Snapshot(v)
      BY <1>0, <3>2 DEF TypeOK, Snapshot, Job
    <3> QED
      BY <3>1, <3>2
  <2> QED
    BY <1>k, <1>h, <2>1, <2>2
<1>8. CASE \E v \in Workers : SnapshotRaises(v)
  BY <1>4, <1>8 DEF SnapshotRaises
<1>9. CASE \E v \in Workers : RememberQuiet(v)
  <2> PICK v \in Workers : RememberQuiet(v)
    BY <1>9
  <2> DEFINE x == job[v].event
             r == Outcome(x, {})
  <2>1. x \in EventIds /\ Store(x, r) /\ r \in Result /\ r # NoResult
    BY <1>0, OutcomeType, OutcomeIsResult DEF JobFitsStep, RememberQuiet
  <2>2. /\ lost'[e] >= lost[e]
        /\ lost'[e] + Held(e)' >= lost[e] + Held(e)
    <3> HIDE DEF x, r
    <3> QED
      BY <1>0, <1>k, <1>h, <2>1, StoreCounts
  <2>3. /\ messaged' = messaged
        /\ \/ pc'[w] = "idle"
           \/ pc'[w] = pc[w] /\ job'[w] = job[w]
    BY <1>0 DEF TypeOK, RememberQuiet, Answer
  <2> HIDE DEF x, r
  <2> QED
    BY <1>k, <1>h, <2>2, <2>3
<1>10. CASE \E v \in Workers : RememberOutreach(v)
  <2> PICK v \in Workers : RememberOutreach(v)
    BY <1>10
  <2> DEFINE x == job[v].event
             r == Outcome(x, job[v].outreach)
  <2>0. job[v].outreach \in SUBSET Customers
    BY <1>0 DEF TypeOK, Job
  <2>1. x \in EventIds /\ Store(x, r) /\ r \in Result /\ r # NoResult
    BY <1>0, <2>0, OutcomeType, OutcomeIsResult DEF JobFitsStep, RememberOutreach
  <2>2. /\ lost'[e] >= lost[e]
        /\ lost'[e] + Held(e)' >= lost[e] + Held(e)
        /\ x = e => lost'[e] + Held(e)' = lost[e] + 1
    <3> HIDE DEF x, r
    <3> QED
      BY <1>0, <1>k, <1>h, <2>1, StoreCounts
  <2>3. /\ messaged' = messaged /\ job' = job
        /\ pc[v] = "remember"
        /\ pc' = [pc EXCEPT ![v] = "log"]
    BY DEF RememberOutreach
  <2>4. v # w => pc'[w] = pc[w]
    BY <1>0, <2>3 DEF TypeOK
  <2>5. v = w => pc'[w] = "log"
    BY <1>0, <2>3 DEF TypeOK
  <2> QED
    BY <1>k, <1>h, <2>2, <2>3, <2>4, <2>5
<1>11. CASE \E v \in Workers : Log(v)
  <2> PICK v \in Workers : Log(v)
    BY <1>11
  <2> DEFINE x == job[v].event
  <2>1. x \in EventIds /\ pc[v] = "log"
    BY <1>0 DEF JobFitsStep, Log
  <2>2. /\ UNCHANGED <<seenResult, lost>>
        /\ pc' = [pc EXCEPT ![v] = "idle"]
        /\ job' = [job EXCEPT ![v] = NoJob]
        /\ messaged' = [messaged EXCEPT
             ![x][v] = [k \in Customers |->
                          IF k \in job[v].outreach THEN @[k] + 1 ELSE @[k]]]
    BY DEF Log, Answer
  <2>3. /\ x = e /\ v = w => messaged'[e][w][c] <= messaged[e][w][c] + 1
        /\ ~(x = e /\ v = w) => messaged'[e][w][c] = messaged[e][w][c]
    <3> HIDE DEF x
    <3>1. messaged \in [EventIds -> [Workers -> [Customers -> Nat]]]
      BY <1>0 DEF TypeOK
    <3> QED
      BY <1>k, <2>1, <2>2, <3>1
  <2>4. pc'[w] # "idle" => v # w /\ pc'[w] = pc[w] /\ job'[w] = job[w]
    BY <1>0, <2>2 DEF TypeOK
  <2> QED
    BY <1>k, <1>h, <2>1, <2>2, <2>3, <2>4
<1>12. CASE Restart
  <2>1. /\ messaged' = messaged /\ pc'[w] = "idle"
        /\ lost'[e] = IF seenResult[e] # NoResult THEN lost[e] + 1 ELSE lost[e]
    BY <1>12 DEF Restart, Remembered
  <2> QED
    BY <1>k, <1>h, <2>1
<1> QED
  BY <1>k, <1>h, <1>2, <1>3, <1>5, <1>6, <1>7, <1>8, <1>9, <1>10, <1>11, <1>12
  DEF Next, Receive, Proceed

\* Whatever is redelivered, overlaps, is evicted, not saved or lost in a restart, a
\* worker messages a customer about an event at most once more than the memory lost
\* the event (proactive.py:34, 64-73, 83-88).
THEOREM RepeatsExplained == Spec => []RepeatsAreExplained
<1>1. Init => RepeatInv
  BY TypeInit, SeenInit, RepeatInit DEF RepeatInv
<1>2. RepeatInv /\ [Next]_vars => RepeatInv'
  BY TypeStep, SeenStep, RepeatStep DEF RepeatInv
<1>3. RepeatInv => RepeatsAreExplained
  <2> SUFFICES ASSUME RepeatInv, NEW e \in EventIds, NEW w \in Workers, NEW c \in Customers
               PROVE  messaged[e][w][c] <= 1 + lost[e]
    BY DEF RepeatsAreExplained
  <2>1. messaged[e][w][c] \in Nat /\ lost[e] \in Nat /\ Held(e) \in {0, 1}
    BY DEF RepeatInv, TypeInv, TypeOK, Held
  <2> QED
    BY <2>1 DEF RepeatInv, RepeatsInMaking
<1> QED
  BY <1>1, <1>2, <1>3, PTL DEF Spec
-----------------------------------------------------------------------------
(* The promise.                                                             *)

Duties == [w \in Workers |-> Duty(w)]

\* A step of one worker changes no other one's duty.
LEMMA OneDutyAtATime ==
    ASSUME NEW w \in Workers,
           \A v \in Workers \ {w} : pc'[v] = pc[v] /\ job'[v] = job[v]
    PROVE  Duties' = [Duties EXCEPT ![w] = Duty(w)']
BY DEF Duties, Duty

\* What a worker's duty is at each place of the handler.
LEMMA DutyByStep ==
    ASSUME NEW w \in Workers
    PROVE  /\ pc[w] = "idle" => Duty(w) = NoJob
           /\ pc[w] \in {"cutoff", "snapshot", "remember"}
                => Duty(w) = Promise!Taken(job[w].event)
           /\ pc[w] = "log" => Duty(w) = Promise!Owing(job[w].event, job[w].outreach)
BY DEF Duty, Promise!Taken, Promise!Owing

\* The same after a step.
LEMMA DutyAfterStep ==
    ASSUME NEW w \in Workers
    PROVE  /\ pc'[w] = "idle" => Duty(w)' = NoJob
           /\ pc'[w] \in {"cutoff", "snapshot", "remember"}
                => Duty(w)' = Promise!Taken(job'[w].event)
           /\ pc'[w] = "log" => Duty(w)' = Promise!Owing(job'[w].event, job'[w].outreach)
BY DEF Duty, Promise!Taken, Promise!Owing

\* Remembering a result settles the event its worker has taken.
LEMMA RememberSettles ==
    ASSUME TypeOK, SeenConsistent, NEW w \in Workers, NEW e \in EventIds,
           NEW r \in Result, r # NoResult, Store(e, r),
           Duty(w) = Promise!Taken(e),
           Duty(w)' = IF r.kind = "outreach" THEN Promise!Owing(e, r.outreach) ELSE NoJob,
           Duties' = [Duties EXCEPT ![w] = Duty(w)'],
           messaged' = messaged
    PROVE  Promise!Settle(w, e)
<1>1. Duties[w] = Promise!Taken(e)
  BY DEF Duties
<1>2. \/ seenResult' = [seenResult EXCEPT ![e] = r]
      \/ /\ ~NoEviction
         /\ \E d \in EventIds \ {e} :
              seenResult' = [seenResult EXCEPT ![e] = r, ![d] = NoResult]
  BY StoreEvicts
<1>3. Duties' = [Duties EXCEPT
                  ![w] = IF r.kind = "outreach" THEN Promise!Owing(e, r.outreach) ELSE NoJob]
  OBVIOUS
<1>4. r \in Result \ {NoResult}
  OBVIOUS
<1> QED
  BY <1>1, <1>2, <1>3, <1>4 DEF Promise!Settle, Duties

\* A step of the handler takes, drops or settles an event, sends a round, loses
\* everything, or shows nothing.
LEMMA PromiseStep ==
    TypeInv /\ SeenConsistent /\ [Next]_vars => [Promise!PromiseNext]_(Promise!promiseVars)
<1> SUFFICES ASSUME TypeInv, SeenConsistent, [Next]_vars
             PROVE  Promise!PromiseNext \/ UNCHANGED <<seenResult, Duties, messaged>>
  BY DEF Promise!promiseVars, Duties
<1>0. TypeOK /\ JobFitsStep
  BY DEF TypeInv
<1>1. ASSUME NEW w \in Workers, NEW e \in EventIds,
             \/ Promise!Take(w, e) \/ Promise!Drop(w, e)
             \/ Promise!Settle(w, e) \/ Promise!Send(w, e)
      PROVE  Promise!PromiseNext
  BY <1>1 DEF Promise!PromiseNext
<1>2. ASSUME UNCHANGED <<seenResult, messaged, pc, job>>
      PROVE  UNCHANGED <<seenResult, Duties, messaged>>
  BY <1>2 DEF Duties, Duty
<1>3. CASE Tick \/ Waiting \/ UNCHANGED vars
  BY <1>2, <1>3 DEF Tick, Waiting
<1>4. ASSUME NEW c \in Customers, NEW s \in Services \cup {NoService},
             RecordContact(c, s)
      PROVE  UNCHANGED <<seenResult, Duties, messaged>>
  BY <1>2, <1>4 DEF RecordContact
<1>5. ASSUME NEW w \in Workers, NEW e \in EventIds, CheckDuplicate(w, e)
      PROVE  UNCHANGED <<seenResult, Duties, messaged>>
  <2>1. /\ UNCHANGED <<seenResult, messaged>>
        /\ pc[w] = "idle" /\ pc'[w] = "idle"
        /\ \A v \in Workers \ {w} : pc'[v] = pc[v] /\ job'[v] = job[v]
    BY <1>0, <1>5 DEF TypeOK, CheckDuplicate, Deliver, Answer
  <2>2. Duty(w)' = Duty(w)
    BY <2>1, DutyByStep, DutyAfterStep
  <2>3. Duties' = [Duties EXCEPT ![w] = Duty(w)]
    BY <2>1, <2>2, OneDutyAtATime
  <2> QED
    BY <2>1, <2>3 DEF Duties
<1>6. ASSUME NEW w \in Workers, NEW e \in EventIds, CheckFresh(w, e)
      PROVE  Promise!Take(w, e)
  <2>1. /\ UNCHANGED <<seenResult, messaged>>
        /\ seenResult[e] = NoResult
        /\ pc[w] = "idle" /\ pc'[w] \in {"cutoff", "remember"} /\ job'[w].event = e
        /\ \A v \in Workers \ {w} : pc'[v] = pc[v] /\ job'[v] = job[v]
    BY <1>0, <1>6 DEF TypeOK, CheckFresh, Deliver, JobFor, Remembered
  <2>2. Duty(w) = NoJob /\ Duty(w)' = Promise!Taken(e)
    BY <2>1, DutyByStep, DutyAfterStep
  <2>3. Duties[w] = NoJob /\ Duties' = [Duties EXCEPT ![w] = Promise!Taken(e)]
    BY <2>1, <2>2, OneDutyAtATime DEF Duties
  <2> QED
    BY <2>1, <2>3 DEF Promise!Take, Duties
<1>7. ASSUME NEW w \in Workers, TakeCutoff(w) \/ Snapshot(w)
      PROVE  UNCHANGED <<seenResult, Duties, messaged>>
  <2>1. /\ UNCHANGED <<seenResult, messaged>>
        /\ pc[w] \in {"cutoff", "snapshot"} /\ pc'[w] \in {"snapshot", "remember"}
        /\ \A v \in Workers \ {w} : pc'[v] = pc[v] /\ job'[v] = job[v]
    BY <1>0, <1>7 DEF TypeOK, TakeCutoff, Snapshot
  <2>2. job'[w].event = job[w].event
    <3>1. CASE TakeCutoff(w)
      BY <1>0, <3>1 DEF TypeOK, TakeCutoff, Job
    <3>2. CASE Snapshot(w)
      BY <1>0, <3>2 DEF TypeOK, Snapshot, Job
    <3> QED
      BY <1>7, <3>1, <3>2
  <2>3. Duty(w)' = Duty(w)
    BY <2>1, <2>2, DutyByStep, DutyAfterStep
  <2>4. Duties' = [Duties EXCEPT ![w] = Duty(w)]
    BY <2>1, <2>3, OneDutyAtATime
  <2> QED
    BY <2>1, <2>4 DEF Duties
<1>8. ASSUME NEW w \in Workers, SnapshotRaises(w)
      PROVE  Promise!Drop(w, job[w].event)
  <2>1. /\ UNCHANGED <<seenResult, messaged>>
        /\ pc[w] = "snapshot" /\ pc'[w] = "idle"
        /\ \A v \in Workers \ {w} : pc'[v] = pc[v] /\ job'[v] = job[v]
    BY <1>0, <1>8 DEF TypeOK, SnapshotRaises
  <2>2. Duty(w) = Promise!Taken(job[w].event) /\ Duty(w)' = NoJob
    BY <2>1, DutyByStep, DutyAfterStep
  <2>3. /\ Duties[w] = Promise!Taken(job[w].event)
        /\ Duties' = [Duties EXCEPT ![w] = NoJob]
    BY <2>1, <2>2, OneDutyAtATime DEF Duties
  <2> QED
    BY <2>1, <2>3 DEF Promise!Drop, Duties
<1>9. ASSUME NEW w \in Workers, RememberQuiet(w)
      PROVE  Promise!Settle(w, job[w].event)
  <2> DEFINE e == job[w].event
             r == Outcome(e, {})
  <2>1. /\ e \in EventIds /\ Store(e, r) /\ r \in Result /\ r # NoResult
        /\ r.kind # "outreach"
    BY <1>0, <1>9, OutcomeType, OutcomeIsResult, QuietOutcome DEF JobFitsStep, RememberQuiet
  <2>2. /\ messaged' = messaged
        /\ pc[w] = "remember" /\ pc'[w] = "idle"
        /\ \A v \in Workers \ {w} : pc'[v] = pc[v] /\ job'[v] = job[v]
    BY <1>0, <1>9 DEF TypeOK, RememberQuiet, Answer
  <2>3. Duty(w) = Promise!Taken(e) /\ Duty(w)' = NoJob
    BY <2>2, DutyByStep, DutyAfterStep
  <2>4. Duties' = [Duties EXCEPT ![w] = Duty(w)']
    BY <2>2, OneDutyAtATime
  <2> HIDE DEF e, r
  <2>5. Promise!Settle(w, e)
    BY <1>0, <2>1, <2>2, <2>3, <2>4, RememberSettles
  <2> QED
    BY <2>5 DEF e
<1>10. ASSUME NEW w \in Workers, RememberOutreach(w)
       PROVE  Promise!Settle(w, job[w].event)
  <2> DEFINE e == job[w].event
             r == Outcome(e, job[w].outreach)
  <2>0. job[w].outreach \in SUBSET Customers
    BY <1>0 DEF TypeOK, Job
  <2>1. /\ e \in EventIds /\ Store(e, r) /\ r \in Result /\ r # NoResult
        /\ r.kind = "outreach" /\ r.outreach = job[w].outreach
    BY <1>0, <1>10, <2>0, OutcomeType, OutcomeIsResult
    DEF JobFitsStep, RememberOutreach, Outcome
  <2>2. /\ messaged' = messaged
        /\ pc[w] = "remember" /\ pc'[w] = "log" /\ job' = job
        /\ \A v \in Workers \ {w} : pc'[v] = pc[v] /\ job'[v] = job[v]
    BY <1>0, <1>10 DEF TypeOK, RememberOutreach
  <2>3. Duty(w) = Promise!Taken(e) /\ Duty(w)' = Promise!Owing(e, r.outreach)
    BY <2>1, <2>2, DutyByStep, DutyAfterStep
  <2>4. Duties' = [Duties EXCEPT ![w] = Duty(w)']
    BY <2>2, OneDutyAtATime
  <2> HIDE DEF e, r
  <2>5. Promise!Settle(w, e)
    BY <1>0, <2>1, <2>2, <2>3, <2>4, RememberSettles
  <2> QED
    BY <2>5 DEF e
<1>11. ASSUME NEW w \in Workers, Log(w)
       PROVE  Promise!Send(w, job[w].event)
  <2> DEFINE e    == job[w].event
             told == job[w].outreach
  <2>0. told \in SUBSET Customers
    BY <1>0 DEF TypeOK, Job
  <2>1. /\ seenResult' = seenResult
        /\ pc[w] = "log" /\ pc'[w] = "idle"
        /\ \A v \in Workers \ {w} : pc'[v] = pc[v] /\ job'[v] = job[v]
    BY <1>0, <1>11 DEF TypeOK, Log, Answer
  <2>2. messaged' = [messaged EXCEPT
             ![e][w] = [c \in Customers |-> IF c \in told THEN @[c] + 1 ELSE @[c]]]
    BY <1>11 DEF Log
  <2>3. Duty(w) = Promise!Owing(e, told) /\ Duty(w)' = NoJob
    BY <2>1, DutyByStep, DutyAfterStep
  <2>4. /\ Duties[w] = Promise!Owing(e, told)
        /\ Duties' = [Duties EXCEPT ![w] = NoJob]
    BY <2>1, <2>3, OneDutyAtATime DEF Duties
  <2> HIDE DEF e, told
  <2>5. Promise!Send(w, e)
    BY <2>0, <2>1, <2>2, <2>4 DEF Promise!Send, Duties
  <2> QED
    BY <2>5 DEF e
<1>12. CASE Restart
  <2>1. /\ messaged' = messaged
        /\ seenResult' = [e \in EventIds |-> NoResult]
        /\ Duties' = [w \in Workers |-> NoJob]
    BY <1>12 DEF Restart, Duties, Duty
  <2>2. Promise!Crash
    BY <2>1 DEF Promise!Crash, Duties
  <2> QED
    BY <2>2 DEF Promise!PromiseNext
<1>e. \A w \in Workers : pc[w] # "idle" => job[w].event \in EventIds
  BY <1>0 DEF JobFitsStep
<1>13. ASSUME NEW w \in Workers, Proceed(w)
       PROVE  Promise!PromiseNext \/ UNCHANGED <<seenResult, Duties, messaged>>
  <2>1. job[w].event \in EventIds
    BY <1>e, <1>13 DEF Proceed, TakeCutoff, Snapshot, SnapshotRaises, RememberQuiet,
                       RememberOutreach, Log
  <2> QED
    BY <1>1, <1>7, <1>8, <1>9, <1>10, <1>11, <1>13, <2>1 DEF Proceed
<1>14. ASSUME NEW w \in Workers, NEW e \in EventIds, Receive(w, e)
       PROVE  Promise!PromiseNext \/ UNCHANGED <<seenResult, Duties, messaged>>
  BY <1>1, <1>5, <1>6, <1>14 DEF Receive
<1> QED
  BY <1>3, <1>4, <1>12, <1>13, <1>14 DEF Next

\* The promise is kept by any number of workers with any memory, through restarts,
\* evictions, failing handlers and saves: who remembered an outreach messages exactly
\* those a duplicate is told of, once, before it does anything else (proactive.py:
\* 76-137).
THEOREM PromiseIsKept == Spec => PromiseKept
<1>1. Init => TypeInv /\ SeenConsistent
  BY TypeInit, SeenInit
<1>2. TypeInv /\ SeenConsistent /\ [Next]_vars => (TypeInv /\ SeenConsistent)'
  BY TypeStep, SeenStep DEF TypeInv
<1>3. Init => Promise!PromiseInit
  BY DEF Init, Promise!PromiseInit, Duty
<1>4. TypeInv /\ SeenConsistent /\ [Next]_vars => [Promise!PromiseNext]_(Promise!promiseVars)
  BY PromiseStep
<1> QED
  BY <1>1, <1>2, <1>3, <1>4, PTL DEF Spec, PromiseKept, Promise!PromiseSpec
=============================================================================
