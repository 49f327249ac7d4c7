------------------------ MODULE ServiceClientProofs ------------------------
(***************************************************************************)
(* Proofs about ServiceClient: for every number of threads, every threshold *)
(* and every cooldown.                                                      *)
(***************************************************************************)
EXTENDS ServiceClient, FiniteSetTheorems, TLAPS

USE DEF vars, breaker, threads
-----------------------------------------------------------------------------
(* Type correctness.                                                        *)

\* A breaker that has just been made is well typed.
LEMMA TypeInit == Init => TypeOK
BY BreakerAssumption DEF Init, TypeOK, Ages, Results

\* Every step of a call, a status or the clock keeps it well typed.
LEMMA TypeStep == TypeOK /\ [Next]_vars => TypeOK'
<1> SUFFICES ASSUME TypeOK, [Next]_vars PROVE TypeOK'
  OBVIOUS
<1> USE BreakerAssumption
<1>0. /\ AgeBound \in Nat /\ MaxLag <= AgeBound
      /\ Ages \subseteq Int
      /\ 0..MaxLag \subseteq Ages /\ 0 \in 0..MaxLag
  BY DEF AgeBound, Ages
<1>1. CASE Tick
  <2>1. Older(openedAge) \in Ages \cup {Never}
    BY <1>0 DEF TypeOK, Older, Ages
  <2>2. \A w \in Workers :
           (IF pc[w] \in Holding THEN clockAge[w] + 1 ELSE clockAge[w]) \in 0..MaxLag
    BY <1>1 DEF Tick, TypeOK
  <2> QED
    BY <1>1, <2>1, <2>2 DEF Tick, TypeOK
<1>2. CASE DependencyChanges
  BY <1>2 DEF DependencyChanges, TypeOK
<1>3. ASSUME NEW w \in Workers, Arrive(w) PROVE TypeOK'
  BY <1>3 DEF Arrive, Find, TypeOK, Results
<1>m. ASSUME NEW w \in Workers, Make(w) PROVE TypeOK'
  <2>1. pc' \in [Workers -> {"idle", "making", "found", "abandoned",
                            "compare", "first", "second", "opening"}]
    BY <1>m DEF Make, TypeOK
  <2> QED
    BY <1>0, <1>m, <2>1 DEF Make, TypeOK
<1>r. ASSUME NEW w \in Workers, ReturnAbandoned(w) PROVE TypeOK'
  BY <1>0, <1>r DEF ReturnAbandoned, Return, TypeOK, Results
<1>f. ASSUME NEW w \in Workers, CallUnconfigured(w) \/ CheckOpen(w) PROVE TypeOK'
  BY <1>0, <1>f DEF CallUnconfigured, CheckOpen, Return, TypeOK, Results
<1>4. ASSUME NEW w \in Workers, HalfOpen(w) PROVE TypeOK'
  BY <1>0, <1>4 DEF HalfOpen, Admitted, TypeOK
<1>5. ASSUME NEW w \in Workers, StillOpen(w) \/ CompareRaises(w) PROVE TypeOK'
  BY <1>0, <1>5 DEF StillOpen, CompareRaises, Refused, Return, TypeOK, Results
<1>6. ASSUME NEW w \in Workers, NEW reply \in AllReplies, Succeed(w, reply) PROVE TypeOK'
  BY <1>0, <1>6 DEF Succeed, Return, TypeOK, Results
<1>7. ASSUME NEW w \in Workers, NEW reply \in AllReplies, Retry(w, reply) PROVE TypeOK'
  BY <1>7 DEF Retry, TypeOK
<1>8. ASSUME NEW w \in Workers, NEW reply \in AllReplies, CountFailure(w, reply)
      PROVE  TypeOK'
  BY <1>0, <1>8 DEF CountFailure, Return, TypeOK, Results
<1>9. ASSUME NEW w \in Workers, NEW reply \in AllReplies, CallRaises(w, reply) PROVE TypeOK'
  BY <1>0, <1>9 DEF CallRaises, Return, TypeOK, Results
<1>10. ASSUME NEW w \in Workers, OpenCircuit(w) PROVE TypeOK'
  BY <1>0, <1>10 DEF OpenCircuit, Return, TypeOK, Results
<1>11. CASE UNCHANGED vars
  BY <1>11 DEF TypeOK
<1> QED
  BY <1>1, <1>2, <1>3, <1>m, <1>r, <1>f, <1>4, <1>5, <1>6, <1>7, <1>8, <1>9, <1>10, <1>11
  DEF Next, Proceed

\* The types are right in every reachable state; in particular the counter never
\* goes below zero and no thread's clock value is older than the lag allows.
THEOREM TypeCorrect == Spec => []TypeOK
BY TypeInit, TypeStep, PTL DEF Spec
-----------------------------------------------------------------------------
(* What an outage costs.                                                    *)

CostInv == TypeOK /\ OutageCostIsBounded /\ ExcessIsOpening

\* The threads in a call and the threads opening the circuit are different ones,
\* wherever the threads stand.
LEMMA ThreadCounts ==
    ASSUME NEW p, NEW C, NEW O,
           C = {w \in Workers : p[w] \in Calling \cup {"abandoned"}},
           O = {w \in Workers : p[w] = "opening"}
    PROVE  /\ IsFiniteSet(C) /\ IsFiniteSet(O)
           /\ Cardinality(C) \in Nat /\ Cardinality(O) \in Nat
           /\ Cardinality(Workers) \in Nat
           /\ Cardinality(C) <= Cardinality(Workers)
           /\ Cardinality(C) + Cardinality(O) <= Cardinality(Workers)
           /\ (\E w \in Workers : w \notin C \cup O) =>
                Cardinality(C) + Cardinality(O) + 1 <= Cardinality(Workers)
<1> USE BreakerAssumption
<1>1. C \in SUBSET Workers /\ O \in SUBSET Workers /\ C \cap O = {}
  BY DEF Calling
<1>2. /\ IsFiniteSet(C) /\ IsFiniteSet(O)
      /\ Cardinality(C) <= Cardinality(Workers)
  BY <1>1, FS_Subset
<1>3. /\ Cardinality(C) \in Nat /\ Cardinality(O) \in Nat
      /\ Cardinality(Workers) \in Nat
  BY <1>2, FS_CardinalityType
<1>4. /\ IsFiniteSet(C \cup O)
      /\ Cardinality(C \cup O) = Cardinality(C) + Cardinality(O)
  <2>1. Cardinality(C \cap O) = 0
    BY <1>1, FS_EmptySet
  <2>2. /\ IsFiniteSet(C \cup O)
        /\ Cardinality(C \cup O) = Cardinality(C) + Cardinality(O) - Cardinality(C \cap O)
    BY <1>2, FS_Union
  <2> QED
    BY <1>3, <2>1, <2>2
<1>5. Cardinality(C \cup O) <= Cardinality(Workers)
  <2>1. C \cup O \in SUBSET Workers
    BY <1>1
  <2> QED
    BY <2>1, FS_Subset
<1>6. ASSUME NEW w \in Workers, w \notin C \cup O
      PROVE  Cardinality(C) + Cardinality(O) + 1 <= Cardinality(Workers)
  <2>1. (C \cup O) \cup {w} \in SUBSET Workers
    BY <1>1
  <2>2. Cardinality((C \cup O) \cup {w}) = Cardinality(C \cup O) + 1
    BY <1>4, <1>6, FS_AddElement
  <2>3. Cardinality((C \cup O) \cup {w}) <= Cardinality(Workers)
    BY <2>1, FS_Subset
  <2> QED
    BY <1>3, <1>4, <2>2, <2>3
<1> QED
  BY <1>2, <1>3, <1>4, <1>5, <1>6

\* Counting one thread more or less.
LEMMA OneMore ==
    ASSUME NEW S, IsFiniteSet(S), NEW w, w \notin S
    PROVE  Cardinality(S \cup {w}) = Cardinality(S) + 1
BY FS_AddElement

\* A thread that leaves a set of threads makes it smaller by one.
LEMMA OneLess ==
    ASSUME NEW S, IsFiniteSet(S), NEW w \in S
    PROVE  Cardinality(S \ {w}) = Cardinality(S) - 1
BY FS_RemoveElement

\* No failure is counted and no call is under way at the start.
LEMMA CostInit == Init => OutageCostIsBounded /\ ExcessIsOpening
<1> SUFFICES ASSUME Init PROVE OutageCostIsBounded /\ ExcessIsOpening
  OBVIOUS
<1>1. InCall = {}
  BY DEF Init, InCall, Calling
<1>2. Cardinality(InCall) = 0 /\ failures = 0
  BY <1>1, FS_EmptySet DEF Init
<1>3. Cardinality(Workers) \in Nat /\ Cardinality(Opening) \in Nat
  BY ThreadCounts DEF InCall, Opening
<1> QED
  BY <1>2, <1>3, BreakerAssumption DEF OutageCostIsBounded, ExcessIsOpening

\* Every step keeps the count and the calls under way within bounds.
LEMMA CostStep == CostInv /\ [Next]_vars => OutageCostIsBounded' /\ ExcessIsOpening'
<1> SUFFICES ASSUME CostInv, [Next]_vars
             PROVE  OutageCostIsBounded' /\ ExcessIsOpening'
  OBVIOUS
<1> USE BreakerAssumption
<1> DEFINE T == Threshold
           n == Cardinality(Workers)
           k == Cardinality(InCall)
           o == Cardinality(Opening)
<1>0. /\ TypeOK
      /\ failures \in Nat /\ T \in Nat /\ T >= 1
      /\ n \in Nat /\ k \in Nat /\ o \in Nat /\ k <= n /\ k + o <= n
      /\ IsFiniteSet(InCall) /\ IsFiniteSet(Opening)
      /\ failures + k <= T - 1 + n
      /\ openedAge = Never => failures <= T - 1 + o
  <2>1. /\ n \in Nat /\ k \in Nat /\ o \in Nat /\ k <= n /\ k + o <= n
        /\ IsFiniteSet(InCall) /\ IsFiniteSet(Opening)
    BY ThreadCounts DEF InCall, Opening
  <2> QED
    BY <2>1 DEF CostInv, TypeOK, OutageCostIsBounded, ExcessIsOpening
<1>a. /\ Cardinality(InCall') \in Nat /\ Cardinality(Opening') \in Nat
      /\ Cardinality(InCall') <= n /\ Cardinality(InCall') + Cardinality(Opening') <= n
      /\ Never \notin Ages
  <2>1. /\ InCall' = {w \in Workers : pc'[w] \in Calling \cup {"abandoned"}}
        /\ Opening' = {w \in Workers : pc'[w] = "opening"}
    BY DEF InCall, Opening, Calling
  <2>2. /\ Cardinality(InCall') \in Nat /\ Cardinality(Opening') \in Nat
        /\ Cardinality(InCall') <= n /\ Cardinality(InCall') + Cardinality(Opening') <= n
    BY <2>1, ThreadCounts
  <2>3. Never \notin Ages
    BY DEF Ages
  <2> QED
    BY <2>2, <2>3
<1> HIDE DEF T, n, k, o
<1>1. SUFFICES /\ failures' + Cardinality(InCall') <= T - 1 + n
               /\ openedAge' = Never => failures' <= T - 1 + Cardinality(Opening')
  BY DEF OutageCostIsBounded, ExcessIsOpening, T, n
<1>2. CASE /\ UNCHANGED <<failures, openedAge>>
           /\ InCall' = InCall /\ Opening' = Opening
  BY <1>0, <1>2 DEF k, o
<1>3. CASE failures' = 0
  BY <1>0, <1>a, <1>3
<1>4. CASE Tick
  <2>1. failures' = failures /\ pc' = pc
    BY <1>4 DEF Tick
  <2>2. InCall' = InCall /\ Opening' = Opening
    BY <2>1 DEF InCall, Opening
  <2>3. openedAge' = Never => openedAge = Never
    BY <1>0, <1>4, <1>a DEF Tick, Older, TypeOK, Ages, AgeBound
  <2> QED
    BY <1>0, <2>1, <2>2, <2>3 DEF k, o
<1>5. CASE DependencyChanges \/ UNCHANGED vars
  BY <1>2, <1>5 DEF DependencyChanges, InCall, Opening
<1>6. ASSUME NEW w \in Workers, CheckOpen(w)
      PROVE  /\ failures' + Cardinality(InCall') <= T - 1 + n
             /\ openedAge' = Never => failures' <= T - 1 + Cardinality(Opening')
  <2>1. /\ pc[w] = "found" /\ UNCHANGED <<failures, openedAge>>
        /\ \A v \in Workers \ {w} : pc'[v] = pc[v]
        /\ pc'[w] \in {"compare", "first", "idle"}
        /\ pc'[w] = "first" => openedAge = Never
    BY <1>0, <1>6 DEF CheckOpen, TypeOK
  <2>2. Opening' = Opening
    BY <2>1 DEF Opening
  <2>3. CASE pc'[w] = "first"
    <3>1. InCall' = InCall \cup {w} /\ w \notin InCall
      BY <2>1, <2>3 DEF InCall, Calling
    <3>2. Cardinality(InCall') = k + 1
      BY <1>0, <3>1, OneMore DEF k
    <3>3. k + o + 1 <= n
      <4>1. w \in Workers /\ w \notin InCall \cup Opening
        BY <2>1 DEF Calling, InCall, Opening
      <4> QED
        BY <4>1, ThreadCounts DEF k, o, n, InCall, Opening
    <3>4. failures + (k + 1) <= T - 1 + n
      BY <1>0, <2>1, <2>3, <3>3
    <3> QED
      BY <1>0, <2>1, <2>2, <3>2, <3>4 DEF o
  <2>4. CASE pc'[w] # "first"
    <3>1. InCall' = InCall
      BY <2>1, <2>4 DEF InCall, Calling
    <3> QED
      BY <1>2, <2>1, <2>2, <3>1
  <2> QED
    BY <2>3, <2>4
<1>f. ASSUME NEW w \in Workers, Arrive(w)
      PROVE  /\ UNCHANGED <<failures, openedAge>>
             /\ InCall' = InCall /\ Opening' = Opening
  BY <1>0, <1>f DEF Arrive, Find, TypeOK, InCall, Opening, Calling
<1>7. ASSUME NEW w \in Workers, CallUnconfigured(w) \/ StillOpen(w) \/ CompareRaises(w)
      PROVE  /\ UNCHANGED <<failures, openedAge>>
             /\ InCall' = InCall /\ Opening' = Opening
  BY <1>0, <1>7 DEF CallUnconfigured, StillOpen, CompareRaises, Refused, Return, TypeOK,
                    InCall, Opening, Calling
<1>8. ASSUME NEW w \in Workers,
             Make(w) \/ HalfOpen(w) \/ \E reply \in AllReplies : Succeed(w, reply)
      PROVE  failures' = 0
  BY <1>8 DEF Make, HalfOpen, Succeed
<1>9. ASSUME NEW w \in Workers, NEW reply \in AllReplies, Retry(w, reply)
      PROVE  /\ UNCHANGED <<failures, openedAge>>
             /\ InCall' = InCall /\ Opening' = Opening
  BY <1>0, <1>9 DEF Retry, TypeOK, InCall, Opening, Calling
<1>10. ASSUME NEW w \in Workers, NEW reply \in AllReplies, CountFailure(w, reply)
       PROVE  /\ failures' + Cardinality(InCall') <= T - 1 + n
              /\ openedAge' = Never => failures' <= T - 1 + Cardinality(Opening')
  <2>1. /\ w \in InCall /\ w \notin Opening
        /\ failures' = failures + 1 /\ openedAge' = openedAge
        /\ \A v \in Workers \ {w} : pc'[v] = pc[v]
        /\ pc'[w] = IF failures + 1 >= T THEN "opening" ELSE "idle"
    BY <1>0, <1>10 DEF CountFailure, Return, TypeOK, InCall, Opening, Calling, T
  <2>2. InCall' = InCall \ {w}
    BY <2>1 DEF InCall, Calling
  <2>3. Cardinality(InCall') = k - 1
    BY <1>0, <2>1, <2>2, OneLess DEF k
  <2>4. CASE failures + 1 >= T
    <3>1. Opening' = Opening \cup {w}
      BY <2>1, <2>4 DEF Opening
    <3>2. Cardinality(Opening') = o + 1
      BY <1>0, <2>1, <3>1, OneMore DEF o
    <3> QED
      BY <1>0, <2>1, <2>3, <3>2
  <2>5. CASE ~(failures + 1 >= T)
    BY <1>0, <1>a, <2>1, <2>3, <2>5
  <2> QED
    BY <2>4, <2>5
<1>11. ASSUME NEW w \in Workers,
              ReturnAbandoned(w) \/ \E reply \in AllReplies : CallRaises(w, reply)
       PROVE  /\ failures' + Cardinality(InCall') <= T - 1 + n
              /\ openedAge' = Never => failures' <= T - 1 + Cardinality(Opening')
  <2>1. /\ w \in InCall
        /\ UNCHANGED <<failures, openedAge>>
        /\ \A v \in Workers \ {w} : pc'[v] = pc[v]
        /\ pc'[w] = "idle"
    BY <1>0, <1>11 DEF ReturnAbandoned, CallRaises, Return, TypeOK, InCall, Calling
  <2>2. InCall' = InCall \ {w} /\ Opening' = Opening
    BY <2>1 DEF InCall, Opening, Calling
  <2>3. Cardinality(InCall') = k - 1
    BY <1>0, <2>1, <2>2, OneLess DEF k
  <2> QED
    BY <1>0, <2>1, <2>2, <2>3 DEF o
<1>12. ASSUME NEW w \in Workers, OpenCircuit(w)
       PROVE  /\ failures' + Cardinality(InCall') <= T - 1 + n
              /\ openedAge' = Never => failures' <= T - 1 + Cardinality(Opening')
  <2>1. /\ pc[w] = "opening" /\ failures' = failures /\ openedAge' = clockAge[w]
        /\ \A v \in Workers \ {w} : pc'[v] = pc[v]
        /\ pc'[w] = "idle"
    BY <1>0, <1>12 DEF OpenCircuit, Return, TypeOK
  <2>2. InCall' = InCall
    BY <2>1 DEF InCall, Calling
  <2>3. openedAge' # Never
    BY <1>0, <2>1 DEF TypeOK
  <2> QED
    BY <1>0, <2>1, <2>2, <2>3 DEF k
<1> QED
  BY <1>2, <1>3, <1>4, <1>5, <1>6, <1>f, <1>7, <1>8, <1>9, <1>10, <1>11, <1>12
  DEF Next, Proceed

\* A dependency that is down costs, per cooldown, fewer failed calls than the
\* threshold plus one for each thread: unlocked counting and late opening are
\* within that bound, for every number of threads and every threshold.
THEOREM OutageCost == Spec => []OutageCostIsBounded
<1>1. Init => CostInv
  BY TypeInit, CostInit DEF CostInv
<1>2. CostInv /\ [Next]_vars => CostInv'
  BY TypeStep, CostStep DEF CostInv
<1>3. CostInv => OutageCostIsBounded
  BY DEF CostInv
<1> QED
  BY <1>1, <1>2, <1>3, PTL DEF Spec

\* No failure at or beyond the threshold is left without a thread that opens the
\* circuit, as long as the circuit is closed.
THEOREM ExcessOpens == Spec => []ExcessIsOpening
<1>1. Init => CostInv
  BY TypeInit, CostInit DEF CostInv
<1>2. CostInv /\ [Next]_vars => CostInv'
  BY TypeStep, CostStep DEF CostInv
<1>3. CostInv => ExcessIsOpening
  BY DEF CostInv
<1> QED
  BY <1>1, <1>2, <1>3, PTL DEF Spec
-----------------------------------------------------------------------------
(* Clients thrown away.                                                     *)

MakingInv == TypeOK /\ FewClientsAreMade

\* Only threads that looked while there was no client make one, one each.
LEMMA MakingStep == MakingInv /\ [Next]_vars => FewClientsAreMade'
<1> SUFFICES ASSUME MakingInv, [Next]_vars PROVE FewClientsAreMade'
  OBVIOUS
<1> USE BreakerAssumption
<1>0. TypeOK /\ FewClientsAreMade
  BY DEF MakingInv
<1>1. /\ IsFiniteSet(Making) /\ IsFiniteSet(Making')
      /\ Cardinality(Making) \in Nat /\ Cardinality(Making') \in Nat
      /\ Cardinality(Workers) \in Nat
      /\ Cardinality(Making') <= Cardinality(Workers)
  <2>1. Making \in SUBSET Workers /\ Making' \in SUBSET Workers
    BY DEF Making
  <2> QED
    BY <2>1, FS_Subset, FS_CardinalityType
<1>2. ASSUME made' = made, Making' \subseteq Making PROVE FewClientsAreMade'
  <2>1. Cardinality(Making') <= Cardinality(Making)
    BY <1>1, <1>2, FS_Subset
  <2> QED
    BY <1>0, <1>1, <1>2, <2>1 DEF FewClientsAreMade, TypeOK
<1>3. ASSUME NEW w \in Workers, Arrive(w) PROVE FewClientsAreMade'
  <2>1. CASE made = 0
    BY <1>1, <1>3, <2>1 DEF Arrive, Find, FewClientsAreMade
  <2>2. CASE made # 0
    <3>1. made' = made /\ Making' \subseteq Making
      BY <1>0, <1>3, <2>2 DEF Arrive, Find, Making, TypeOK
    <3> QED
      BY <1>2, <3>1
  <2> QED
    BY <2>1, <2>2
<1>4. ASSUME NEW w \in Workers, Make(w) PROVE FewClientsAreMade'
  <2>1. made' = made + 1 /\ w \in Making /\ Making' = Making \ {w}
    BY <1>0, <1>4 DEF Make, Making, Holders, TypeOK
  <2>2. Cardinality(Making') = Cardinality(Making) - 1
    BY <1>1, <2>1, OneLess
  <2> QED
    BY <1>0, <1>1, <2>1, <2>2 DEF FewClientsAreMade, TypeOK
<1>5. CASE Tick \/ DependencyChanges \/ UNCHANGED vars
  <2>1. made' = made /\ Making' \subseteq Making
    BY <1>5 DEF Tick, DependencyChanges, Making
  <2> QED
    BY <1>2, <2>1
<1>6. ASSUME NEW w \in Workers, Proceed(w), ~Make(w) PROVE FewClientsAreMade'
  <2>1. /\ made' = made
        /\ \A v \in Workers \ {w} : pc'[v] = pc[v]
        /\ pc'[w] # "making"
    BY <1>0, <1>6 DEF Proceed, ReturnAbandoned, CallUnconfigured, CheckOpen, HalfOpen,
       StillOpen, CompareRaises, Succeed, Retry, CountFailure, CallRaises, OpenCircuit,
       Admitted, Refused, Return, TypeOK
  <2>2. Making' \subseteq Making
    BY <2>1 DEF Making
  <2> QED
    BY <1>2, <2>1, <2>2
<1> QED
  BY <1>3, <1>4, <1>5, <1>6 DEF Next

\* However many threads race for the first client of a service, at most one each is
\* made in the life of the process, so that a breaker's memory is lost fewer times
\* than there are threads.
THEOREM FewClients == Spec => []FewClientsAreMade
<1>1. Init => MakingInv
  <2>1. ASSUME Init PROVE FewClientsAreMade
    <3>1. Making = {} /\ made = 0
      BY <2>1 DEF Init, Making
    <3>2. Cardinality(Workers) \in Nat /\ Cardinality(Making) = 0
      BY <3>1, FS_EmptySet, FS_CardinalityType, BreakerAssumption
    <3> QED
      BY <3>1, <3>2 DEF FewClientsAreMade
  <2> QED
    BY <2>1, TypeInit DEF MakingInv
<1>2. MakingInv /\ [Next]_vars => MakingInv'
  BY TypeStep, MakingStep DEF MakingInv
<1>3. MakingInv => FewClientsAreMade
  BY DEF MakingInv
<1> QED
  BY <1>1, <1>2, <1>3, PTL DEF Spec
=============================================================================
