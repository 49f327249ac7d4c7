-------------------------- MODULE EventStoreProofs --------------------------
(***************************************************************************)
(* Proofs about EventStore, for any threads, requests, limits and bounds.   *)
(***************************************************************************)
EXTENDS EventStore, SequenceTheorems, Counting

\* The types of everything but the answers of reads.
LogTypeOK ==
    /\ table \in {"absent", "legacy", "current"}
    /\ index \in BOOLEAN
    /\ rows \in Seq(Row)
    /\ writer \in Threads \cup {NoThread}
    /\ connected \in SUBSET Threads
    /\ pc \in [Threads -> PcValues]
    /\ call \in [Threads -> Call]
    /\ rowId \in [Threads -> Nat]
    /\ result \in [Threads -> {"none", "ok", "raised"}]
    /\ saves \in Nat
    /\ stored \in SUBSET Nat
    /\ refused \in SUBSET Nat
    /\ earlier \in SUBSET (Nat \X Nat)

\* The write lock and the id that goes with it.
LockFits ==
    /\ \A t \in Threads : pc[t] = "commit" <=> writer = t
    /\ \A t \in Threads : pc[t] = "commit" => call[t].kind = "save" /\ rowId[t] = NextId

\* The next id is a positive number, whatever the log holds.
LEMMA NextIdType == LogTypeOK => NextId \in Nat \ {0}
<1> SUFFICES ASSUME LogTypeOK PROVE NextId \in Nat \ {0}
  OBVIOUS
<1>1. CASE rows = << >>
  BY <1>1 DEF NextId
<1>2. CASE rows # << >>
  <2>1. Len(rows) \in 1..Len(rows)
    BY <1>2, EmptySeq, LenProperties DEF LogTypeOK
  <2>2. rows[Len(rows)] \in Row
    BY <2>1, ElementOfSeq DEF LogTypeOK
  <2> QED
    BY <1>2, <2>2 DEF NextId, Row
<1> QED
  BY <1>1, <1>2

\* The row that a thread commits is a row.
LEMMA NewRowType ==
    ASSUME LogTypeOK, LockFits, NEW t \in Threads, pc[t] = "commit"
    PROVE  NewRow(t) \in Row
<1>1. rowId[t] \in Nat \ {0}
  BY NextIdType DEF LockFits
<1>2. call[t] \in Call
  BY DEF LogTypeOK
<1> QED
  BY <1>1, <1>2 DEF NewRow, Row, Call

\* The file of the first process and the threads at its start are well typed.
LEMMA TypeInit == Init => LogTypeOK
<1> SUFFICES ASSUME Init PROVE LogTypeOK
  OBVIOUS
<1>1. OldRow \in Row
  BY DEF OldRow, Row, Asked
<1>2. rows \in Seq(Row)
  BY <1>1 DEF Init
<1>3. NoCall \in Call
  BY DEF NoCall, Call, Asked
<1> QED
  BY <1>2, <1>3, StoreAssumption DEF Init, LogTypeOK, PcValues

\* Every statement keeps the types.
LEMMA TypeStep == LogTypeOK /\ LockFits /\ [Next]_vars => LogTypeOK'
<1> SUFFICES ASSUME LogTypeOK, LockFits, [Next]_vars PROVE LogTypeOK'
  OBVIOUS
<1> USE DEF LogTypeOK
<1>1. ASSUME NEW t \in Threads, NEW request \in Asked, BeginSave(t, request) PROVE LogTypeOK'
  <2>1. [kind |-> "save", save |-> saves + 1, request |-> request, limit |-> 0] \in Call
    BY DEF Call
  <2>2. {<<s, saves + 1>> : s \in stored} \subseteq Nat \X Nat
    OBVIOUS
  <2> QED
    BY <1>1, <2>1, <2>2 DEF BeginSave, Begin, database, PcValues
<1>2. ASSUME NEW t \in Threads, NEW request \in Asked, NEW limit \in Limits,
             BeginRead(t, request, limit)
      PROVE  LogTypeOK'
  <2>1. [kind |-> "read", save |-> 0, request |-> request, limit |-> limit] \in Call
    BY StoreAssumption DEF Call
  <2> QED
    BY <1>2, <2>1 DEF BeginRead, Begin, database, PcValues
<1>3. ASSUME NEW t \in Threads, Connect(t) PROVE LogTypeOK'
  BY <1>3 DEF Connect, CreateTable, ReadColumns, AddColumn, CreateIndex, Goto, database,
              history, PcValues
<1>4. ASSUME NEW t \in Threads, Insert(t) PROVE LogTypeOK'
  <2>1. NextId \in Nat
    BY NextIdType
  <2> QED
    BY <1>4, <2>1 DEF Insert, Goto, history, PcValues
<1>5. ASSUME NEW t \in Threads, Commit(t) PROVE LogTypeOK'
  <2>1. NewRow(t) \in Row
    BY <1>5, NewRowType DEF Commit
  <2>2. Append(rows, NewRow(t)) \in Seq(Row)
    BY <2>1
  <2>3. call[t].save \in Nat
    BY DEF Call
  <2> QED
    BY <1>5, <2>2, <2>3 DEF Commit, Goto, PcValues
<1>6. ASSUME NEW t \in Threads, Read(t) PROVE LogTypeOK'
  BY <1>6 DEF Read, Goto, database, history, PcValues
<1>7. ASSUME NEW t \in Threads, Raise(t) PROVE LogTypeOK'
  <2>1. call[t].save \in Nat
    BY DEF Call
  <2> QED
    BY <1>7, <2>1 DEF Raise, Goto, PcValues
<1>8. ASSUME NEW t \in Threads, ThreadEnds(t) PROVE LogTypeOK'
  BY <1>8 DEF ThreadEnds, database, history
<1>9. CASE Restart
  <2>1. NoCall \in Call
    BY DEF NoCall, Call, Asked
  <2> QED
    BY <1>9, <2>1 DEF Restart, history, PcValues
<1>10. CASE UNCHANGED vars
  BY <1>10 DEF vars, database, threads, history
<1> QED
  BY <1>1, <1>2, <1>3, <1>4, <1>5, <1>6, <1>7, <1>8, <1>9, <1>10 DEF Next, Proceed

\* Nobody holds the lock at first.
LEMMA LockInit == Init => LockFits
BY StoreAssumption DEF Init, LockFits

\* One thread at a time is in a transaction, and the next id does not change while
\* it is.
LEMMA LockStep == LogTypeOK /\ LockFits /\ [Next]_vars => LockFits'
<1> SUFFICES ASSUME LogTypeOK, LockFits, [Next]_vars PROVE LockFits'
  OBVIOUS
<1> USE StoreAssumption DEF LockFits, LogTypeOK
<1>1. ASSUME NEW t \in Threads, NEW request \in Asked, BeginSave(t, request) PROVE LockFits'
  BY <1>1 DEF BeginSave, Begin, database, NextId
<1>2. ASSUME NEW t \in Threads, NEW request \in Asked, NEW limit \in Limits,
             BeginRead(t, request, limit)
      PROVE  LockFits'
  BY <1>2 DEF BeginRead, Begin, database, NextId
<1>3. ASSUME NEW t \in Threads, Connect(t) PROVE LockFits'
  BY <1>3 DEF Connect, CreateTable, ReadColumns, AddColumn, CreateIndex, Goto, database,
              NextId
<1>4. ASSUME NEW t \in Threads, Insert(t) PROVE LockFits'
  BY <1>4 DEF Insert, Goto, NextId
<1>5. ASSUME NEW t \in Threads, Commit(t) PROVE LockFits'
  BY <1>5 DEF Commit, Goto
<1>6. ASSUME NEW t \in Threads, Read(t) PROVE LockFits'
  BY <1>6 DEF Read, Goto, database, NextId
<1>7. ASSUME NEW t \in Threads, Raise(t) PROVE LockFits'
  BY <1>7 DEF Raise, Goto, NextId
<1>8. ASSUME NEW t \in Threads, ThreadEnds(t) PROVE LockFits'
  BY <1>8 DEF ThreadEnds, database, NextId
<1>9. CASE Restart
  BY <1>9 DEF Restart
<1>10. CASE UNCHANGED vars
  BY <1>10 DEF vars, database, threads, NextId
<1> QED
  BY <1>1, <1>2, <1>3, <1>4, <1>5, <1>6, <1>7, <1>8, <1>9, <1>10 DEF Next, Proceed

\* Types and lock together are inductive.
LEMMA LockInvariant == Spec => [](LogTypeOK /\ LockFits)
<1>1. LogTypeOK /\ LockFits /\ [Next]_vars => LogTypeOK' /\ LockFits'
  BY TypeStep, LockStep
<1> QED
  BY <1>1, TypeInit, LockInit, PTL DEF Spec
-----------------------------------------------------------------------------
(* Migration.                                                              *)

\* The strengthening: a thread at the index has seen or made the column.
MigrationFits ==
    /\ ConnectedIsMigrated
    /\ \A t \in Threads : pc[t] = "index" => table = "current"

\* Every statement leaves the table as the ones behind it expect it.
LEMMA MigrationStep == LogTypeOK /\ MigrationFits /\ [Next]_vars => MigrationFits'
<1> SUFFICES ASSUME LogTypeOK, MigrationFits, [Next]_vars PROVE MigrationFits'
  OBVIOUS
<1> USE DEF MigrationFits, ConnectedIsMigrated, LogTypeOK
<1>1. ASSUME NEW t \in Threads, NEW request \in Asked, BeginSave(t, request)
      PROVE  MigrationFits'
  BY <1>1 DEF BeginSave, Begin, database
<1>2. ASSUME NEW t \in Threads, NEW request \in Asked, NEW limit \in Limits,
             BeginRead(t, request, limit)
      PROVE  MigrationFits'
  BY <1>2 DEF BeginRead, Begin, database
<1>3. ASSUME NEW t \in Threads, CreateTable(t) PROVE MigrationFits'
  BY <1>3 DEF CreateTable, Goto
<1>4. ASSUME NEW t \in Threads, ReadColumns(t) PROVE MigrationFits'
  BY <1>4 DEF ReadColumns, Goto, database
<1>5. ASSUME NEW t \in Threads, AddColumn(t) PROVE MigrationFits'
  BY <1>5 DEF AddColumn, Goto
<1>6. ASSUME NEW t \in Threads, CreateIndex(t) PROVE MigrationFits'
  BY <1>6 DEF CreateIndex, Goto
<1>7. ASSUME NEW t \in Threads, Insert(t) \/ Commit(t) \/ Read(t) \/ Raise(t)
      PROVE  MigrationFits'
  BY <1>7 DEF Insert, Commit, Read, Raise, Goto, database
<1>8. ASSUME NEW t \in Threads, ThreadEnds(t) PROVE MigrationFits'
  BY <1>8 DEF ThreadEnds, database
<1>9. CASE Restart
  BY <1>9 DEF Restart
<1>10. CASE UNCHANGED vars
  BY <1>10 DEF vars, database, threads
<1> QED
  BY <1>1, <1>2, <1>3, <1>4, <1>5, <1>6, <1>7, <1>8, <1>9, <1>10
     DEF Next, Proceed, Connect

\* A connection that is kept has a complete table below it, also when several
\* threads migrate one old database and some of them fail (storage.py:77-90).
THEOREM ConnectedMigrated == Spec => []ConnectedIsMigrated
<1>1. Init => MigrationFits
  BY DEF Init, MigrationFits, ConnectedIsMigrated
<1>2. LogTypeOK /\ MigrationFits /\ [Next]_vars => MigrationFits'
  BY MigrationStep
<1>3. MigrationFits => ConnectedIsMigrated
  BY DEF MigrationFits
<1> QED
  BY <1>1, <1>2, <1>3, LockInvariant, PTL DEF Spec
-----------------------------------------------------------------------------
(* The log.                                                                *)

\* A row changes the log by a commit only.
LEMMA OnlyCommitWrites ==
    ASSUME [Next]_vars, ~ \E t \in Threads : Commit(t)
    PROVE  rows' = rows
<1>1. ASSUME NEW t \in Threads, Connect(t) PROVE rows' = rows
  BY <1>1 DEF Connect, CreateTable, ReadColumns, AddColumn, CreateIndex, database
<1>2. ASSUME NEW t \in Threads, Insert(t) \/ Read(t) \/ Raise(t) \/ ThreadEnds(t)
      PROVE  rows' = rows
  BY <1>2 DEF Insert, Read, Raise, ThreadEnds, database
<1>3. ASSUME NEW t \in Threads, NEW request \in Asked, BeginSave(t, request)
      PROVE  rows' = rows
  BY <1>3 DEF BeginSave, Begin, database
<1>4. ASSUME NEW t \in Threads, NEW request \in Asked, NEW limit \in Limits,
             BeginRead(t, request, limit)
      PROVE  rows' = rows
  BY <1>4 DEF BeginRead, Begin, database
<1>5. CASE Restart \/ UNCHANGED vars
  BY <1>5 DEF Restart, vars, database
<1> QED
  BY <1>1, <1>2, <1>3, <1>4, <1>5 DEF Next, Proceed

\* A commit leaves what is in the log where it is, and adds the thread's row.
LEMMA CommitAppends ==
    ASSUME LogTypeOK, LockFits, NEW t \in Threads, Commit(t)
    PROVE  /\ Len(rows') = Len(rows) + 1
           /\ DOMAIN rows = 1..Len(rows)
           /\ DOMAIN rows' = 1..(Len(rows) + 1)
           /\ \A i \in DOMAIN rows : rows'[i] = rows[i]
           /\ rows'[Len(rows) + 1] = NewRow(t)
           /\ Len(rows) \in Nat
<1>1. NewRow(t) \in Row
  BY NewRowType DEF Commit
<1> QED
  BY <1>1, AppendProperties, LenProperties DEF Commit, LogTypeOK

\* No statement, failure or restart takes a row away or changes one, whatever the
\* file held at first (storage.py:77-79).
THEOREM LogOnlyGrows == Spec => NothingIsDropped
<1>1. ASSUME LogTypeOK, LockFits, [Next]_vars
      PROVE  Len(rows) <= Len(rows') /\ \A i \in DOMAIN rows : rows'[i] = rows[i]
  <2>1. CASE \E t \in Threads : Commit(t)
    BY <1>1, <2>1, CommitAppends
  <2>2. CASE ~ \E t \in Threads : Commit(t)
    <3>1. rows' = rows
      BY <1>1, <2>2, OnlyCommitWrites
    <3>2. Len(rows) \in Nat
      BY <1>1, LenProperties DEF LogTypeOK
    <3> QED
      BY <3>1, <3>2
  <2> QED
    BY <2>1, <2>2
<1> QED
  BY <1>1, LockInvariant, PTL DEF Spec, NothingIsDropped

\* The next id exceeds that of every row.
LEMMA NextIdIsNew ==
    ASSUME LogTypeOK, IdsFollowCommits, NEW i \in DOMAIN rows
    PROVE  rows[i].id < NextId
<1>1. /\ DOMAIN rows = 1..Len(rows)
      /\ Len(rows) \in Nat
  BY LenProperties DEF LogTypeOK
<1>2. \A k \in DOMAIN rows : rows[k].id \in Nat
  <2>1. \A k \in DOMAIN rows : rows[k] \in Row
    BY <1>1, ElementOfSeq DEF LogTypeOK
  <2> QED
    BY <2>1 DEF Row
<1>3. Len(rows) \in DOMAIN rows
  BY <1>1
<1>4. rows # << >>
  BY <1>1
<1>5. rows[i].id <= rows[Len(rows)].id
  <2>1. CASE i = Len(rows)
    BY <1>2, <2>1
  <2>2. CASE i < Len(rows)
    BY <1>2, <1>3, <2>2 DEF IdsFollowCommits
  <2> QED
    BY <1>1, <2>1, <2>2
<1> QED
  BY <1>2, <1>3, <1>4, <1>5 DEF NextId

\* A commit writes the id its INSERT was given, and keeps the order.
LEMMA IdsStep ==
    LogTypeOK /\ LockFits /\ IdsFollowCommits /\ [Next]_vars => IdsFollowCommits'
<1> SUFFICES ASSUME LogTypeOK, LockFits, IdsFollowCommits, [Next]_vars
             PROVE  IdsFollowCommits'
  OBVIOUS
<1>1. ASSUME NEW t \in Threads, Commit(t) PROVE IdsFollowCommits'
  <2>1. /\ DOMAIN rows = 1..Len(rows)
        /\ DOMAIN rows' = 1..(Len(rows) + 1)
        /\ \A i \in DOMAIN rows : rows'[i] = rows[i]
        /\ rows'[Len(rows) + 1] = NewRow(t)
        /\ Len(rows) \in Nat
    BY <1>1, CommitAppends
  <2>2. NewRow(t).id = NextId
    BY <1>1 DEF LockFits, Commit, NewRow
  <2> SUFFICES ASSUME NEW i \in DOMAIN rows', NEW j \in DOMAIN rows', i < j
               PROVE  rows'[i].id < rows'[j].id
    BY DEF IdsFollowCommits
  <2>3. i \in DOMAIN rows
    BY <2>1
  <2>4. CASE j \in DOMAIN rows
    BY <2>1, <2>3, <2>4 DEF IdsFollowCommits
  <2>5. CASE j = Len(rows) + 1
    BY <2>1, <2>2, <2>3, <2>5, NextIdIsNew
  <2> QED
    BY <2>1, <2>4, <2>5
<1>2. CASE ~ \E t \in Threads : Commit(t)
  BY <1>2, OnlyCommitWrites DEF IdsFollowCommits
<1> QED
  BY <1>1, <1>2

\* ORDER BY id DESC is newest first: ids grow with the commits, for any number of
\* threads and restarts (storage.py:117).
THEOREM IdsOrdered == Spec => []IdsFollowCommits
<1>1. Init => IdsFollowCommits
  BY DEF Init, IdsFollowCommits
<1>2. LogTypeOK /\ LockFits /\ IdsFollowCommits /\ [Next]_vars => IdsFollowCommits'
  BY IdsStep
<1> QED
  BY <1>1, <1>2, LockInvariant, PTL DEF Spec
-----------------------------------------------------------------------------
(* Saves.                                                                  *)

SavingAs(t) == pc[t] # "idle" /\ call[t].kind = "save"

\* The strengthening: a row is of a save that returned, and a save under way is
\* of one thread and has no end yet.
SavesFit ==
    /\ SavesAreKept
    /\ \A i \in DOMAIN rows : rows[i].save \in stored
    /\ stored \cap refused = {}
    /\ \A s \in stored \cup refused : s <= saves
    /\ \A t \in Threads : SavingAs(t) =>
         /\ call[t].save \notin stored \cup refused
         /\ call[t].save <= saves
         /\ \A u \in Threads : SavingAs(u) /\ call[u].save = call[t].save => u = t
    /\ \A p \in earlier : p[1] \in stored

\* The event of an old file counts as a save that returned.
LEMMA SavesInit == Init => SavesFit
<1> SUFFICES ASSUME Init PROVE SavesFit
  OBVIOUS
<1> USE DEF Init, SavesFit, SavesAreKept, SavingAs
<1>1. CASE table = "absent"
  BY <1>1
<1>2. CASE table # "absent"
  <2>1. /\ rows = << OldRow >>
        /\ stored = {0}
    BY <1>2
  <2> QED
    BY <2>1 DEF OldRow
<1> QED
  BY <1>1, <1>2

\* A save that begins is new, and later than those that had returned.
LEMMA BeginSaveFits ==
    ASSUME LogTypeOK, SavesFit, NEW t \in Threads, NEW request \in Asked,
           BeginSave(t, request)
    PROVE  SavesFit'
<1> DEFINE c == [kind |-> "save", save |-> saves + 1, request |-> request, limit |-> 0]
<1>1. /\ rows' = rows
      /\ stored' = stored
      /\ refused' = refused
      /\ saves' = saves + 1
      /\ earlier' = earlier \cup {<<s, saves + 1>> : s \in stored}
      /\ pc[t] = "idle"
      /\ call' = [call EXCEPT ![t] = c]
      /\ \E label \in PcValues : label # "idle" /\ pc' = [pc EXCEPT ![t] = label]
  BY DEF BeginSave, Begin, database, PcValues
<1>2. /\ saves \in Nat
      /\ stored \subseteq Nat
      /\ refused \subseteq Nat
      /\ pc \in [Threads -> PcValues]
      /\ call \in [Threads -> Call]
  BY DEF LogTypeOK
<1>3. saves + 1 \notin stored \cup refused
  BY <1>2 DEF SavesFit
<1>4. SavesAreKept'
  <2>1. \A i, j \in DOMAIN rows :
          <<rows[i].save, rows[j].save>> \in earlier' => <<rows[i].save, rows[j].save>> \in earlier
    <3> SUFFICES ASSUME NEW i \in DOMAIN rows, NEW j \in DOMAIN rows,
                        <<rows[i].save, rows[j].save>> \in {<<s, saves + 1>> : s \in stored}
                 PROVE  FALSE
      BY <1>1
    <3>1. rows[j].save = saves + 1
      OBVIOUS
    <3>2. rows[j].save \in stored
      BY DEF SavesFit
    <3> QED
      BY <1>3, <3>1, <3>2
  <2> QED
    BY <1>1, <2>1 DEF SavesFit, SavesAreKept
<1>5. \A u \in Threads : SavingAs(u)' =>
         /\ call'[u].save \notin stored' \cup refused'
         /\ call'[u].save <= saves'
         /\ \A v \in Threads : SavingAs(v)' /\ call'[v].save = call'[u].save => v = u
  <2>1. call'[t].save = saves + 1
    BY <1>1, <1>2
  <2>2. \A u \in Threads \ {t} : SavingAs(u)' =>
          SavingAs(u) /\ call'[u].save = call[u].save /\ call[u].save <= saves
    BY <1>1, <1>2 DEF SavingAs, SavesFit
  <2>3. \A u \in Threads : call[u].save \in Nat
    BY <1>2 DEF Call
  <2> QED
    BY <1>1, <1>2, <1>3, <2>1, <2>2, <2>3 DEF SavesFit
<1>6. \A p \in earlier' : p[1] \in stored'
  BY <1>1 DEF SavesFit
<1>7. \A s \in stored' \cup refused' : s <= saves'
  BY <1>1, <1>2 DEF SavesFit
<1> QED
  BY <1>1, <1>4, <1>5, <1>6, <1>7 DEF SavesFit

\* A commit adds the only row of its save, behind those of all earlier ones.
LEMMA CommitFits ==
    ASSUME LogTypeOK, LockFits, SavesFit, NEW t \in Threads, Commit(t)
    PROVE  SavesFit'
<1> DEFINE s == call[t].save
           n == Len(rows) + 1
<1>1. /\ stored' = stored \cup {s}
      /\ refused' = refused
      /\ saves' = saves
      /\ earlier' = earlier
      /\ call' = call
      /\ pc' = [pc EXCEPT ![t] = "idle"]
      /\ pc[t] = "commit"
  BY DEF Commit, Goto
<1>2. /\ DOMAIN rows = 1..Len(rows)
      /\ DOMAIN rows' = 1..n
      /\ \A i \in DOMAIN rows : rows'[i] = rows[i]
      /\ rows'[n].save = s
      /\ Len(rows) \in Nat
  <2>1. NewRow(t).save = s
    BY DEF NewRow
  <2> HIDE DEF s
  <2> QED
    BY <2>1, CommitAppends
<1>3. SavingAs(t)
  BY <1>1 DEF SavingAs, LockFits
<1>4. /\ s \notin stored \cup refused
      /\ s <= saves
  BY <1>3 DEF SavesFit
<1>5. \A i \in DOMAIN rows : rows[i].save \in stored /\ rows[i].save # s
  BY <1>4 DEF SavesFit
<1>6. SavesAreKept'
  <2>1. \A r \in stored' : \E i \in DOMAIN rows' : rows'[i].save = r
    <3> SUFFICES ASSUME NEW r \in stored' PROVE \E i \in DOMAIN rows' : rows'[i].save = r
      OBVIOUS
    <3>1. CASE r = s
      BY <1>2, <3>1
    <3>2. CASE r \in stored
      <4>1. PICK i \in DOMAIN rows : rows[i].save = r
        BY <3>2 DEF SavesFit, SavesAreKept
      <4>2. i \in DOMAIN rows'
        BY <1>2
      <4> QED
        BY <1>2, <4>1, <4>2
    <3> QED
      BY <1>1, <3>1, <3>2
  <2>2. \A i \in DOMAIN rows' : rows'[i].save \notin refused'
    <3> SUFFICES ASSUME NEW i \in DOMAIN rows' PROVE rows'[i].save \notin refused'
      OBVIOUS
    <3>1. CASE i = n
      BY <1>1, <1>2, <1>4, <3>1
    <3>2. CASE i \in DOMAIN rows
      BY <1>1, <1>2, <3>2 DEF SavesFit, SavesAreKept
    <3> QED
      BY <1>2, <3>1, <3>2
  <2>3. ASSUME NEW i \in DOMAIN rows', NEW j \in DOMAIN rows'
        PROVE  /\ rows'[i].save = rows'[j].save => i = j
               /\ <<rows'[i].save, rows'[j].save>> \in earlier' => i < j
    <3>1. CASE i \in DOMAIN rows /\ j \in DOMAIN rows
      BY <1>1, <1>2, <3>1 DEF SavesFit, SavesAreKept
    <3>2. CASE i \in DOMAIN rows /\ j = n
      BY <1>2, <1>5, <3>2
    <3>3. CASE i = n
      <4>1. <<s, rows'[j].save>> \notin earlier
        BY <1>4 DEF SavesFit
      <4>2. j \in DOMAIN rows => rows'[j].save # s
        BY <1>2, <1>5
      <4> QED
        BY <1>1, <1>2, <3>3, <4>1, <4>2
    <3> QED
      BY <1>2, <3>1, <3>2, <3>3
  <2> QED
    BY <2>1, <2>2, <2>3 DEF SavesAreKept
<1>7. \A i \in DOMAIN rows' : rows'[i].save \in stored'
  BY <1>1, <1>2, <1>5
<1>8. stored' \cap refused' = {} /\ \A r \in stored' \cup refused' : r <= saves'
  BY <1>1, <1>4 DEF SavesFit
<1>9. \A u \in Threads : SavingAs(u)' =>
         /\ call'[u].save \notin stored' \cup refused'
         /\ call'[u].save <= saves'
         /\ \A v \in Threads : SavingAs(v)' /\ call'[v].save = call'[u].save => v = u
  <2>1. \A u \in Threads : SavingAs(u)' => SavingAs(u) /\ u # t
    BY <1>1 DEF SavingAs, LogTypeOK
  <2> QED
    BY <1>1, <1>3, <2>1 DEF SavesFit
<1>10. \A p \in earlier' : p[1] \in stored'
  BY <1>1 DEF SavesFit
<1> QED
  BY <1>6, <1>7, <1>8, <1>9, <1>10 DEF SavesFit

\* A save that raises leaves no row.
LEMMA RaiseFits ==
    ASSUME LogTypeOK, SavesFit, NEW t \in Threads, Raise(t)
    PROVE  SavesFit'
<1>1. /\ rows' = rows
      /\ stored' = stored
      /\ saves' = saves
      /\ earlier' = earlier
      /\ call' = call
      /\ pc' = [pc EXCEPT ![t] = "idle"]
      /\ pc[t] # "idle"
      /\ refused' = IF SavingAs(t) THEN refused \cup {call[t].save} ELSE refused
  BY DEF Raise, Goto, SavingAs
<1>2. \A u \in Threads : SavingAs(u)' => SavingAs(u) /\ u # t
  BY <1>1 DEF SavingAs, LogTypeOK
<1>3. CASE SavingAs(t)
  <2>1. call[t].save \notin stored /\ call[t].save <= saves
    BY <1>3 DEF SavesFit
  <2>2. \A i \in DOMAIN rows : rows[i].save # call[t].save
    BY <2>1 DEF SavesFit
  <2>3. SavesAreKept'
    BY <1>1, <1>3, <2>2 DEF SavesFit, SavesAreKept
  <2> QED
    BY <1>1, <1>2, <1>3, <2>1, <2>3 DEF SavesFit
<1>4. CASE ~SavingAs(t)
  BY <1>1, <1>2, <1>4 DEF SavesFit, SavesAreKept
<1> QED
  BY <1>3, <1>4

\* Every step keeps the account of the saves.
LEMMA SavesStep ==
    LogTypeOK /\ LockFits /\ SavesFit /\ [Next]_vars => SavesFit'
<1> SUFFICES ASSUME LogTypeOK, LockFits, SavesFit, [Next]_vars PROVE SavesFit'
  OBVIOUS
<1> USE DEF LogTypeOK
<1>1. ASSUME NEW t \in Threads, NEW request \in Asked, BeginSave(t, request) PROVE SavesFit'
  BY <1>1, BeginSaveFits
<1>2. ASSUME NEW t \in Threads, Commit(t) PROVE SavesFit'
  BY <1>2, CommitFits
<1>3. ASSUME NEW t \in Threads, Raise(t) PROVE SavesFit'
  BY <1>3, RaiseFits
<1>4. ASSUME UNCHANGED <<rows, saves, stored, refused, earlier>>,
             \A u \in Threads : SavingAs(u)' => SavingAs(u) /\ call'[u].save = call[u].save
      PROVE  SavesFit'
  BY <1>4 DEF SavesFit, SavesAreKept
<1>5. ASSUME NEW t \in Threads, NEW request \in Asked, NEW limit \in Limits,
             BeginRead(t, request, limit)
      PROVE  SavesFit'
  BY <1>4, <1>5 DEF BeginRead, Begin, SavingAs, database
<1>6. ASSUME NEW t \in Threads, Connect(t) PROVE SavesFit'
  BY <1>4, <1>6 DEF Connect, CreateTable, ReadColumns, AddColumn, CreateIndex, Goto, SavingAs,
                    database, history
<1>7. ASSUME NEW t \in Threads, Insert(t) \/ Read(t) \/ ThreadEnds(t) PROVE SavesFit'
  BY <1>4, <1>7 DEF Insert, Read, ThreadEnds, Goto, SavingAs, database, history
<1>8. CASE Restart
  BY <1>4, <1>8 DEF Restart, SavingAs, history
<1>9. CASE UNCHANGED vars
  BY <1>4, <1>9 DEF vars, database, threads, history, SavingAs
<1> QED
  BY <1>1, <1>2, <1>3, <1>5, <1>6, <1>7, <1>8, <1>9 DEF Next, Proceed

\* A save that returned has its one row, one that raised has none, and rows are in
\* an order that respects who was saved before whom began (storage.py:93-103).
THEOREM SavesKept == Spec => []SavesAreKept
<1>1. LogTypeOK /\ LockFits /\ SavesFit /\ [Next]_vars => SavesFit'
  BY SavesStep
<1>2. SavesFit => SavesAreKept
  BY DEF SavesFit
<1> QED
  BY <1>1, <1>2, SavesInit, LockInvariant, PTL DEF Spec
-----------------------------------------------------------------------------
(* Reads.                                                                  *)

\* What a selection returns is sorted, of the places it selects from, and leaves
\* out older rows only, and those only at the limit.
IsNewest(found, places, limit) ==
    /\ \A i, j \in DOMAIN found : i < j => found[i].id > found[j].id
    /\ \A i \in DOMAIN found : \E k \in places : found[i] = rows[k]
    /\ limit >= 0 => Len(found) <= limit
    /\ \A k \in places :
         \/ \E i \in DOMAIN found : found[i] = rows[k]
         \/ Len(found) = limit /\ \A i \in DOMAIN found : found[i].id > rows[k].id

\* How many rows a selection returns.
Picked(places, limit) ==
    IF limit < 0 \/ limit > Cardinality(places) THEN Cardinality(places) ELSE limit

\* Selecting by rank takes the last places, because ids follow the positions in the
\* log.
LEMMA NewestPlaces ==
    ASSUME LogTypeOK, IdsFollowCommits, NEW places \in SUBSET DOMAIN rows, NEW limit \in Int
    PROVE  LET size == Picked(places, limit)
           IN  /\ size \in 0..Cardinality(places)
               /\ \E p \in [1..size -> places] :
                     /\ NewestFirst(places, limit) = [k \in 1..size |-> rows[p[k]]]
                     /\ \A i, j \in 1..size : i < j => p[i] > p[j]
                     /\ \A q \in places : (\A i \in 1..size : p[i] # q) =>
                           size = limit /\ \A i \in 1..size : p[i] > q
<1> DEFINE n == Cardinality(places)
           size == Picked(places, limit)
           newer(i) == {j \in places : rows[j].id > rows[i].id}
           place(k) == CHOOSE i \in places : Cardinality(newer(i)) = k - 1
           p == [k \in 1..size |-> place(k)]
<1>1. /\ DOMAIN rows = 1..Len(rows)
      /\ Len(rows) \in Nat
      /\ \A i \in DOMAIN rows : rows[i] \in Row
  BY LenProperties, ElementOfSeq DEF LogTypeOK
<1>2. \A i \in DOMAIN rows : rows[i].id \in Int
  BY <1>1 DEF Row
<1>3. \A i, j \in places : rows[j].id > rows[i].id <=> j > i
  <2> SUFFICES ASSUME NEW i \in places, NEW j \in places
               PROVE  rows[j].id > rows[i].id <=> j > i
    OBVIOUS
  <2>1. i \in Int /\ j \in Int /\ rows[i].id \in Int /\ rows[j].id \in Int
    BY <1>1, <1>2
  <2>2. /\ i < j => rows[i].id < rows[j].id
        /\ j < i => rows[j].id < rows[i].id
    BY DEF IdsFollowCommits
  <2> QED
    BY <2>1, <2>2
<1>4. places \in SUBSET Int /\ IsFiniteSet(places) /\ n \in Nat
  <2>1. IsFiniteSet(1..Len(rows))
    BY <1>1, FS_Interval
  <2>2. IsFiniteSet(places)
    BY <1>1, <2>1, FS_Subset
  <2> QED
    BY <1>1, <2>2, FS_CardinalityType
<1>5. \A i \in places : newer(i) = Above(places, i)
  BY <1>3 DEF Above
<1>6. size \in 0..n /\ (size = n \/ size = limit)
  BY <1>4 DEF Picked
<1>7. \A k \in 1..size : place(k) \in places /\ Cardinality(Above(places, place(k))) = k - 1
  <2> SUFFICES ASSUME NEW k \in 1..size
               PROVE  /\ place(k) \in places
                      /\ Cardinality(Above(places, place(k))) = k - 1
    OBVIOUS
  <2>1. k - 1 \in 0..(n - 1)
    BY <1>4, <1>6
  <2>2. PICK i \in places : Cardinality(Above(places, i)) = k - 1
    BY <1>4, <2>1, RankTaken
  <2>3. Cardinality(newer(i)) = k - 1
    BY <1>5, <2>2
  <2> HIDE DEF newer
  <2>4. place(k) \in places /\ Cardinality(newer(place(k))) = k - 1
    BY <2>3
  <2> QED
    BY <1>5, <2>4
<1>8. NewestFirst(places, limit) = [k \in 1..size |-> rows[p[k]]]
  BY DEF NewestFirst, Picked
<1> HIDE DEF size, place
<1>9. /\ p \in [1..size -> places]
      /\ \A k \in 1..size : p[k] = place(k)
  BY <1>7
<1> HIDE DEF p
<1>10. ASSUME NEW i \in 1..size, NEW j \in 1..size, i < j
       PROVE  p[i] > p[j]
  <2>1. /\ p[i] \in places /\ p[j] \in places
        /\ Cardinality(Above(places, p[i])) < Cardinality(Above(places, p[j]))
    BY <1>6, <1>7, <1>9, <1>10
  <2>2. p[i] \in Int /\ p[j] \in Int
    BY <1>4, <2>1
  <2>3. p[i] # p[j]
    BY <1>6, <1>7, <1>9, <1>10
  <2>4. ~(p[i] < p[j])
    BY <1>4, <2>1, FewerAbove, RankBound
  <2> QED
    BY <2>2, <2>3, <2>4
<1>11. ASSUME NEW q \in places, \A i \in 1..size : p[i] # q
       PROVE  size = limit /\ \A i \in 1..size : p[i] > q
  <2> DEFINE rank == Cardinality(Above(places, q))
  <2>1. rank \in 0..(n - 1)
    BY <1>4, RankBound
  <2> HIDE DEF rank
  <2>2. rank >= size
    <3> SUFFICES ASSUME rank < size PROVE FALSE
      BY <1>6, <2>1
    <3>1. rank + 1 \in 1..size /\ (rank + 1) - 1 = rank
      BY <1>6, <2>1
    <3>2. place(rank + 1) = q
      BY <1>4, <1>7, <3>1, RankIsOne DEF rank
    <3> QED
      BY <1>9, <1>11, <3>1, <3>2
  <2>3. size = limit
    BY <1>4, <1>6, <2>1, <2>2
  <2>4. ASSUME NEW i \in 1..size PROVE p[i] > q
    <3>1. p[i] \in places /\ Cardinality(Above(places, p[i])) = i - 1 /\ i - 1 < rank
      BY <1>6, <1>7, <1>9, <2>1, <2>2
    <3>2. ~(p[i] < q) /\ p[i] # q
      BY <1>4, <1>6, <2>1, <3>1, FewerAbove DEF rank
    <3> QED
      BY <1>4, <3>1, <3>2
  <2> QED
    BY <2>3, <2>4
<1> QED
  BY <1>6, <1>8, <1>9, <1>10, <1>11 DEF size

\* So it is the newest rows, newest first.
LEMMA NewestFirstIsNewest ==
    ASSUME LogTypeOK, IdsFollowCommits, NEW places \in SUBSET DOMAIN rows, NEW limit \in Int
    PROVE  /\ NewestFirst(places, limit) \in Seq(Row)
           /\ IsNewest(NewestFirst(places, limit), places, limit)
<1> DEFINE size == Picked(places, limit)
           found == NewestFirst(places, limit)
<1>1. /\ DOMAIN rows = 1..Len(rows)
      /\ Len(rows) \in Nat
      /\ \A i \in DOMAIN rows : rows[i] \in Row
  BY LenProperties, ElementOfSeq DEF LogTypeOK
<1>2. Cardinality(places) \in Nat
  <2>1. IsFiniteSet(1..Len(rows))
    BY <1>1, FS_Interval
  <2> QED
    BY <1>1, <2>1, FS_Subset, FS_CardinalityType
<1>3. size \in Nat /\ (limit >= 0 => size <= limit)
  BY <1>2 DEF Picked
<1>4. PICK p \in [1..size -> places] :
         /\ found = [k \in 1..size |-> rows[p[k]]]
         /\ \A i, j \in 1..size : i < j => p[i] > p[j]
         /\ \A q \in places : (\A i \in 1..size : p[i] # q) =>
               size = limit /\ \A i \in 1..size : p[i] > q
  BY NewestPlaces
<1> HIDE DEF size, found
<1>5. /\ DOMAIN found = 1..size
      /\ Len(found) = size
      /\ found \in Seq(Row)
      /\ \A k \in 1..size : found[k] = rows[p[k]] /\ p[k] \in places
  <2>1. \A k \in 1..size : rows[p[k]] \in Row
    BY <1>1, <1>4
  <2> QED
    BY <1>3, <1>4, <2>1
<1>6. \A i, j \in places : i > j => rows[i].id > rows[j].id
  <2> SUFFICES ASSUME NEW i \in places, NEW j \in places, i > j
               PROVE  rows[i].id > rows[j].id
    OBVIOUS
  <2>1. i \in Int /\ j \in Int /\ rows[i].id \in Int /\ rows[j].id \in Int
    BY <1>1 DEF Row
  <2> QED
    BY <2>1 DEF IdsFollowCommits
<1>7. \A i, j \in DOMAIN found : i < j => found[i].id > found[j].id
  BY <1>4, <1>5, <1>6
<1>8. ASSUME NEW k \in places
      PROVE  \/ \E i \in DOMAIN found : found[i] = rows[k]
             \/ Len(found) = limit /\ \A i \in DOMAIN found : found[i].id > rows[k].id
  BY <1>4, <1>5, <1>6
<1>9. \A i \in DOMAIN found : \E k \in places : found[i] = rows[k]
  BY <1>5
<1> QED
  BY <1>3, <1>5, <1>7, <1>8, <1>9 DEF IsNewest, found

\* The rest of the types, and what a thread knew when it was called.
AnswersFit ==
    /\ answer \in [Threads -> Seq(Row)]
    /\ known \in [Threads -> SUBSET Nat]
    /\ restarts \in Nat
    /\ \A t \in Threads : known[t] \subseteq stored

\* Nothing is known and nothing answered at first.
LEMMA AnswersInit == Init => AnswersFit /\ ReadIsRecent
BY DEF Init, AnswersFit, ReadIsRecent

\* What a read selects are rows.
LEMMA SelectFits ==
    ASSUME LogTypeOK, IdsFollowCommits, NEW t \in Threads
    PROVE  LET limit == Effective(call[t].limit)
               places == {i \in DOMAIN rows : Matches(rows[i], call[t].request)}
               found == Select(call[t].request, limit)
           IN  found \in Seq(Row) /\ IsNewest(found, places, limit)
<1> DEFINE limit == Effective(call[t].limit)
           places == {i \in DOMAIN rows : Matches(rows[i], call[t].request)}
<1>1. limit \in Int
  BY StoreAssumption DEF LogTypeOK, Call, Effective
<1>2. places \in SUBSET DOMAIN rows
  OBVIOUS
<1> HIDE DEF limit, places
<1>3. NewestFirst(places, limit) \in Seq(Row) /\ IsNewest(NewestFirst(places, limit), places, limit)
  BY <1>1, <1>2, NewestFirstIsNewest
<1> QED
  BY <1>3 DEF Select, limit, places

\* Every step keeps them.
LEMMA AnswersStep ==
    LogTypeOK /\ IdsFollowCommits /\ AnswersFit /\ [Next]_vars => AnswersFit'
<1> SUFFICES ASSUME LogTypeOK, IdsFollowCommits, AnswersFit, [Next]_vars PROVE AnswersFit'
  OBVIOUS
<1> USE DEF AnswersFit
<1>1. ASSUME NEW t \in Threads, NEW c, Begin(t, c) PROVE AnswersFit'
  BY <1>1 DEF Begin, LogTypeOK
<1>2. ASSUME NEW t \in Threads, Connect(t) PROVE AnswersFit'
  BY <1>2 DEF Connect, CreateTable, ReadColumns, AddColumn, CreateIndex, history
<1>3. ASSUME NEW t \in Threads, Insert(t) \/ Commit(t) \/ Raise(t) \/ ThreadEnds(t)
      PROVE  AnswersFit'
  BY <1>3 DEF Insert, Commit, Raise, ThreadEnds, history
<1>4. ASSUME NEW t \in Threads, Read(t) PROVE AnswersFit'
  BY <1>4, SelectFits DEF Read, history
<1>5. CASE Restart
  BY <1>5 DEF Restart, history
<1>6. CASE UNCHANGED vars
  BY <1>6 DEF vars, threads, history
<1> QED
  BY <1>1, <1>2, <1>3, <1>4, <1>5, <1>6 DEF Next, Proceed, BeginSave, BeginRead

\* An answer stays right while the log grows behind it.
LEMMA RecentStep ==
    ASSUME LogTypeOK, LockFits, IdsFollowCommits, SavesFit, AnswersFit, ReadIsRecent,
           [Next]_vars
    PROVE  ReadIsRecent'
<1> DEFINE Answered(t) == call[t].kind = "read" /\ result[t] = "ok"
           Same(t) == /\ Answered(t)' => Answered(t)
                      /\ Answered(t)' => UNCHANGED <<call[t], answer[t], known[t]>>
<1> USE DEF LogTypeOK
<1>1. ASSUME rows' = rows, \A t \in Threads : Same(t) PROVE ReadIsRecent'
  BY <1>1 DEF ReadIsRecent, Matches
<1>2. ASSUME NEW t \in Threads, NEW c, Begin(t, c) PROVE ReadIsRecent'
  <2>1. rows' = rows /\ \A u \in Threads : Same(u)
    BY <1>2 DEF Begin, database, AnswersFit
  <2> QED
    BY <1>1, <2>1
<1>3. ASSUME NEW t \in Threads, Connect(t) \/ Insert(t) \/ ThreadEnds(t) PROVE ReadIsRecent'
  <2>1. rows' = rows /\ \A u \in Threads : Same(u)
    BY <1>3 DEF Connect, CreateTable, ReadColumns, AddColumn, CreateIndex, Insert, ThreadEnds,
                database, history
  <2> QED
    BY <1>1, <2>1
<1>4. ASSUME NEW t \in Threads, Raise(t) PROVE ReadIsRecent'
  <2>1. rows' = rows /\ \A u \in Threads : Same(u)
    BY <1>4 DEF Raise
  <2> QED
    BY <1>1, <2>1
<1>5. CASE Restart
  <2>1. rows' = rows /\ \A u \in Threads : Same(u)
    BY <1>5 DEF Restart, NoCall
  <2> QED
    BY <1>1, <2>1
<1>6. CASE UNCHANGED vars
  <2>1. rows' = rows /\ \A u \in Threads : Same(u)
    BY <1>6 DEF vars, database, threads, history
  <2> QED
    BY <1>1, <2>1
<1>7. ASSUME NEW t \in Threads, Commit(t) PROVE ReadIsRecent'
  <2>1. \A u \in Threads : Same(u)
    BY <1>7 DEF Commit, LockFits
  <2>2. /\ DOMAIN rows' = DOMAIN rows \cup {Len(rows) + 1}
        /\ \A i \in DOMAIN rows : rows'[i] = rows[i]
        /\ rows'[Len(rows) + 1].save = call[t].save
    <3>1. NewRow(t).save = call[t].save
      BY DEF NewRow
    <3>2. /\ DOMAIN rows = 1..Len(rows)
          /\ DOMAIN rows' = 1..(Len(rows) + 1)
          /\ \A i \in DOMAIN rows : rows'[i] = rows[i]
          /\ rows'[Len(rows) + 1] = NewRow(t)
          /\ Len(rows) \in Nat
      BY <1>7, CommitAppends
    <3> QED
      BY <3>1, <3>2
  <2>3. call[t].save \notin stored
    BY <1>7 DEF SavesFit, SavingAs, LockFits, Commit
  <2>4. \A u \in Threads : call[t].save \notin known[u]
    BY <2>3 DEF AnswersFit
  <2> SUFFICES ASSUME NEW u \in Threads, Answered(u)'
               PROVE  LET found == answer'[u]
                          limit == Effective(call'[u].limit)
                      IN  /\ \A i, j \in DOMAIN found : i < j => found[i].id > found[j].id
                          /\ \A i \in DOMAIN found : Matches(found[i], call'[u].request)
                          /\ limit >= 0 => Len(found) <= limit
                          /\ \A k \in DOMAIN rows' :
                               \/ rows'[k].save \notin known'[u]
                               \/ ~Matches(rows'[k], call'[u].request)
                               \/ \E i \in DOMAIN found : found[i] = rows'[k]
                               \/ Len(found) = limit
                                  /\ \A i \in DOMAIN found : found[i].id > rows'[k].id
    BY DEF ReadIsRecent
  <2>5. Answered(u) /\ UNCHANGED <<call[u], answer[u], known[u]>>
    BY <2>1
  <2> QED
    BY <2>2, <2>4, <2>5 DEF ReadIsRecent
<1>8. ASSUME NEW t \in Threads, Read(t) PROVE ReadIsRecent'
  <2> DEFINE limit == Effective(call[t].limit)
             places == {i \in DOMAIN rows : Matches(rows[i], call[t].request)}
             found == Select(call[t].request, limit)
  <2>1. /\ rows' = rows /\ call' = call /\ known' = known
        /\ answer' = [answer EXCEPT ![t] = found]
        /\ result' = [result EXCEPT ![t] = "ok"]
    BY <1>8 DEF Read, database, history
  <2>2. answer'[t] = found
    BY <2>1 DEF AnswersFit
  <2>3. \A u \in Threads \ {t} : Same(u)
    BY <2>1
  <2>4. IsNewest(found, places, limit)
    BY SelectFits
  <2>5. /\ \A i, j \in DOMAIN found : i < j => found[i].id > found[j].id
        /\ \A i \in DOMAIN found : Matches(found[i], call[t].request)
        /\ limit >= 0 => Len(found) <= limit
        /\ \A k \in DOMAIN rows :
             \/ ~Matches(rows[k], call[t].request)
             \/ \E i \in DOMAIN found : found[i] = rows[k]
             \/ Len(found) = limit /\ \A i \in DOMAIN found : found[i].id > rows[k].id
    BY <2>4 DEF IsNewest
  <2> HIDE DEF found
  <2> QED
    BY <2>1, <2>2, <2>3, <2>5 DEF ReadIsRecent, Matches
<1> QED
  BY <1>2, <1>3, <1>4, <1>5, <1>6, <1>7, <1>8 DEF Next, Proceed, BeginSave, BeginRead

\* All of it together is inductive.
LEMMA StoreInvariant == Spec => [](IdsFollowCommits /\ SavesFit /\ AnswersFit /\ ReadIsRecent)
<1>1. Init => IdsFollowCommits
  BY DEF Init, IdsFollowCommits
<1>2. ASSUME LogTypeOK, LockFits, IdsFollowCommits, SavesFit, AnswersFit, ReadIsRecent,
             [Next]_vars
      PROVE  IdsFollowCommits' /\ SavesFit' /\ AnswersFit' /\ ReadIsRecent'
  BY <1>2, IdsStep, SavesStep, AnswersStep, RecentStep
<1> QED
  BY <1>1, <1>2, SavesInit, AnswersInit, LockInvariant, PTL DEF Spec

\* The log, the threads and what they return are well typed in every state.
THEOREM StoreTypeCorrect == Spec => []TypeOK
<1>1. LogTypeOK /\ AnswersFit => TypeOK
  BY DEF LogTypeOK, AnswersFit, TypeOK
<1> QED
  BY <1>1, LockInvariant, StoreInvariant, PTL

\* A read returns the newest rows of the request it was asked for, newest first, up
\* to the limit, and everything that was saved before it began unless the limit was
\* used up, however many threads save meanwhile (storage.py:106-122).
THEOREM ReadsAreRecent == Spec => []ReadIsRecent
BY StoreInvariant, PTL
-----------------------------------------------------------------------------
(* The log that callers see.                                               *)

\* A thread that is inside a call was called for something.
CallsFit == \A t \in Threads : pc[t] # "idle" => call[t].kind \in {"save", "read"}

\* What callers see of the database and the threads.
SeenLog == [i \in DOMAIN rows |-> EventOf(rows[i])]
Waiting == [t \in Threads |-> Waits(t)]
Told    == [t \in Threads |-> Seen(t)]

\* Calls are well formed at first, and every step keeps them so.
LEMMA CallsStep == LogTypeOK /\ CallsFit /\ [Next]_vars => CallsFit'
<1> SUFFICES ASSUME LogTypeOK, CallsFit, [Next]_vars PROVE CallsFit'
  OBVIOUS
<1> USE DEF CallsFit, LogTypeOK
<1>1. ASSUME NEW t \in Threads, NEW c, c.kind \in {"save", "read"}, Begin(t, c)
      PROVE  CallsFit'
  BY <1>1 DEF Begin
<1>2. ASSUME NEW t \in Threads, NEW request \in Asked, BeginSave(t, request)
      PROVE  CallsFit'
  BY <1>1, <1>2 DEF BeginSave
<1>3. ASSUME NEW t \in Threads, NEW request \in Asked, NEW limit \in Limits,
             BeginRead(t, request, limit)
      PROVE  CallsFit'
  BY <1>1, <1>3 DEF BeginRead
<1>4. ASSUME NEW t \in Threads, pc[t] # "idle", call' = call,
             \E label \in PcValues : pc' = [pc EXCEPT ![t] = label]
      PROVE  CallsFit'
  BY <1>4
<1>5. ASSUME NEW t \in Threads, Connect(t) PROVE CallsFit'
  BY <1>4, <1>5 DEF Connect, CreateTable, ReadColumns, AddColumn, CreateIndex, Goto, PcValues
<1>6. ASSUME NEW t \in Threads, Insert(t) \/ Commit(t) \/ Read(t) \/ Raise(t)
      PROVE  CallsFit'
  BY <1>4, <1>6 DEF Insert, Commit, Read, Raise, Goto, PcValues
<1>7. ASSUME NEW t \in Threads, ThreadEnds(t) PROVE CallsFit'
  BY <1>7 DEF ThreadEnds
<1>8. CASE Restart \/ UNCHANGED vars
  BY <1>8 DEF Restart, vars, threads
<1> QED
  BY <1>2, <1>3, <1>5, <1>6, <1>7, <1>8 DEF Next, Proceed

\* A commit is the instant of a save.
LEMMA CommitRecords ==
    ASSUME LogTypeOK, LockFits, CallsFit, NEW t \in Threads, Commit(t)
    PROVE  Log!Record(t)
<1>1. /\ pc[t] = "commit" /\ call[t].kind = "save" /\ call[t] # NoCall
      /\ call' = call /\ answer' = answer
      /\ pc' = [pc EXCEPT ![t] = "idle"]
      /\ result' = [result EXCEPT ![t] = "ok"]
  BY DEF Commit, Goto, LockFits, NoCall
<1>2. SeenLog' = Append(SeenLog, [save |-> call[t].save, request |-> call[t].request])
  <2> DEFINE event == [save |-> call[t].save, request |-> call[t].request]
             Events == {EventOf(rows[i]) : i \in DOMAIN rows} \cup {event}
             n == Len(rows)
  <2>1. /\ n \in Nat
        /\ DOMAIN rows = 1..n
        /\ DOMAIN rows' = 1..(n + 1)
        /\ \A i \in 1..n : rows'[i] = rows[i]
        /\ rows'[n + 1] = NewRow(t)
    BY CommitAppends
  <2>2. EventOf(NewRow(t)) = event
    BY DEF EventOf, NewRow
  <2> HIDE DEF n, event
  <2>3. SeenLog \in Seq(Events) /\ Len(SeenLog) = n /\ event \in Events
    BY <2>1 DEF SeenLog
  <2> HIDE DEF Events
  <2>4. /\ Append(SeenLog, event) \in Seq(Events)
        /\ Len(Append(SeenLog, event)) = n + 1
        /\ \A i \in 1..n : Append(SeenLog, event)[i] = SeenLog[i]
        /\ Append(SeenLog, event)[n + 1] = event
    BY <2>3, AppendProperties
  <2>5. /\ DOMAIN Append(SeenLog, event) = 1..(n + 1)
        /\ Append(SeenLog, event) = [i \in 1..(n + 1) |-> Append(SeenLog, event)[i]]
    BY <2>4, LenProperties
  <2>6. SeenLog' = [i \in 1..(n + 1) |-> EventOf(rows'[i])]
    BY <2>1 DEF SeenLog, EventOf
  <2>7. ASSUME NEW i \in 1..(n + 1) PROVE EventOf(rows'[i]) = Append(SeenLog, event)[i]
    <3>1. CASE i \in 1..n
      <4>1. i \in DOMAIN rows /\ rows'[i] = rows[i]
        BY <2>1, <3>1
      <4>2. SeenLog[i] = EventOf(rows[i])
        BY <4>1 DEF SeenLog
      <4> QED
        BY <2>4, <3>1, <4>1, <4>2
    <3>2. CASE i = n + 1
      <4>1. rows'[i] = NewRow(t)
        BY <2>1, <3>2
      <4>2. Append(SeenLog, event)[i] = event
        BY <2>4, <3>2
      <4> QED
        BY <2>2, <4>1, <4>2
    <3>3. i \in 1..n \/ i = n + 1
      <4>1. n \in Nat
        BY <2>1
      <4> QED
        BY <4>1
    <3> QED
      BY <3>1, <3>2, <3>3
  <2> QED
    BY <2>5, <2>6, <2>7 DEF event
<1>3. Waiting[t] = call[t] /\ Waiting' = [Waiting EXCEPT ![t] = NoCall]
  BY <1>1 DEF Waiting, Waits, LogTypeOK
<1>4. Told' = Told
  BY <1>1 DEF Told, Seen, EventOf
<1> QED
  BY <1>1, <1>2, <1>3, <1>4 DEF Log!Record, Log!Return, SeenLog, Waiting, Told

\* The places a reader may see are those whose rows match.
LEMMA SoughtAreMatching ==
    ASSUME NEW request
    PROVE  Log!Sought(request) = {i \in DOMAIN rows : Matches(rows[i], request)}
BY DEF Log!Sought, Matches, EventOf

\* The one statement of a read is its instant.
LEMMA ReadLooks ==
    ASSUME LogTypeOK, IdsFollowCommits, AnswersFit, CallsFit, NEW t \in Threads, Read(t)
    PROVE  Log!Look(t)
<1> DEFINE c == call[t]
           limit == Effective(c.limit)
           places == {i \in DOMAIN rows : Matches(rows[i], c.request)}
           n == Picked(places, limit)
<1>1. /\ pc[t] = "run" /\ c.kind = "read" /\ c # NoCall /\ c.limit \in Int
      /\ call' = call /\ rows' = rows
      /\ pc' = [pc EXCEPT ![t] = "idle"]
      /\ result' = [result EXCEPT ![t] = "ok"]
      /\ answer' = [answer EXCEPT ![t] = NewestFirst(places, limit)]
  BY DEF Read, Goto, Select, NoCall, database, LogTypeOK, Call
<1>2. Cardinality(places) \in Nat /\ Cardinality(places) <= Len(rows) /\ Len(rows) \in Nat
  <2>1. Len(rows) \in Nat /\ DOMAIN rows = 1..Len(rows)
    BY LenProperties DEF LogTypeOK
  <2>2. IsFiniteSet(1..Len(rows)) /\ Cardinality(1..Len(rows)) = Len(rows)
    <3>1. ASSUME NEW k \in Nat PROVE IsFiniteSet(1..k) /\ Cardinality(1..k) = k
      BY FS_Interval
    <3> QED
      BY <2>1, <3>1
  <2> QED
    BY <2>1, <2>2, FS_Subset, FS_CardinalityType
<1>3. Log!Sought(c.request) = places
  BY SoughtAreMatching
<1>4. Log!Most(c.limit) = limit
  BY DEF Log!Most, Effective
<1>5. limit \in Int /\ (c.limit >= 0 => limit >= 0)
  BY <1>1, StoreAssumption DEF Effective
<1>6. places \in SUBSET DOMAIN rows
  OBVIOUS
<1> HIDE DEF c, limit, places
<1>7. PICK p \in [1..n -> places] :
         /\ NewestFirst(places, limit) = [k \in 1..n |-> rows[p[k]]]
         /\ \A i, j \in 1..n : i < j => p[i] > p[j]
         /\ \A q \in places : (\A i \in 1..n : p[i] # q) =>
               n = limit /\ \A i \in 1..n : p[i] > q
  BY <1>5, <1>6, NewestPlaces
<1>8. n \in 0..Len(rows) /\ (limit >= 0 => n <= limit)
  BY <1>2, <1>5 DEF Picked
<1> HIDE DEF n
<1>9. p \in Log!Newest(places, c.limit)
  <2>1. Len(SeenLog) = Len(rows)
    BY <1>2, LenProperties DEF SeenLog, LogTypeOK
  <2>2. n \in Nat /\ DOMAIN p = 1..n /\ p \in Seq(places)
    BY <1>7, <1>8
  <2>3. Len(p) = n
    BY <2>2, LenProperties
  <2>4. p \in UNION {[1..m -> places] : m \in 0..Len(SeenLog)}
    BY <1>7, <1>8, <2>1
  <2>5. /\ \A i, j \in DOMAIN p : i < j => p[i] > p[j]
        /\ c.limit >= 0 => Len(p) <= Log!Most(c.limit)
        /\ \A q \in places : (\A i \in DOMAIN p : p[i] # q) =>
              Len(p) = Log!Most(c.limit) /\ \A i \in DOMAIN p : p[i] > q
    BY <1>4, <1>5, <1>7, <1>8, <2>2, <2>3
  <2> QED
    BY <2>4, <2>5 DEF Log!Newest, SeenLog
<1>10. Told' = [Told EXCEPT ![t] = [k \in DOMAIN p |-> SeenLog[p[k]]]]
  <2>1. \A u \in Threads \ {t} : Seen(u)' = Seen(u)
    BY <1>1 DEF Seen, EventOf, AnswersFit
  <2>2. answer'[t] = [k \in 1..n |-> rows[p[k]]]
    BY <1>1, <1>7 DEF AnswersFit
  <2>3. Seen(t)' = [k \in 1..n |-> EventOf(rows[p[k]])]
    BY <2>2 DEF Seen, EventOf
  <2>4. \A k \in 1..n : SeenLog[p[k]] = EventOf(rows[p[k]])
    BY <1>6, <1>7 DEF SeenLog
  <2>5. Seen(t)' = [k \in DOMAIN p |-> SeenLog[p[k]]]
    BY <1>7, <2>3, <2>4
  <2> QED
    BY <2>1, <2>5 DEF Told
<1>11. Waiting[t] = c /\ Waiting' = [Waiting EXCEPT ![t] = NoCall]
  BY <1>1 DEF Waiting, Waits, LogTypeOK, c
<1>12. SeenLog' = SeenLog
  BY <1>1 DEF SeenLog, EventOf
<1>13. \E q \in Log!Newest(Log!Sought(Waiting[t].request), Waiting[t].limit) :
           Told' = [Told EXCEPT ![t] = [k \in DOMAIN q |-> SeenLog[q[k]]]]
  BY <1>3, <1>9, <1>10, <1>11
<1>14. Log!Return(t, "ok") /\ Waiting[t].kind = "read"
  BY <1>1, <1>11 DEF Log!Return, Waiting
<1> QED
  BY <1>12, <1>13, <1>14 DEF Log!Look, SeenLog, Waiting, Told

\* Every other step is a call, the end of one without effect, a crash, or nothing
\* that callers see.
LEMMA LogStep ==
    ASSUME LogTypeOK, LockFits, IdsFollowCommits, AnswersFit, CallsFit, [Next]_vars
    PROVE  [Log!LogNext]_(Log!logVars)
<1>1. ASSUME NEW t \in Threads, NEW c \in Call, c.kind \in {"save", "read"}, Begin(t, c)
      PROVE  Log!Ask(t)
  <2> DEFINE label == IF t \in connected THEN "run" ELSE "create"
  <2>a. c # NoCall
    BY <1>1 DEF NoCall
  <2>b. label # "idle"
    OBVIOUS
  <2>1. /\ pc[t] = "idle" /\ rows' = rows /\ c # NoCall
        /\ call' = [call EXCEPT ![t] = c]
        /\ label # "idle" /\ pc' = [pc EXCEPT ![t] = label]
        /\ result' = [result EXCEPT ![t] = "none"]
        /\ answer' = [answer EXCEPT ![t] = << >>]
    BY <1>1, <2>a, <2>b DEF Begin, database
  <2> HIDE DEF label
  <2>2. Waiting[t] = NoCall /\ Waiting' = [Waiting EXCEPT ![t] = c]
    BY <2>1 DEF Waiting, Waits, LogTypeOK
  <2>3. Told' = [Told EXCEPT ![t] = << >>]
    <3>1. \A u \in Threads \ {t} : Seen(u)' = Seen(u)
      BY <2>1 DEF Seen, EventOf, AnswersFit
    <3>2. answer'[t] = << >>
      BY <2>1 DEF AnswersFit
    <3>3. Seen(t)' = << >>
      BY <3>2, EmptySeq DEF Seen, EventOf
    <3> QED
      BY <3>1, <3>3 DEF Told
  <2>4. SeenLog' = SeenLog
    BY <2>1 DEF SeenLog, EventOf
  <2>5. Waiting'[t] = c
    BY <2>2 DEF Waiting
  <2> QED
    BY <1>1, <2>1, <2>2, <2>3, <2>4, <2>5 DEF Log!Ask, SeenLog, Waiting, Told
<1>2. ASSUME NEW t \in Threads, NEW request \in Asked, BeginSave(t, request)
      PROVE  Log!Ask(t)
  <2> DEFINE c == [kind |-> "save", save |-> saves + 1, request |-> request, limit |-> 0]
  <2>1. c \in Call /\ c.kind = "save"
    BY DEF Call, LogTypeOK
  <2> QED
    BY <1>1, <1>2, <2>1 DEF BeginSave
<1>3. ASSUME NEW t \in Threads, NEW request \in Asked, NEW limit \in Limits,
             BeginRead(t, request, limit)
      PROVE  Log!Ask(t)
  <2> DEFINE c == [kind |-> "read", save |-> 0, request |-> request, limit |-> limit]
  <2>1. c \in Call /\ c.kind = "read"
    BY StoreAssumption DEF Call
  <2> QED
    BY <1>1, <1>3, <2>1 DEF BeginRead
<1>4. ASSUME NEW t \in Threads, Raise(t)
      PROVE  Log!Fail(t)
  <2>1. /\ pc[t] # "idle" /\ rows' = rows /\ call' = call /\ answer' = answer
        /\ pc' = [pc EXCEPT ![t] = "idle"]
        /\ result' = [result EXCEPT ![t] = "raised"]
        /\ call[t] # NoCall
    BY <1>4 DEF Raise, Goto, CallsFit, NoCall
  <2>2. Waiting[t] # NoCall /\ Waiting' = [Waiting EXCEPT ![t] = NoCall]
    BY <2>1 DEF Waiting, Waits, LogTypeOK
  <2>3. Told' = Told /\ SeenLog' = SeenLog
    BY <2>1 DEF Told, Seen, SeenLog, EventOf
  <2> QED
    BY <2>1, <2>2, <2>3 DEF Log!Fail, Log!Return, SeenLog, Waiting, Told
<1>5. ASSUME UNCHANGED <<rows, call, result, answer>>,
             \A u \in Threads : pc'[u] = "idle" <=> pc[u] = "idle"
      PROVE  UNCHANGED Log!logVars
  <2>1. Waiting' = Waiting /\ Told' = Told /\ SeenLog' = SeenLog
    BY <1>5 DEF Waiting, Waits, Told, Seen, SeenLog, EventOf
  <2> QED
    BY <1>5, <2>1 DEF Log!logVars, SeenLog, Waiting, Told
<1>6. ASSUME NEW t \in Threads, Connect(t)
      PROVE  UNCHANGED Log!logVars
  BY <1>5, <1>6 DEF Connect, CreateTable, ReadColumns, AddColumn, CreateIndex, Goto,
                    database, LogTypeOK
<1>7. ASSUME NEW t \in Threads, Insert(t)
      PROVE  UNCHANGED Log!logVars
  BY <1>5, <1>7 DEF Insert, Goto, LogTypeOK
<1>8. CASE (\E t \in Threads : ThreadEnds(t)) \/ UNCHANGED vars
  BY <1>5, <1>8 DEF ThreadEnds, vars, database, threads
<1>9. CASE Restart
  <2>1. /\ rows' = rows
        /\ pc' = [t \in Threads |-> "idle"]
        /\ result' = [t \in Threads |-> "none"]
        /\ answer' = [t \in Threads |-> << >>]
    BY <1>9 DEF Restart
  <2>2. Waiting' = [t \in Threads |-> NoCall]
    BY <2>1 DEF Waiting, Waits
  <2>3. Told' = [t \in Threads |-> << >>]
    BY <2>1, EmptySeq DEF Told, Seen, EventOf
  <2>4. SeenLog' = SeenLog
    BY <2>1 DEF SeenLog, EventOf
  <2>5. Log!Crash
    BY <2>1, <2>2, <2>3, <2>4 DEF Log!Crash, SeenLog, Waiting, Told
  <2> QED
    BY <2>5 DEF Log!LogNext
<1>10. ASSUME NEW t \in Threads, Commit(t) \/ Read(t)
       PROVE  Log!LogNext
  BY <1>10, CommitRecords, ReadLooks DEF Log!LogNext
<1> QED
  BY <1>2, <1>3, <1>4, <1>6, <1>7, <1>8, <1>9, <1>10 DEF Next, Proceed, Log!LogNext

\* To its callers the store is one log: each save and each read takes effect at one
\* instant between its begin and its end, or not at all, for any number of threads and
\* whatever migrations, failures and restarts come in between (storage.py:49-122).
THEOREM StoreImplementsLog == Spec => StoreIsALog
<1>1. Init => Log!LogInit
  <2> SUFFICES ASSUME Init PROVE Log!LogInit
    OBVIOUS
  <2>1. SeenLog \in {<< >>, << EventOf(OldRow) >>}
    <3>1. CASE rows = << >>
      BY <3>1, EmptySeq DEF SeenLog
    <3>2. CASE rows = << OldRow >>
      BY <3>2 DEF SeenLog
    <3> QED
      BY <3>1, <3>2 DEF Init
  <2>2. Waiting = [t \in Threads |-> NoCall]
    BY DEF Init, Waiting, Waits
  <2>3. Told = [t \in Threads |-> << >>]
    BY EmptySeq DEF Init, Told, Seen, EventOf
  <2> QED
    BY <2>1, <2>2, <2>3 DEF Init, Log!LogInit, SeenLog, Waiting, Told
<1>2. Spec => []CallsFit
  <2>1. Init => CallsFit
    BY DEF Init, CallsFit
  <2> QED
    BY <2>1, CallsStep, LockInvariant, PTL DEF Spec
<1> QED
  BY <1>1, <1>2, LogStep, LockInvariant, StoreInvariant, PTL DEF Spec, StoreIsALog, Log!LogSpec
=============================================================================
