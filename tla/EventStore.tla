----------------------------- MODULE EventStore -----------------------------
(***************************************************************************)
(* The event log in SQLite (src/utils/storage.py): every thread of the      *)
(* server opens one connection, which creates or migrates the table, and    *)
(* keeps it for its saves and reads.                                        *)
(*                                                                          *)
(* Statements outside a transaction commit on their own, so the table and   *)
(* its index change one statement at a time while other threads do the      *)
(* same.  An INSERT opens a transaction and holds the only write lock until *)
(* it commits or rolls back.  In WAL mode a reader sees what is committed.  *)
(*                                                                          *)
(* Types, payloads and times of events are left out: an event is the number *)
(* of the save that wrote it, and the id of its request.                    *)
(***************************************************************************)
EXTENDS Integers, Sequences, FiniteSets

CONSTANTS
    Threads,     \* threads that save and read events
    NoThread,    \* the write lock is free
    RequestIds,  \* ids of requests
    NoRequest,   \* request_id = None
    Limits,      \* limits that readers ask for
    MaxLimit,    \* the limit of the endpoint, 100
    FirstTables  \* what the first process may find: "absent", "legacy", "current"

CONSTANTS        \* bounds of the model, not of the program
    MaxSaves,    \* saves begun
    MaxRestarts  \* restarts of the process

ASSUME StoreAssumption ==
    /\ NoThread \notin Threads
    /\ NoRequest \notin RequestIds
    /\ Limits \subseteq Int
    /\ MaxLimit \in Nat
    /\ FirstTables \subseteq {"absent", "legacy", "current"}
    /\ MaxSaves \in Nat
    /\ MaxRestarts \in Nat

VARIABLES
    table,      \* "absent", "legacy" (without the column request_id) or "current"
    index,      \* whether events_request_id exists
    rows,       \* the committed rows, in the order of their commits
    writer,     \* the thread that holds the write lock
    connected,  \* threads with a connection in _state
    pc,         \* where each thread stands
    call,       \* what it was called for
    rowId,      \* the id its INSERT was given
    result,     \* how its last call ended
    answer,     \* what its last read returned
    saves,      \* history: saves begun so far
    stored,     \* history: saves that returned
    refused,    \* history: saves that raised
    earlier,    \* history: <<s, u>> for a save s that returned before save u began
    known,      \* history: the saves that had returned when a thread was called
    restarts    \* restarts so far

database == <<table, index, rows, writer>>
threads  == <<connected, pc, call, rowId, result, answer>>
history  == <<saves, stored, refused, earlier, known>>
vars     == <<database, threads, history, restarts>>

Asked == RequestIds \cup {NoRequest}
Row   == [id : Nat \ {0}, save : Nat, request : Asked]
Call  == [kind : {"none", "save", "read"}, save : Nat, request : Asked, limit : Int]

NoCall == [kind |-> "none", save |-> 0, request |-> NoRequest, limit |-> 0]
OldRow == [id |-> 1, save |-> 0, request |-> NoRequest]

\* Mutant: the parameters of the INSERT are bound in the wrong order.
RowSwapped(t) == [id |-> rowId[t], save |-> call[t].request, request |-> call[t].save]

NewRow(t) == [id |-> rowId[t], save |-> call[t].save, request |-> call[t].request]

\* AUTOINCREMENT: one more than the largest id so far; no row is ever deleted.
NextId == IF rows = << >> THEN 1 ELSE rows[Len(rows)].id + 1

Matches(row, request) == request = NoRequest \/ row.request = request

\* Mutant: the endpoint passes the limit on.
EffectiveUncapped(limit) == limit

\* The endpoint takes the smaller of the limit and its own; to SQLite a negative
\* limit is none.
Effective(limit) == IF limit < MaxLimit THEN limit ELSE MaxLimit

Init ==
    /\ table \in FirstTables
    /\ index = (table = "current")
    /\ rows = IF table = "absent" THEN << >> ELSE << OldRow >>
    /\ writer = NoThread
    /\ connected = {}
    /\ pc = [t \in Threads |-> "idle"]
    /\ call = [t \in Threads |-> NoCall]
    /\ rowId = [t \in Threads |-> 0]
    /\ result = [t \in Threads |-> "none"]
    /\ answer = [t \in Threads |-> << >>]
    /\ saves = 0
    /\ stored = IF table = "absent" THEN {} ELSE {0}
    /\ refused = {}
    /\ earlier = {}
    /\ known = [t \in Threads |-> {}]
    /\ restarts = 0
-----------------------------------------------------------------------------
\* A call starts with _connect, which has nothing to do on a thread that kept a
\* connection.
Begin(t, c) ==
    /\ pc[t] = "idle"
    /\ call' = [call EXCEPT ![t] = c]
    /\ pc' = [pc EXCEPT ![t] = IF t \in connected THEN "run" ELSE "create"]
    /\ result' = [result EXCEPT ![t] = "none"]
    /\ answer' = [answer EXCEPT ![t] = << >>]
    /\ known' = [known EXCEPT ![t] = stored]
    /\ UNCHANGED <<database, connected, rowId, stored, refused, restarts>>

BeginSave(t, request) ==
    /\ saves < MaxSaves
    /\ saves' = saves + 1
    /\ earlier' = earlier \cup {<<s, saves + 1>> : s \in stored}
    /\ Begin(t, [kind |-> "save", save |-> saves + 1, request |-> request, limit |-> 0])

BeginRead(t, request, limit) ==
    /\ Begin(t, [kind |-> "read", save |-> 0, request |-> request, limit |-> limit])
    /\ UNCHANGED <<saves, earlier>>

Goto(t, label) == pc' = [pc EXCEPT ![t] = label]

\* CREATE TABLE IF NOT EXISTS
CreateTable(t) ==
    /\ pc[t] = "create"
    /\ table = "absent" => writer = NoThread
    /\ table' = IF table = "absent" THEN "current" ELSE table
    /\ Goto(t, "columns")
    /\ UNCHANGED <<index, rows, writer, connected, call, rowId, result, answer, history,
                   restarts>>

\* Mutant: the connection is kept before the table is migrated.
ReadColumnsKeeping(t) ==
    /\ pc[t] = "columns"
    /\ connected' = connected \cup {t}
    /\ Goto(t, IF table = "current" THEN "index" ELSE "alter")
    /\ UNCHANGED <<database, call, rowId, result, answer, history, restarts>>

\* PRAGMA table_info
ReadColumns(t) ==
    /\ pc[t] = "columns"
    /\ Goto(t, IF table = "current" THEN "index" ELSE "alter")
    /\ UNCHANGED <<database, connected, call, rowId, result, answer, history, restarts>>

\* Mutant: the old table is recreated.
RecreateTable(t) ==
    /\ pc[t] = "alter"
    /\ table = "legacy"
    /\ writer = NoThread
    /\ table' = "current"
    /\ rows' = << >>
    /\ Goto(t, "index")
    /\ UNCHANGED <<index, writer, connected, call, rowId, result, answer, history, restarts>>

\* ALTER TABLE ... ADD COLUMN
AddColumn(t) ==
    /\ pc[t] = "alter"
    /\ table = "legacy"
    /\ writer = NoThread
    /\ table' = "current"
    /\ Goto(t, "index")
    /\ UNCHANGED <<index, rows, writer, connected, call, rowId, result, answer, history,
                   restarts>>

\* CREATE INDEX IF NOT EXISTS, after which the thread keeps the connection.
CreateIndex(t) ==
    /\ pc[t] = "index"
    /\ ~index => writer = NoThread
    /\ index' = TRUE
    /\ connected' = connected \cup {t}
    /\ Goto(t, "run")
    /\ UNCHANGED <<table, rows, writer, call, rowId, result, answer, history, restarts>>

\* Mutant: the write lock is not asked for.
InsertUnlocked(t) ==
    /\ pc[t] = "run"
    /\ call[t].kind = "save"
    /\ writer' = t
    /\ rowId' = [rowId EXCEPT ![t] = NextId]
    /\ Goto(t, "commit")
    /\ UNCHANGED <<table, index, rows, connected, call, result, answer, history, restarts>>

\* INSERT: begins a transaction and takes the write lock.
Insert(t) ==
    /\ pc[t] = "run"
    /\ call[t].kind = "save"
    /\ writer = NoThread
    /\ writer' = t
    /\ rowId' = [rowId EXCEPT ![t] = NextId]
    /\ Goto(t, "commit")
    /\ UNCHANGED <<table, index, rows, connected, call, result, answer, history, restarts>>

\* Mutants: the transaction is left open; the lock is.
ReturnUncommitted(t) ==
    /\ pc[t] = "commit"
    /\ writer' = NoThread
    /\ stored' = stored \cup {call[t].save}
    /\ result' = [result EXCEPT ![t] = "ok"]
    /\ Goto(t, "idle")
    /\ UNCHANGED <<table, index, rows, connected, call, rowId, answer, saves, refused, earlier,
                   known, restarts>>

CommitLocked(t) ==
    /\ pc[t] = "commit"
    /\ rows' = Append(rows, NewRow(t))
    /\ stored' = stored \cup {call[t].save}
    /\ result' = [result EXCEPT ![t] = "ok"]
    /\ Goto(t, "idle")
    /\ UNCHANGED <<table, index, writer, connected, call, rowId, answer, saves, refused,
                   earlier, known, restarts>>

\* The transaction commits at the end of the with block, and save_event returns.
Commit(t) ==
    /\ pc[t] = "commit"
    /\ rows' = Append(rows, NewRow(t))
    /\ writer' = NoThread
    /\ stored' = stored \cup {call[t].save}
    /\ result' = [result EXCEPT ![t] = "ok"]
    /\ Goto(t, "idle")
    /\ UNCHANGED <<table, index, connected, call, rowId, answer, saves, refused, earlier,
                   known, restarts>>

\* At most `limit` of the rows at these positions, by descending id.
NewestFirst(places, limit) ==
    LET size == IF limit < 0 \/ limit > Cardinality(places) THEN Cardinality(places) ELSE limit
        newer(i) == {j \in places : rows[j].id > rows[i].id}
    IN  [k \in 1..size |-> rows[CHOOSE i \in places : Cardinality(newer(i)) = k - 1]]

\* Mutant: the limit is applied before the filter.
SelectThenFilter(request, limit) ==
    SelectSeq(NewestFirst(DOMAIN rows, limit), LAMBDA row : Matches(row, request))

\* SELECT ... WHERE request_id = ? ORDER BY id DESC LIMIT ?
Select(request, limit) ==
    NewestFirst({i \in DOMAIN rows : Matches(rows[i], request)}, limit)

Read(t) ==
    /\ pc[t] = "run"
    /\ call[t].kind = "read"
    /\ answer' = [answer EXCEPT ![t] = Select(call[t].request, Effective(call[t].limit))]
    /\ result' = [result EXCEPT ![t] = "ok"]
    /\ Goto(t, "idle")
    /\ UNCHANGED <<database, connected, call, rowId, history, restarts>>

(***************************************************************************)
(* A statement raises: the lock was held beyond the timeout, the disk is    *)
(* full, or the column was added by another thread after this one had       *)
(* looked.  A transaction is rolled back.  A connection that was not kept   *)
(* yet is dropped, and the next call of the thread starts all over.         *)
(***************************************************************************)
Raise(t) ==
    /\ pc[t] # "idle"
    /\ writer' = IF writer = t THEN NoThread ELSE writer
    /\ refused' = IF call[t].kind = "save" THEN refused \cup {call[t].save} ELSE refused
    /\ result' = [result EXCEPT ![t] = "raised"]
    /\ Goto(t, "idle")
    /\ UNCHANGED <<table, index, rows, connected, call, rowId, answer, saves, stored, earlier,
                   known, restarts>>

\* An idle thread of the pool ends, and its connection with it.
ThreadEnds(t) ==
    /\ pc[t] = "idle"
    /\ t \in connected
    /\ connected' = connected \ {t}
    /\ UNCHANGED <<database, pc, call, rowId, result, answer, history, restarts>>

\* The process dies; the file stays, without what was not committed.
Restart ==
    /\ restarts < MaxRestarts
    /\ restarts' = restarts + 1
    /\ writer' = NoThread
    /\ connected' = {}
    /\ pc' = [t \in Threads |-> "idle"]
    /\ call' = [t \in Threads |-> NoCall]
    /\ rowId' = [t \in Threads |-> 0]
    /\ result' = [t \in Threads |-> "none"]
    /\ answer' = [t \in Threads |-> << >>]
    /\ UNCHANGED <<table, index, rows, history>>

Connect(t) == CreateTable(t) \/ ReadColumns(t) \/ AddColumn(t) \/ CreateIndex(t)

Proceed(t) == Connect(t) \/ Insert(t) \/ Commit(t) \/ Read(t) \/ Raise(t)

Next ==
    \/ \E t \in Threads, request \in Asked :
         \/ BeginSave(t, request)
         \/ \E limit \in Limits : BeginRead(t, request, limit)
    \/ \E t \in Threads : Proceed(t) \/ ThreadEnds(t)
    \/ Restart

Spec == Init /\ [][Next]_vars

\* A thread goes on, and no statement waits longer than the busy timeout.
Fairness == \A t \in Threads : WF_vars(Proceed(t))

FairSpec == Spec /\ Fairness
-----------------------------------------------------------------------------
PcValues == {"idle", "create", "columns", "alter", "index", "run", "commit"}

TypeOK ==
    /\ table \in {"absent", "legacy", "current"}
    /\ index \in BOOLEAN
    /\ rows \in Seq(Row)
    /\ writer \in Threads \cup {NoThread}
    /\ connected \in SUBSET Threads
    /\ pc \in [Threads -> PcValues]
    /\ call \in [Threads -> Call]
    /\ rowId \in [Threads -> Nat]
    /\ result \in [Threads -> {"none", "ok", "raised"}]
    /\ answer \in [Threads -> Seq(Row)]
    /\ saves \in Nat
    /\ stored \in SUBSET Nat
    /\ refused \in SUBSET Nat
    /\ earlier \in SUBSET (Nat \X Nat)
    /\ known \in [Threads -> SUBSET Nat]
    /\ restarts \in Nat
-----------------------------------------------------------------------------
(***************************************************************************)
(* Whatever runs on a connection finds the table complete (storage.py:      *)
(* 77-90), although two threads may have migrated it at the same time, one  *)
(* of them may have failed half-way, and the process may have died between  *)
(* two statements.                                                          *)
(***************************************************************************)
ConnectedIsMigrated ==
    /\ connected # {} => table = "current" /\ index
    /\ \A t \in Threads : pc[t] \in {"run", "commit"} => t \in connected

\* The log only grows: neither migration nor restart nor a failing save takes a
\* row away or changes one (storage.py:77-79, "rather than dropped").
NothingIsDropped ==
    [][Len(rows) <= Len(rows') /\ \A i \in DOMAIN rows : rows'[i] = rows[i]]_vars

\* Ids grow in the order of the commits, which ORDER BY id relies on although
\* an id is given out before its row is committed (storage.py:99-117).
IdsFollowCommits == \A i, j \in DOMAIN rows : i < j => rows[i].id < rows[j].id

(***************************************************************************)
(* save_event is atomic: a save that returned has one row, one that raised  *)
(* has none, none has two, and a save that began after another one had      *)
(* returned comes after it in the log (storage.py:93-103).                  *)
(***************************************************************************)
SavesAreKept ==
    /\ \A s \in stored : \E i \in DOMAIN rows : rows[i].save = s
    /\ \A i \in DOMAIN rows : rows[i].save \notin refused
    /\ \A i, j \in DOMAIN rows :
         /\ rows[i].save = rows[j].save => i = j
         /\ <<rows[i].save, rows[j].save>> \in earlier => i < j

(***************************************************************************)
(* recent_events: newest first, of the request that was asked for only, no  *)
(* more than the limit, and no event that had been saved before the read    *)
(* began is missing unless the limit was used up by newer ones (storage.py: *)
(* 106-122: "a trace lookup for an old request").                           *)
(***************************************************************************)
ReadIsRecent ==
    \A t \in Threads :
        LET found == answer[t]
            limit == Effective(call[t].limit)
        IN  call[t].kind = "read" /\ result[t] = "ok" =>
              /\ \A i, j \in DOMAIN found : i < j => found[i].id > found[j].id
              /\ \A i \in DOMAIN found : Matches(found[i], call[t].request)
              /\ limit >= 0 => Len(found) <= limit
              /\ \A k \in DOMAIN rows :
                   \/ rows[k].save \notin known[t]
                   \/ ~Matches(rows[k], call[t].request)
                   \/ \E i \in DOMAIN found : found[i] = rows[k]
                   \/ Len(found) = limit /\ \A i \in DOMAIN found : found[i].id > rows[k].id

\* What callers see of a row, and of a thread.
EventOf(row) == [save |-> row.save, request |-> row.request]
Waits(t)     == IF pc[t] = "idle" THEN NoCall ELSE call[t]
Seen(t)      == [k \in DOMAIN answer[t] |-> EventOf(answer[t][k])]

\* To its callers the store is one log: every call takes effect at one instant
\* between its begin and its end, or not at all.
Log ==
    INSTANCE EventLog WITH
        Clients   <- Threads,
        Calls     <- Call,
        FirstLogs <- {<< >>, << EventOf(OldRow) >>},
        MaxEvents <- MaxLimit,
        log       <- [i \in DOMAIN rows |-> EventOf(rows[i])],
        doing     <- [t \in Threads |-> Waits(t)],
        outcome   <- result,
        told      <- [t \in Threads |-> Seen(t)]

(***************************************************************************)
(* The store implements the log (storage.py:49-122), although each call is  *)
(* several statements, rows are ordered by ids that are given out before    *)
(* they are committed, and statements of other threads, failures and        *)
(* restarts come in between.                                                *)
(***************************************************************************)
StoreIsALog == Log!LogSpec

\* The write lock comes free again and again, so that a save that waits for it
\* does not fail for ever (storage.py:62-65).
LockComesFree == []<>(writer = NoThread)
=============================================================================
