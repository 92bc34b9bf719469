---------------------------- MODULE StorageLayer ----------------------------
(***************************************************************************)
(* Storage (core/storage.py): one connection, used by a worker thread at a *)
(* time, behind an asyncio lock that is kept until the thread ends, also   *)
(* when the task that waits for it is cancelled.  connect opens, then      *)
(* applies the migrations not recorded yet in one transaction.  Another    *)
(* process may migrate the same file.  Rows are left out: a write is only  *)
(* a use of the connection.                                                *)
(***************************************************************************)
EXTENDS Integers, FiniteSets

CONSTANTS
    Tasks,
    Statements  \* the registered migrations: each creates a table

NoTask == "none"
ASSUME StorageAssumption == NoTask \notin Tasks

VARIABLES
    conn,    \* _conn is open
    holder,  \* the task that holds _lock
    calls,   \* per task: the call it is in, "none" when in none
    threads, \* the worker threads running: task and what it does
    cancelled, \* the tasks cancelled while their thread runs
    todo,    \* the migrations still to apply by the connecting thread
    txn,     \* statements executed in its open transaction
    tables,  \* the tables of the file
    ids      \* _tg_messenger_migrations

storeVars == <<conn, holder, calls, threads, cancelled, todo, txn, tables, ids>>

StoreInit ==
    /\ conn = FALSE /\ holder = NoTask /\ threads = {} /\ cancelled = {}
    /\ calls = [t \in Tasks |-> NoTask]
    /\ todo = {} /\ txn = {}
    /\ ids \in SUBSET Statements /\ tables = ids

-----------------------------------------------------------------------------
(* The tasks *)

Request(t) ==
    /\ calls[t] = NoTask
    /\ \E op \in {"connect", "use", "close"} : calls' = [calls EXCEPT ![t] = op]
    /\ UNCHANGED <<conn, holder, threads, cancelled, todo, txn, tables, ids>>

\* async with self._lock, then run_in_executor; a connected connect returns.
Acquire(t) ==
    /\ calls[t] # NoTask /\ holder = NoTask
    /\ IF calls[t] = "connect" /\ conn
       THEN calls' = [calls EXCEPT ![t] = NoTask] /\ UNCHANGED <<holder, threads>>
       ELSE /\ holder' = t
            /\ threads' = threads \union {[task |-> t, does |-> calls[t]]}
            /\ UNCHANGED calls
    /\ UNCHANGED <<conn, cancelled, todo, txn, tables, ids>>

\* A mutation of AfterCancel: the cancelled task leaves at once.
FaultLeaves(t) ==
    /\ calls' = [calls EXCEPT ![t] = NoTask]
    /\ holder' = NoTask
    /\ UNCHANGED cancelled

\* _run_locked: the cancellation is kept until the worker ends.
AfterCancel(t) == cancelled' = cancelled \union {t} /\ UNCHANGED <<calls, holder>>

\* A task that still waits for the lock gives up; one whose thread runs does not.
Cancel(t) ==
    /\ calls[t] # NoTask
    /\ IF holder # t
       THEN calls' = [calls EXCEPT ![t] = NoTask] /\ UNCHANGED <<holder, cancelled>>
       ELSE AfterCancel(t)
    /\ UNCHANGED <<conn, threads, todo, txn, tables, ids>>

-----------------------------------------------------------------------------
(* The worker thread *)

Running(t, does) == [task |-> t, does |-> does] \in threads

Becomes(t, does, next) ==
    threads' = (threads \ {[task |-> t, does |-> does]}) \union {[task |-> t, does |-> next]}

\* The thread ends, and the call with it: the lock is released.
Ends(t, does) ==
    /\ threads' = threads \ {[task |-> t, does |-> does]}
    /\ holder' = IF holder = t THEN NoTask ELSE holder
    /\ calls' = [calls EXCEPT ![t] = NoTask]
    /\ cancelled' = cancelled \ {t}

Open(t) ==
    /\ Running(t, "connect")
    /\ conn' = TRUE
    /\ todo' = Statements \ ids
    /\ Becomes(t, "connect", "migrate")
    /\ UNCHANGED <<holder, calls, cancelled, txn, tables, ids>>

\* The file cannot be opened: connect's except closes what there is.
OpenFails(t) ==
    /\ Running(t, "connect")
    /\ Becomes(t, "connect", "undo")
    /\ UNCHANGED <<conn, holder, calls, cancelled, todo, txn, tables, ids>>

\* A mutation of Executes: without BEGIN each statement is committed alone.
FaultAutocommit(s) == tables' = tables \union {s} /\ txn' = txn \union {s}

\* A statement inside the transaction: seen by others after the commit.
Executes(s) == txn' = txn \union {s} /\ UNCHANGED tables

Migrate(t) ==
    /\ Running(t, "migrate")
    /\ \E s \in todo \ txn :
           /\ s \notin tables
           /\ Executes(s)
    /\ UNCHANGED <<conn, holder, calls, threads, cancelled, todo, ids>>

\* commit; a task cancelled meanwhile has its connection closed again.
Commit(t) ==
    /\ Running(t, "migrate") /\ txn = todo
    /\ tables' = tables \union txn /\ ids' = ids \union txn
    /\ txn' = {} /\ todo' = {}
    /\ IF t \in cancelled THEN Becomes(t, "migrate", "undo") /\ UNCHANGED <<holder, calls, cancelled>>
       ELSE Ends(t, "migrate")
    /\ UNCHANGED conn

\* connect's except: the connection is closed, under the same lock.
AfterError(t) == Becomes(t, "migrate", "undo") /\ UNCHANGED <<holder, calls, cancelled>>

\* A statement raises, its table being there already or the file being locked.
MigrationFails(t) ==
    /\ Running(t, "migrate") /\ todo # {}
    /\ txn' = {} /\ todo' = {}
    /\ AfterError(t)
    /\ UNCHANGED <<conn, tables, ids>>

\* _close_sync, for a close or after a failed connect.
Close(t) ==
    \E does \in {"undo", "close"} :
        /\ Running(t, does)
        /\ conn' = FALSE
        /\ Ends(t, does)
        /\ UNCHANGED <<todo, txn, tables, ids>>

\* A statement of a caller; without a connection it raises.
Use(t) ==
    /\ Running(t, "use")
    /\ Ends(t, "use")
    /\ UNCHANGED <<conn, todo, txn, tables, ids>>

\* Another process applies what it has registered, in its own transaction.
OtherMigrates ==
    /\ txn = {}
    /\ \E new \in SUBSET (Statements \ ids) :
           /\ new # {}
           /\ tables' = tables \union new /\ ids' = ids \union new
    /\ UNCHANGED <<conn, holder, calls, threads, cancelled, todo, txn>>

\* The process is killed: the open transaction is not.
Killed ==
    /\ \E t \in Tasks : calls[t] # NoTask
    /\ conn' = FALSE /\ holder' = NoTask /\ threads' = {} /\ cancelled' = {}
    /\ calls' = [t \in Tasks |-> NoTask]
    /\ todo' = {} /\ txn' = {}
    /\ UNCHANGED <<tables, ids>>

StoreNext ==
    \/ \E t \in Tasks : \/ Request(t) \/ Acquire(t) \/ Cancel(t)
                        \/ Open(t) \/ OpenFails(t) \/ Migrate(t) \/ Commit(t) \/ MigrationFails(t)
                        \/ Close(t) \/ Use(t)
    \/ OtherMigrates \/ Killed

StoreSpec == StoreInit /\ [][StoreNext]_storeVars

-----------------------------------------------------------------------------
(* Properties *)

\* "A broken migration never half-applies" (_apply_pending_migrations): a table
\* is there exactly when its migration is recorded, through failures, kills and
\* other processes.
MigrationsAreWhole == tables = ids

\* The one connection is never used by two threads, also when the task that
\* waits for the first is cancelled (_run_locked).
OneThread == Cardinality(threads) <= 1

\* An open connection that nobody is working on has its whole schema: a connect
\* that failed or was cancelled leaves none.
OpenIsMigrated == conn /\ holder = NoTask => Statements \subseteq ids
=============================================================================
