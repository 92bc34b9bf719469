---------------------------- MODULE StoresProofs ----------------------------
(***************************************************************************)
(* Proofs about what storage/ keeps and who works on it, for any tasks,    *)
(* contacts and settings.                                                  *)
(*                                                                         *)
(* StorageLayer: the connection is used by one thread at a time,           *)
(* migrations are whole, and a connection that nobody works on has its     *)
(* schema.  The invariant is the one-to-one relation of the lock's holder  *)
(* and the worker thread, which a deferred cancellation keeps.             *)
(*                                                                         *)
(* Nudges: a nudge is drafted only for a message of ours that a receipt    *)
(* covers.  Translation: a change of a setting clears what was decided     *)
(* under the old one, and the translator in use is replaced only by one    *)
(* whose model is stored.                                                  *)
(***************************************************************************)
EXTENDS StorageLayer, Nudges, Translation, FiniteSetTheorems, TLAPS

Doings == {"connect", "use", "close", "migrate", "undo"}
Thread(t, does) == [task |-> t, does |-> does]

StorageTypeOK ==
    /\ conn \in BOOLEAN
    /\ holder \in Tasks \union {NoTask}
    /\ calls \in [Tasks -> {NoTask, "connect", "use", "close"}]
    /\ threads \in SUBSET [task : Tasks, does : Doings]
    /\ cancelled \in SUBSET Tasks
    /\ todo \in SUBSET Statements /\ txn \in SUBSET todo
    /\ tables \in SUBSET Statements /\ ids \in SUBSET Statements

\* The lock is held exactly while a thread runs, by the task that started it.
HolderRuns ==
    /\ holder = NoTask => threads = {}
    /\ holder # NoTask => \E does \in Doings : threads = {Thread(holder, does)}

\* What an open connection lacks, its migrating thread has in hand, unless the
\* connection is about to be closed again.
SchemaInHand ==
    conn => \/ Statements \subseteq ids
            \/ \E t \in Tasks : /\ threads = {Thread(t, "migrate")}
                                /\ Statements \subseteq ids \union todo
            \/ \E t \in Tasks : threads = {Thread(t, "undo")}

\* Only a migrating thread has a transaction open.
TransactionIsOfThread == txn # {} => \E t \in Tasks : threads = {Thread(t, "migrate")}

StorageInv ==
    /\ StorageTypeOK /\ HolderRuns /\ SchemaInHand /\ TransactionIsOfThread
    /\ MigrationsAreWhole

-----------------------------------------------------------------------------
LEMMA ThreadsDiffer ==
    \A t, u, does, next : {Thread(t, does)} = {Thread(u, next)} => t = u /\ does = next
  <1> TAKE t, u, does, next
  <1> HAVE {Thread(t, does)} = {Thread(u, next)}
  <1>1. Thread(t, does) = Thread(u, next)
    OBVIOUS
  <1>2. Thread(t, does).task = Thread(u, next).task /\ Thread(t, does).does = Thread(u, next).does
    BY <1>1
  <1> QED BY <1>2 DEF Thread

\* A thread that runs is the only one, and its task holds the lock.
LEMMA RunningHolds ==
    ASSUME StorageInv, NEW t \in Tasks, NEW does, Running(t, does)
    PROVE  holder = t /\ threads = {Thread(t, does)} /\ holder # NoTask
  <1>1. holder # NoTask
    BY DEF StorageInv, HolderRuns, Running
  <1>2. PICK d \in Doings : threads = {Thread(holder, d)}
    BY <1>1 DEF StorageInv, HolderRuns
  <1>3. [task |-> t, does |-> does] = [task |-> holder, does |-> d]
    BY <1>2 DEF Running, Thread
  <1>4. t = holder /\ does = d
    BY <1>3
  <1> QED BY <1>1, <1>2, <1>4

\* A thread that goes on with something else stays the only one.
LEMMA BecomesOne ==
    ASSUME StorageInv, NEW t \in Tasks, NEW does, NEW next,
           Running(t, does), Becomes(t, does, next)
    PROVE  threads' = {Thread(t, next)}
  BY RunningHolds DEF Becomes, Thread

\* A thread that ends leaves the lock free and no thread.
LEMMA EndsAll ==
    ASSUME StorageInv, NEW t \in Tasks, NEW does, Running(t, does), Ends(t, does)
    PROVE  threads' = {} /\ holder' = NoTask
  BY RunningHolds DEF Ends, Thread

LEMMA StorageInitially == StoreInit => StorageInv
  BY DEF StoreInit, StorageInv, StorageTypeOK, HolderRuns, MigrationsAreWhole, SchemaInHand,
     TransactionIsOfThread

LEMMA StorageStep == ASSUME StorageInv, [StoreNext]_storeVars PROVE StorageInv'
  <1> USE DEF StorageInv, MigrationsAreWhole
  <1>1. ASSUME NEW t \in Tasks, Request(t) PROVE StorageInv'
    BY <1>1 DEF Request, StorageTypeOK, HolderRuns, SchemaInHand, TransactionIsOfThread
  <1>2. ASSUME NEW t \in Tasks, Acquire(t) PROVE StorageInv'
    <2>1. CASE calls[t] = "connect" /\ conn
      BY <1>2, <2>1 DEF Acquire, StorageTypeOK, HolderRuns, SchemaInHand, TransactionIsOfThread
    <2>2. CASE ~(calls[t] = "connect" /\ conn)
      <3>1. /\ threads = {} /\ holder' = t
            /\ threads' = threads \union {[task |-> t, does |-> calls[t]]}
            /\ UNCHANGED <<calls, conn, cancelled, todo, txn, tables, ids>>
        BY <1>2, <2>2 DEF Acquire, HolderRuns
      <3>2. threads' = {Thread(t, calls[t])} /\ calls[t] \in Doings
        BY <1>2, <3>1 DEF Thread, Acquire, StorageTypeOK, Doings
      <3>3. StorageTypeOK'
        BY <3>1, <3>2 DEF StorageTypeOK, Thread
      <3>4. HolderRuns'
        BY <3>1, <3>2, StorageAssumption DEF HolderRuns
      <3>5. SchemaInHand' /\ TransactionIsOfThread'
        BY <3>1 DEF SchemaInHand, TransactionIsOfThread, Thread
      <3> QED BY <3>1, <3>3, <3>4, <3>5
    <2> QED BY <2>1, <2>2
  <1>3. ASSUME NEW t \in Tasks, Cancel(t) PROVE StorageInv'
    BY <1>3 DEF Cancel, AfterCancel, StorageTypeOK, HolderRuns, SchemaInHand,
                TransactionIsOfThread
  \* What the steps of a thread have in common: it was alone, and goes on or ends.
  <1>4. ASSUME NEW t \in Tasks, NEW does \in Doings, NEW next \in Doings,
               Running(t, does), Becomes(t, does, next), UNCHANGED <<holder, calls, cancelled>>
        PROVE  /\ HolderRuns' /\ threads = {Thread(t, does)} /\ threads' = {Thread(t, next)}
               /\ threads' \in SUBSET [task : Tasks, does : Doings]
    <2>1. holder = t /\ holder # NoTask /\ threads = {Thread(t, does)}
      BY <1>4, RunningHolds
    <2>2. threads' = {Thread(t, next)}
      BY <1>4, BecomesOne
    <2>3. Thread(t, next) \in [task : Tasks, does : Doings]
      BY <1>4 DEF Thread
    <2> QED BY <1>4, <2>1, <2>2, <2>3 DEF HolderRuns
  <1>5. ASSUME NEW t \in Tasks, NEW does \in Doings, Running(t, does), Ends(t, does)
        PROVE  /\ HolderRuns' /\ threads = {Thread(t, does)} /\ threads' = {}
               /\ threads' \in SUBSET [task : Tasks, does : Doings]
               /\ holder' \in Tasks \union {NoTask} /\ cancelled' \in SUBSET Tasks
               /\ calls' \in [Tasks -> {NoTask, "connect", "use", "close"}]
    <2>1. threads = {Thread(t, does)}
      BY <1>5, RunningHolds
    <2>2. threads' = {} /\ holder' = NoTask
      BY <1>5, EndsAll
    <2> QED BY <1>5, <2>1, <2>2 DEF HolderRuns, Ends, StorageTypeOK
  <1>6. ASSUME NEW t \in Tasks, Open(t) PROVE StorageInv'
    <2>1. /\ HolderRuns' /\ threads = {Thread(t, "connect")} /\ threads' = {Thread(t, "migrate")}
          /\ threads' \in SUBSET [task : Tasks, does : Doings]
      BY <1>4, <1>6 DEF Open, Doings
    <2>2. txn = {}
      BY <2>1, ThreadsDiffer DEF TransactionIsOfThread
    <2> QED BY <1>6, <2>1, <2>2 DEF Open, StorageTypeOK, SchemaInHand, TransactionIsOfThread
  <1>7. ASSUME NEW t \in Tasks, OpenFails(t) PROVE StorageInv'
    <2>1. /\ HolderRuns' /\ threads = {Thread(t, "connect")} /\ threads' = {Thread(t, "undo")}
          /\ threads' \in SUBSET [task : Tasks, does : Doings]
      BY <1>4, <1>7 DEF OpenFails, Doings
    <2>2. txn = {}
      BY <2>1, ThreadsDiffer DEF TransactionIsOfThread
    <2> QED BY <1>7, <2>1, <2>2 DEF OpenFails, StorageTypeOK, SchemaInHand, TransactionIsOfThread
  <1>8. ASSUME NEW t \in Tasks, Migrate(t) PROVE StorageInv'
    <2>1. threads = {Thread(t, "migrate")}
      BY <1>8, RunningHolds DEF Migrate
    <2> QED BY <1>8, <2>1 DEF Migrate, Executes, StorageTypeOK, HolderRuns, SchemaInHand,
                              TransactionIsOfThread
  <1>9. ASSUME NEW t \in Tasks, Commit(t) PROVE StorageInv'
    <2>1. threads = {Thread(t, "migrate")}
      BY <1>9, RunningHolds DEF Commit
    <2>2. conn' => Statements \subseteq ids'
      <3>1. \A u \in Tasks : threads # {Thread(u, "undo")}
        BY <2>1, ThreadsDiffer
      <3>2. conn => Statements \subseteq ids \union todo
        BY <3>1 DEF SchemaInHand
      <3> QED BY <1>9, <3>2 DEF Commit
    <2>3. tables' = ids' /\ ids' \in SUBSET Statements /\ txn' = {} /\ todo' = {} /\ conn' = conn
      BY <1>9 DEF Commit, StorageTypeOK
    <2>4. CASE t \in cancelled
      <3>1. HolderRuns' /\ threads' \in SUBSET [task : Tasks, does : Doings]
        BY <1>4, <1>9, <2>4 DEF Commit, Doings
      <3> QED BY <1>9, <2>2, <2>3, <2>4, <3>1 DEF Commit, StorageTypeOK, SchemaInHand,
                                                TransactionIsOfThread
    <2>5. CASE t \notin cancelled
      <3>1. /\ HolderRuns' /\ threads' \in SUBSET [task : Tasks, does : Doings]
            /\ holder' \in Tasks \union {NoTask} /\ cancelled' \in SUBSET Tasks
            /\ calls' \in [Tasks -> {NoTask, "connect", "use", "close"}]
        BY <1>5, <1>9, <2>5 DEF Commit, Doings
      <3> QED BY <2>2, <2>3, <3>1 DEF StorageTypeOK, SchemaInHand, TransactionIsOfThread
    <2> QED BY <2>4, <2>5
  <1>10. ASSUME NEW t \in Tasks, MigrationFails(t) PROVE StorageInv'
    <2>1. /\ HolderRuns' /\ threads' = {Thread(t, "undo")}
          /\ threads' \in SUBSET [task : Tasks, does : Doings]
      BY <1>4, <1>10 DEF MigrationFails, AfterError, Doings
    <2> QED BY <1>10, <2>1 DEF MigrationFails, AfterError, StorageTypeOK, SchemaInHand,
                               TransactionIsOfThread
  <1>11. ASSUME NEW t \in Tasks, NEW does \in {"undo", "close", "use"}, Running(t, does),
                Ends(t, does), UNCHANGED <<todo, txn, tables, ids>>,
                conn' = FALSE \/ (conn' = conn /\ does = "use")
         PROVE  StorageInv'
    <2>1. /\ HolderRuns' /\ threads = {Thread(t, does)} /\ threads' = {}
          /\ threads' \in SUBSET [task : Tasks, does : Doings]
          /\ holder' \in Tasks \union {NoTask} /\ cancelled' \in SUBSET Tasks
          /\ calls' \in [Tasks -> {NoTask, "connect", "use", "close"}]
      BY <1>5, <1>11 DEF Doings
    <2>2. txn = {}
      BY <1>11, <2>1, ThreadsDiffer DEF TransactionIsOfThread
    <2>3. SchemaInHand'
      <3>1. CASE conn' = FALSE
        BY <3>1 DEF SchemaInHand
      <3>2. CASE conn' = conn /\ does = "use"
        <4>1. \A u \in Tasks, next \in {"undo", "migrate"} : threads # {Thread(u, next)}
          BY <2>1, <3>2, ThreadsDiffer
        <4> QED BY <1>11, <3>2, <4>1 DEF SchemaInHand
      <3> QED BY <1>11, <3>1, <3>2
    <2> QED BY <1>11, <2>1, <2>2, <2>3 DEF StorageTypeOK, TransactionIsOfThread
  <1>12. ASSUME NEW t \in Tasks, Close(t) PROVE StorageInv'
    BY <1>11, <1>12 DEF Close
  <1>13. ASSUME NEW t \in Tasks, Use(t) PROVE StorageInv'
    BY <1>11, <1>13 DEF Use
  <1>14. ASSUME OtherMigrates PROVE StorageInv'
    BY <1>14 DEF OtherMigrates, StorageTypeOK, HolderRuns, SchemaInHand, TransactionIsOfThread
  <1>15. ASSUME Killed PROVE StorageInv'
    BY <1>15 DEF Killed, StorageTypeOK, HolderRuns, SchemaInHand, TransactionIsOfThread
  <1>16. ASSUME UNCHANGED storeVars PROVE StorageInv'
    BY <1>16 DEF storeVars, StorageTypeOK, HolderRuns, SchemaInHand, TransactionIsOfThread
  <1> QED
    BY <1>1, <1>2, <1>3, <1>6, <1>7, <1>8, <1>9, <1>10, <1>12, <1>13, <1>14, <1>15, <1>16
    DEF StoreNext

\* The lock, its thread, the open transaction and the schema agree in every
\* state (Storage._run_locked and _migrate_sync).
THEOREM StorageInvariant == StoreSpec => []StorageInv
  BY StorageInitially, StorageStep, PTL DEF StoreSpec

-----------------------------------------------------------------------------
\* Every state of the storage is well typed.
THEOREM StorageTypeCorrect == StoreSpec => []StorageTypeOK
  BY StorageInvariant, PTL DEF StorageInv

\* MigrationsAreWhole, for any migrations, tasks and cancellations.
THEOREM MigrationsNeverHalfApply == StoreSpec => []MigrationsAreWhole
  BY StorageInvariant, PTL DEF StorageInv

\* OneThread: the lock outlives the cancellation of its task (_run_locked).
THEOREM ConnectionHasOneThread == StoreSpec => []OneThread
  <1>1. StorageInv => OneThread
    <2> SUFFICES ASSUME StorageInv PROVE OneThread
      OBVIOUS
    <2>1. CASE holder = NoTask
      <3>1. Cardinality(threads) = 0
        BY <2>1, FS_EmptySet DEF StorageInv, HolderRuns
      <3> QED BY <3>1 DEF OneThread
    <2>2. CASE holder # NoTask
      <3>1. PICK does \in Doings : threads = {Thread(holder, does)}
        BY <2>2 DEF StorageInv, HolderRuns
      <3>2. Cardinality(threads) = 1
        BY <3>1, FS_Singleton
      <3> QED BY <3>2 DEF OneThread
    <2> QED BY <2>1, <2>2
  <1> QED BY <1>1, StorageInvariant, PTL

\* OpenIsMigrated: a connect that failed or was cancelled leaves no connection
\* behind whose schema is incomplete.
THEOREM OpenHasItsSchema == StoreSpec => []OpenIsMigrated
  <1>1. StorageInv => OpenIsMigrated
    BY DEF StorageInv, HolderRuns, SchemaInHand, OpenIsMigrated, Thread
  <1> QED BY <1>1, StorageInvariant, PTL

-----------------------------------------------------------------------------
(* The nudges *)

\* Every message up to last that could be one of ours has been stamped by a receipt.
StampedTo(last) == \A id \in 1..MaxIds : id <= last => stamped[id] # None

\* A message of ours that a receipt covers.
IsRead(id) == id \in DOMAIN dialog /\ dialog[id] /\ stamped[id] # None

NudgeTables ==
    /\ hour \in Nat \ {0}
    /\ dialog \in Seq(BOOLEAN) /\ Len(dialog) <= MaxIds
    /\ receipts \in Seq(Nat)
    /\ stamped \in [1..MaxIds -> Nat]
    /\ settings \in [last : Nat, at : Nat]

\* What the nudger has read is still true of the messages, though not of the settings.
NudgerKnows ==
    \/ nudger = Rest
    \/ nudger.stage \in {"last", "aged"} /\ nudger.last \in Nat /\ StampedTo(nudger.last)
    \/ nudger.stage = "spent"
    \/ nudger.stage = "draft" /\ IsRead(nudger.id)

NudgeInv ==
    /\ NudgeTables
    /\ StampedTo(settings.last)
    /\ NudgerKnows
    /\ \A d \in drafts : IsRead(d.id)

\* A step that leaves the nudger, the drafts and the settings alone, that keeps the
\* messages and takes no stamp off.
LEMMA NudgesStay ==
    ASSUME NudgeInv, NudgeTables',
           \A id \in DOMAIN dialog : id \in DOMAIN dialog' /\ dialog'[id] = dialog[id],
           \A id \in 1..MaxIds : stamped[id] # None => stamped'[id] # None
    PROVE  /\ \A id : IsRead(id) => IsRead(id)'
           /\ \A last : StampedTo(last) => StampedTo(last)'
<1>0. NudgeTables /\ MaxIds \in Nat
    BY NudgesAssumption DEF NudgeInv
<1>1. ASSUME NEW id, IsRead(id)
      PROVE  IsRead(id)'
    <2>1. id \in DOMAIN dialog /\ dialog[id] /\ stamped[id] # None
        BY <1>1 DEF IsRead
    <2>4. dialog \in Seq(BOOLEAN) /\ Len(dialog) <= MaxIds
        BY <1>0 DEF NudgeTables
    <2>5. id \in 1..Len(dialog) /\ Len(dialog) \in Nat
        BY <2>1, <2>4
    <2>2. id \in 1..MaxIds
        BY <2>5, <2>4, <1>0
    <2> QED
        BY <2>1, <2>2 DEF IsRead
<1>2. ASSUME NEW last, StampedTo(last)
      PROVE  StampedTo(last)'
    BY <1>2 DEF StampedTo
<1> QED
    BY <1>1, <1>2

LEMMA NudgeBegins == NudgeInit => NudgeInv
<1> SUFFICES ASSUME NudgeInit
             PROVE  NudgeInv
    OBVIOUS
<1>1. dialog \in Seq(BOOLEAN) /\ Len(dialog) = 0 /\ receipts \in Seq(Nat)
    BY DEF NudgeInit
<1>2. NudgeTables
    BY <1>1, NudgesAssumption DEF NudgeInit, NudgeTables, None
<1>3. StampedTo(settings.last)
    BY NudgesAssumption DEF NudgeInit, StampedTo, None
<1> QED
    BY <1>2, <1>3 DEF NudgeInit, NudgeInv, NudgerKnows

LEMMA NudgesMove ==
    ASSUME NudgeInv, NudgeNext
    PROVE  NudgeInv'
<1>0. NudgeTables /\ StampedTo(settings.last) /\ NudgerKnows /\ MaxIds \in Nat
      /\ (\A d \in drafts : IsRead(d.id))
    BY NudgesAssumption DEF NudgeInv
<1>a. ASSUME UNCHANGED <<dialog, stamped>>
      PROVE  /\ \A id : IsRead(id) => IsRead(id)'
             /\ \A last : StampedTo(last) => StampedTo(last)'
    BY <1>a DEF IsRead, StampedTo
<1>b. ASSUME NudgeTables', UNCHANGED <<nudger, drafts>>, StampedTo(settings.last)',
             \A id : IsRead(id) => IsRead(id)',
             \A last : StampedTo(last) => StampedTo(last)'
      PROVE  NudgeInv'
    <2>1. NudgerKnows'
        BY <1>0, <1>b DEF NudgerKnows
    <2>2. (\A d \in drafts : IsRead(d.id))'
        BY <1>0, <1>b
    <2> QED
        BY <2>1, <2>2, <1>b DEF NudgeInv
<1>c. ASSUME UNCHANGED <<hour, dialog, receipts, stamped>>, NudgerKnows',
             settings' \in [last : Nat, at : Nat], StampedTo(settings.last)',
             \A d \in drafts' : IsRead(d.id)'
      PROVE  NudgeInv'
    <2>1. NudgeTables'
        BY <1>0, <1>c DEF NudgeTables
    <2> QED
        BY <2>1, <1>c DEF NudgeInv
<1>1. CASE HourPasses
    <2>1. NudgeTables'
        BY <1>1, <1>0 DEF HourPasses, NudgeTables
    <2>2. UNCHANGED <<dialog, stamped, settings, nudger, drafts>>
        BY <1>1 DEF HourPasses
    <2>3. StampedTo(settings.last)'
        BY <2>2, <1>0 DEF StampedTo
    <2> QED
        BY <2>1, <2>2, <2>3, <1>a, <1>b
<1>2. CASE \E ours \in BOOLEAN : SomeoneWrites(ours)
    <2> PICK ours \in BOOLEAN : SomeoneWrites(ours)
        BY <1>2
    <2>1. /\ Len(dialog) < MaxIds /\ dialog' = Append(dialog, ours)
          /\ UNCHANGED <<hour, receipts, stamped, settings, nudger, drafts>>
        BY DEF SomeoneWrites
    <2>2. dialog \in Seq(BOOLEAN)
        BY <1>0 DEF NudgeTables
    <2>3. /\ dialog' \in Seq(BOOLEAN) /\ Len(dialog') = Len(dialog) + 1
          /\ \A id \in DOMAIN dialog : id \in DOMAIN dialog' /\ dialog'[id] = dialog[id]
        BY <2>1, <2>2
    <2>4. Len(dialog') <= MaxIds
        BY <2>1, <2>2, <2>3, <1>0
    <2>5. NudgeTables'
        BY <2>1, <2>3, <2>4, <1>0 DEF NudgeTables
    <2>6. /\ \A id : IsRead(id) => IsRead(id)'
          /\ \A last : StampedTo(last) => StampedTo(last)'
        BY <2>1, <2>3, <2>5, NudgesStay
    <2>7. StampedTo(settings.last)'
        BY <2>1, <2>6, <1>0 DEF StampedTo
    <2> QED
        BY <2>1, <2>5, <2>6, <2>7, <1>b
<1>3. CASE ContactReads
    <2>1. /\ receipts' = Append(receipts, Len(dialog))
          /\ UNCHANGED <<hour, dialog, stamped, settings, nudger, drafts>>
        BY <1>3 DEF ContactReads
    <2>2. dialog \in Seq(BOOLEAN) /\ receipts \in Seq(Nat)
        BY <1>0 DEF NudgeTables
    <2>3. Len(dialog) \in Nat
        BY <2>2
    <2>4. receipts' \in Seq(Nat)
        BY <2>1, <2>2, <2>3
    <2>5. NudgeTables'
        BY <2>1, <2>4, <1>0 DEF NudgeTables
    <2>6. StampedTo(settings.last)'
        BY <2>1, <1>0 DEF StampedTo
    <2> QED
        BY <2>1, <2>5, <2>6, <1>a, <1>b
<1>4. CASE RecordLastRead
    <2> DEFINE top == Head(receipts)
    <2>1. /\ receipts # <<>> /\ receipts' = Tail(receipts)
          /\ settings' = [settings EXCEPT !.last = top]
          /\ stamped' = [id \in DOMAIN stamped |->
                            IF id <= top /\ stamped[id] = None THEN hour ELSE stamped[id]]
          /\ UNCHANGED <<hour, dialog, nudger, drafts>>
        BY <1>4 DEF RecordLastRead
    <2>2. /\ receipts \in Seq(Nat) /\ stamped \in [1..MaxIds -> Nat] /\ hour \in Nat \ {0}
          /\ settings \in [last : Nat, at : Nat]
        BY <1>0 DEF NudgeTables
    <2>3. top \in Nat /\ receipts' \in Seq(Nat)
        BY <2>1, <2>2
    <2>4. /\ settings' \in [last : Nat, at : Nat] /\ settings'.last = top
          /\ stamped' \in [1..MaxIds -> Nat]
        BY <2>1, <2>2, <2>3
    <2>5. NudgeTables'
        BY <2>1, <2>3, <2>4, <1>0 DEF NudgeTables
    <2>6. /\ \A id \in 1..MaxIds : stamped[id] # None => stamped'[id] # None
          /\ \A id \in 1..MaxIds : id <= top => stamped'[id] # None
        BY <2>1, <2>2 DEF None
    <2>7. /\ \A id : IsRead(id) => IsRead(id)'
          /\ \A last : StampedTo(last) => StampedTo(last)'
        BY <2>1, <2>5, <2>6, NudgesStay
    <2>8. StampedTo(settings.last)'
        BY <2>4, <2>6 DEF StampedTo
    <2> QED
        BY <2>1, <2>5, <2>7, <2>8, <1>b
<1>5. CASE RecordReadAt
    <2>1. /\ settings' = [settings EXCEPT !.at = hour]
          /\ UNCHANGED <<hour, dialog, receipts, stamped, nudger, drafts>>
        BY <1>5 DEF RecordReadAt
    <2>2. settings' \in [last : Nat, at : Nat] /\ settings'.last = settings.last
        BY <2>1, <1>0 DEF NudgeTables
    <2>3. NudgeTables'
        BY <2>1, <2>2, <1>0 DEF NudgeTables
    <2>4. StampedTo(settings.last)'
        BY <2>1, <2>2, <1>0 DEF StampedTo
    <2> QED
        BY <2>1, <2>3, <2>4, <1>a, <1>b
<1>6. CASE RecorderStops \/ SetEnabled
    <2>1. UNCHANGED <<hour, dialog, receipts, stamped, settings, nudger, drafts>>
        BY <1>6 DEF RecorderStops, SetEnabled
    <2>2. NudgeTables' /\ StampedTo(settings.last)'
        BY <2>1, <1>0 DEF NudgeTables, StampedTo
    <2> QED
        BY <2>1, <2>2, <1>a, <1>b
<1>d. ASSUME UNCHANGED <<hour, dialog, receipts, stamped, settings, drafts>>, NudgerKnows'
      PROVE  NudgeInv'
    <2>1. settings' \in [last : Nat, at : Nat] /\ StampedTo(settings.last)'
        BY <1>d, <1>0 DEF NudgeTables, StampedTo
    <2>2. \A d \in drafts' : IsRead(d.id)'
        BY <1>d, <1>a, <1>0
    <2> QED
        BY <2>1, <2>2, <1>c, <1>d
<1>7. CASE LoadLastRead
    <2>1. /\ nudger' = [stage |-> "last", now |-> hour, last |-> settings.last]
          /\ UNCHANGED <<hour, dialog, receipts, stamped, settings, drafts>>
        BY <1>7 DEF LoadLastRead
    <2>2. nudger'.stage = "last" /\ nudger'.last = settings.last /\ settings.last \in Nat
        BY <2>1, <1>0 DEF NudgeTables
    <2>3. StampedTo(nudger.last)'
        BY <2>1, <2>2, <1>0 DEF StampedTo
    <2>4. NudgerKnows'
        BY <2>2, <2>3 DEF NudgerKnows
    <2> QED
        BY <2>1, <2>4, <1>d
<1>8. CASE LoadReadAt
    <2>1. /\ nudger.stage = "last"
          /\ \/ nudger' = Rest
             \/ nudger' = [stage |-> "aged", now |-> nudger.now, last |-> nudger.last,
                           at |-> settings.at]
          /\ UNCHANGED <<hour, dialog, receipts, stamped, settings, drafts>>
        BY <1>8 DEF LoadReadAt
    <2>2. nudger.last \in Nat /\ StampedTo(nudger.last)
        BY <2>1, <1>0 DEF NudgerKnows, Rest
    <2>3. \/ nudger' = Rest
          \/ (nudger'.stage = "aged" /\ nudger'.last = nudger.last)
        BY <2>1
    <2>4. NudgerKnows'
        BY <2>1, <2>2, <2>3 DEF NudgerKnows, StampedTo
    <2> QED
        BY <2>1, <2>4, <1>d
<1>9. CASE FetchHistory
    <2> DEFINE tail == Len(dialog)
    <2>1. /\ nudger.stage = "aged"
          /\ UNCHANGED <<hour, dialog, receipts, stamped, settings, drafts>>
        BY <1>9 DEF FetchHistory
    <2>2. nudger.last \in Nat /\ StampedTo(nudger.last)
        BY <2>1, <1>0 DEF NudgerKnows, Rest
    <2>3. \/ nudger' = Rest \/ nudger' = [stage |-> "spent"]
          \/ /\ tail # 0 /\ dialog[tail] /\ nudger.last >= tail
             /\ nudger' = [stage |-> "draft", id |-> tail]
        BY <1>9 DEF FetchHistory, ShouldNudge, Covers
    <2>4. CASE nudger' = Rest \/ nudger' = [stage |-> "spent"]
        <3>1. NudgerKnows'
            BY <2>4 DEF NudgerKnows
        <3> QED
            BY <3>1, <2>1, <1>d
    <2>5. CASE /\ tail # 0 /\ dialog[tail] /\ nudger.last >= tail
               /\ nudger' = [stage |-> "draft", id |-> tail]
        <3>1. dialog \in Seq(BOOLEAN) /\ tail <= MaxIds
            BY <1>0 DEF NudgeTables
        <3>2. tail \in 1..MaxIds /\ tail \in DOMAIN dialog
            BY <3>1, <2>5, <1>0
        <3>3. stamped[tail] # None
            BY <3>1, <3>2, <2>2, <2>5 DEF StampedTo
        <3>4. IsRead(tail)
            BY <3>2, <3>3, <2>5 DEF IsRead
        <3>5. nudger'.stage = "draft" /\ nudger'.id = tail
            BY <2>5
        <3>6. NudgerKnows'
            BY <3>4, <3>5, <2>1 DEF NudgerKnows, IsRead
        <3> QED
            BY <3>6, <2>1, <1>d
    <2> QED
        BY <2>3, <2>4, <2>5
<1>10. CASE ClearLastRead
    <2>1. /\ settings' = [last |-> None, at |-> None] /\ nudger' = Rest
          /\ UNCHANGED <<hour, dialog, receipts, stamped, drafts>>
        BY <1>10 DEF ClearLastRead
    <2>2. settings' \in [last : Nat, at : Nat] /\ settings'.last = 0
        BY <2>1 DEF None
    <2>3. StampedTo(settings.last)'
        BY <2>2 DEF StampedTo
    <2>4. NudgerKnows'
        BY <2>1 DEF NudgerKnows
    <2>5. \A d \in drafts' : IsRead(d.id)'
        BY <2>1, <1>a, <1>0
    <2> QED
        BY <2>1, <2>2, <2>3, <2>4, <2>5, <1>c
<1>11. CASE Draft
    <2>1. /\ nudger.stage = "draft" /\ nudger' = Rest
          /\ drafts' = drafts \union {[id |-> nudger.id, text |-> enabled]}
          /\ UNCHANGED <<hour, dialog, receipts, stamped, settings>>
        BY <1>11 DEF Draft
    <2>2. IsRead(nudger.id)
        BY <2>1, <1>0 DEF NudgerKnows, Rest
    <2>3. \A d \in drafts' : IsRead(d.id)
        BY <2>1, <2>2, <1>0
    <2>4. \A d \in drafts' : IsRead(d.id)'
        BY <2>1, <2>3, <1>a
    <2>5. NudgerKnows'
        BY <2>1 DEF NudgerKnows
    <2>6. settings' \in [last : Nat, at : Nat] /\ StampedTo(settings.last)'
        BY <2>1, <1>0 DEF NudgeTables, StampedTo
    <2> QED
        BY <2>1, <2>4, <2>5, <2>6, <1>c
<1>12. CASE NudgerFails
    <2>1. nudger' = Rest /\ UNCHANGED <<hour, dialog, receipts, stamped, settings, drafts>>
        BY <1>12 DEF NudgerFails
    <2> QED
        BY <2>1, <1>d DEF NudgerKnows
<1> QED
    BY <1>1, <1>2, <1>3, <1>4, <1>5, <1>6, <1>7, <1>8, <1>9, <1>10, <1>11, <1>12 DEF NudgeNext

\* A nudge is drafted only for a message of ours that a receipt covers (should_nudge),
\* for any number of messages and receipts, in any order of the two processes.
THEOREM OnlyReadIsNudged == NudgeSpec => []NudgesTheRead
<1>1. NudgeInv /\ UNCHANGED nudgeVars => NudgeInv'
    <2> SUFFICES ASSUME NudgeInv, UNCHANGED nudgeVars
                 PROVE  NudgeInv'
        OBVIOUS
    <2>1. UNCHANGED <<hour, dialog, receipts, stamped, settings, nudger, drafts>>
        BY DEF nudgeVars
    <2> QED
        BY <2>1 DEF NudgeInv, NudgeTables, NudgerKnows, StampedTo, IsRead
<1>2. NudgeInv /\ [NudgeNext]_nudgeVars => NudgeInv'
    BY <1>1, NudgesMove
<1>3. NudgeInv => NudgesTheRead
    BY DEF NudgeInv, NudgesTheRead, IsRead
<1> QED
    BY <1>2, <1>3, NudgeBegins, PTL DEF NudgeSpec

-----------------------------------------------------------------------------
(* The inbound translator *)

Value == Langs \cup Lists \cup UserModes \cup Models
           \cup {Unset, EnvLang, EnvModel, {}, "all_unknown", "off"}
Settings == [target : Value, mode : Value, known : Value, unknown : Value, model : Value]

OtherWrites == [key : {"target", "mode", "known", "unknown"}, value : Value]
Writings == [key : {"target", "mode", "known", "unknown", "model"}, value : Value]
Steps == {"idle", "check", "put", "clear"}

TranslationTables ==
    /\ kv \in Settings
    /\ DOMAIN decisions = Messages
    /\ save \in [Writers -> [at : Steps, writes : Seq(Writings)]]
    /\ card \in [open : BOOLEAN, fields : Settings, appliedMode : Value, appliedModel : Value,
                 echo : BOOLEAN]

\* Only the card stores a model, and only an open card saves.
OnlyCardStoresModel ==
    /\ save["web"].writes \in Seq(OtherWrites) /\ save["command"].writes \in Seq(OtherWrites)
    /\ save["card"].at # "idle" => card.open

\* A changed model is the last thing the card writes: while its save is under way the
\* model is the last of the writes left, and it is stored once none is left.
ModelIsLast ==
    LET writes == save["card"].writes  model == card.fields.model IN
    save["card"].at \in {"put", "clear"} /\ model # card.appliedModel =>
        /\ writes # <<>> => writes[Len(writes)] = Write("model", model)
        /\ Len(writes) = 0 \/ (Len(writes) = 1 /\ save["card"].at = "clear") => kv.model = model

TranslationInv ==
    /\ TranslationTables /\ OnlyCardStoresModel /\ ModelIsLast
    /\ NothingOutlivesAChange

-----------------------------------------------------------------------------
LEMMA GivenWrites ==
    ASSUME NEW S, NEW given, NEW write, write \in S
    PROVE  Given(given, write) \in Seq(S)
<1>1. <<write>> \in Seq(S) /\ <<>> \in Seq(S)
    OBVIOUS
<1> QED
    BY <1>1 DEF Given

LEMMA TranslationBegins == TranslationInit => TranslationInv
<1> SUFFICES ASSUME TranslationInit
             PROVE  TranslationInv
    OBVIOUS
<1>1. /\ kv = Nothing /\ card = Closed
      /\ decisions = [m \in Messages |-> NoDecision]
      /\ save = [w \in Writers |-> NoSave]
    BY DEF TranslationInit
<1>2. Nothing \in Settings /\ Unset \in Value
    BY DEF Nothing, Settings, Value
<1>3. card \in [open : BOOLEAN, fields : Settings, appliedMode : Value, appliedModel : Value,
                echo : BOOLEAN]
    BY <1>1, <1>2 DEF Closed
<1>4. NoSave \in [at : Steps, writes : Seq(Writings)]
    BY DEF NoSave, Steps
<1>5. TranslationTables
    BY <1>1, <1>2, <1>3, <1>4 DEF TranslationTables
<1>6. /\ save["web"].writes = <<>> /\ save["command"].writes = <<>> /\ save["card"].at = "idle"
    BY <1>1 DEF Writers, NoSave
<1>7. OnlyCardStoresModel /\ ModelIsLast
    BY <1>6 DEF OnlyCardStoresModel, ModelIsLast
<1>8. NothingOutlivesAChange
    BY <1>1 DEF NothingOutlivesAChange, NoDecision
<1> QED
    BY <1>5, <1>7, <1>8 DEF TranslationInv

\* The values in force are values, and the card's fields hold values.
LEMMA ValuesInForce ==
    ASSUME TranslationTables
    PROVE  Target \in Value /\ Mode \in Value /\ Model \in Value
<1>1. kv.target \in Value /\ kv.mode \in Value /\ kv.model \in Value
    BY DEF TranslationTables, Settings
<1>2. Unset \in Value /\ EnvLang \in Value /\ EnvModel \in Value /\ "all_unknown" \in Value
      /\ "off" \in Value
    BY DEF Value
<1>3. Target \in Value /\ Model \in Value
    BY <1>1, <1>2 DEF Target, Model
<1>4. Mode \in Value
    BY <1>1, <1>2 DEF Mode
<1> QED
    BY <1>3, <1>4

\* A step that leaves the saves and the card alone and leaves no decision staler.
LEMMA DecisionsRefresh ==
    ASSUME TranslationInv, UNCHANGED <<kv, save, card, torn>>, DOMAIN decisions' = Messages,
           \A m \in Messages : decisions'[m] = decisions[m] \/ decisions'[m].fresh
    PROVE  TranslationInv'
<1>0. TranslationTables /\ OnlyCardStoresModel /\ ModelIsLast /\ NothingOutlivesAChange
    BY DEF TranslationInv
<1>1. TranslationTables'
    BY <1>0 DEF TranslationTables
<1>2. OnlyCardStoresModel'
    BY <1>0 DEF OnlyCardStoresModel
<1>3. ModelIsLast'
    BY <1>0 DEF ModelIsLast
<1>4. NothingOutlivesAChange'
    BY <1>0 DEF NothingOutlivesAChange
<1> QED
    BY <1>1, <1>2, <1>3, <1>4 DEF TranslationInv

LEMMA PassesMove ==
    ASSUME TranslationInv, NEW p \in Passes,
           \/ Begin(p) \/ ReadMode(p) \/ ReadLists(p) \/ LookUp(p) \/ LookedUp(p)
           \/ Answer(p) \/ NoAnswer(p) \/ Store(p) \/ Abandon(p)
    PROVE  TranslationInv'
<1>0. DOMAIN decisions = Messages
    BY DEF TranslationInv, TranslationTables
<1>a. ASSUME NEW m, NEW lang, NEW text, NEW by,
             decisions' = [decisions EXCEPT ![m] = Decision(lang, text, by)]
      PROVE  /\ DOMAIN decisions' = Messages
             /\ \A n \in Messages : decisions'[n] = decisions[n] \/ decisions'[n].fresh
    <2>1. Decision(lang, text, by).fresh
        BY DEF Decision
    <2> QED
        BY <1>a, <1>0, <2>1
<1>1. CASE Begin(p) \/ ReadMode(p) \/ ReadLists(p) \/ LookedUp(p) \/ Answer(p) \/ NoAnswer(p)
             \/ Abandon(p)
    <2>1. UNCHANGED <<kv, save, card, torn, decisions>>
        BY <1>1 DEF Begin, ReadMode, ReadLists, LookedUp, Answer, NoAnswer, Abandon
    <2> QED
        BY <2>1, <1>0, DecisionsRefresh
<1>2. CASE LookUp(p)
    <2>1. UNCHANGED <<kv, save, card, torn>>
          /\ (\/ UNCHANGED decisions
              \/ \E m : decisions' = [decisions EXCEPT ![m] =
                                        Decision(pass[p].target, Unset, "rule")])
        BY <1>2 DEF LookUp, Known, NoLetters, AskAbout, LookupFails
    <2>2. /\ DOMAIN decisions' = Messages
          /\ \A n \in Messages : decisions'[n] = decisions[n] \/ decisions'[n].fresh
        BY <2>1, <1>0, <1>a
    <2> QED
        BY <2>1, <2>2, DecisionsRefresh
<1>3. CASE Store(p)
    <2>1. UNCHANGED <<kv, save, card, torn>>
          /\ \E m, text : decisions' = [decisions EXCEPT ![m] =
                                          Decision(pass[p].target, text, pass[p].by)]
        BY <1>3 DEF Store
    <2>3. PICK m, text : decisions' = [decisions EXCEPT ![m] =
                                          Decision(pass[p].target, text, pass[p].by)]
        BY <2>1
    <2>2. /\ DOMAIN decisions' = Messages
          /\ \A n \in Messages : decisions'[n] = decisions[n] \/ decisions'[n].fresh
        BY <2>3, <1>a
    <2> QED
        BY <2>1, <2>2, DecisionsRefresh
<1> QED
    BY <1>1, <1>2, <1>3

-----------------------------------------------------------------------------
\* What a step on the save of one writer leaves of the others.
LEMMA SaveMoves ==
    ASSUME TranslationTables, NEW w \in Writers, NEW next \in [at : Steps, writes : Seq(Writings)],
           save' = [save EXCEPT ![w] = next]
    PROVE  /\ save' \in [Writers -> [at : Steps, writes : Seq(Writings)]]
           /\ save'[w] = next
           /\ \A v \in Writers : v # w => save'[v] = save[v]
BY DEF TranslationTables

LEMMA OtherWritesAreWritings ==
    ASSUME NEW s \in Seq(OtherWrites)
    PROVE  s \in Seq(Writings)
<1>1. OtherWrites \subseteq Writings
    BY DEF OtherWrites, Writings
<1> QED
    BY <1>1

\* A step of the web or of the command that leaves the card and the cached decisions alone.
LEMMA OthersMove ==
    ASSUME TranslationInv, NEW w \in {"web", "command"}, NEW writes \in Seq(OtherWrites),
           NEW at \in Steps, save' = [save EXCEPT ![w] = [at |-> at, writes |-> writes]],
           save[w].at = "clear" => torn', torn => torn', UNCHANGED <<kv, decisions, card>>
    PROVE  TranslationInv'
<1>0. TranslationTables /\ OnlyCardStoresModel /\ ModelIsLast /\ NothingOutlivesAChange
    BY DEF TranslationInv
<1>1. w \in Writers /\ w # "card" /\ "card" \in Writers
    BY DEF Writers
<1>2. [at |-> at, writes |-> writes] \in [at : Steps, writes : Seq(Writings)]
    BY OtherWritesAreWritings
<1>3. /\ save' \in [Writers -> [at : Steps, writes : Seq(Writings)]]
      /\ save'[w] = [at |-> at, writes |-> writes]
      /\ \A v \in Writers : v # w => save'[v] = save[v]
    BY <1>0, <1>1, <1>2, SaveMoves
<1>4. TranslationTables'
    BY <1>0, <1>3 DEF TranslationTables
<1>5. save'["card"] = save["card"] /\ save'[w].writes = writes
    BY <1>1, <1>3
<1>6. OnlyCardStoresModel'
    BY <1>0, <1>3, <1>5 DEF OnlyCardStoresModel, Writers
<1>7. ModelIsLast'
    BY <1>0, <1>5 DEF ModelIsLast
<1>8. NothingOutlivesAChange'
    <2>1. CASE torn \/ torn' \/ \A m \in Messages : decisions[m].fresh
        BY <2>1 DEF NothingOutlivesAChange
    <2>2. CASE ~torn /\ ~torn' /\ \E v \in Writers : save[v].at = "clear"
        <3>1. PICK v \in Writers : save[v].at = "clear"
            BY <2>2
        <3>2. v # w
            BY <2>2, <3>1
        <3> QED
            BY <3>1, <3>2, <1>3 DEF NothingOutlivesAChange
    <2> QED
        BY <2>1, <2>2, <1>0 DEF NothingOutlivesAChange
<1> QED
    BY <1>4, <1>6, <1>7, <1>8 DEF TranslationInv

\* A step of the card that begins, checks or ends a save, and leaves the cached decisions alone.
LEMMA CardMoves ==
    ASSUME TranslationInv, NEW writes \in Seq(Writings),
           NEW at \in Steps, save' = [save EXCEPT !["card"] = [at |-> at, writes |-> writes]],
           save["card"].at = "clear" => torn', torn => torn', UNCHANGED <<kv, decisions>>,
           card' \in [open : BOOLEAN, fields : Settings, appliedMode : Value,
                      appliedModel : Value, echo : BOOLEAN],
           at # "idle" => card'.open, ModelIsLast'
    PROVE  TranslationInv'
<1>0. TranslationTables /\ OnlyCardStoresModel /\ NothingOutlivesAChange
    BY DEF TranslationInv
<1>1. /\ "web" \in Writers /\ "command" \in Writers /\ "card" \in Writers
      /\ "web" # "card" /\ "command" # "card"
    BY DEF Writers
<1>2. [at |-> at, writes |-> writes] \in [at : Steps, writes : Seq(Writings)]
    OBVIOUS
<1>3. /\ save' \in [Writers -> [at : Steps, writes : Seq(Writings)]]
      /\ save'["card"] = [at |-> at, writes |-> writes]
      /\ \A v \in Writers : v # "card" => save'[v] = save[v]
    BY <1>0, <1>1, <1>2, SaveMoves
<1>4. TranslationTables'
    BY <1>0, <1>3 DEF TranslationTables
<1>5. /\ save'["web"] = save["web"] /\ save'["command"] = save["command"]
      /\ save'["card"].at = at
    BY <1>1, <1>3
<1>6. OnlyCardStoresModel'
    BY <1>0, <1>5 DEF OnlyCardStoresModel
<1>8. NothingOutlivesAChange'
    <2>1. CASE torn \/ torn' \/ \A m \in Messages : decisions[m].fresh
        BY <2>1 DEF NothingOutlivesAChange
    <2>2. CASE ~torn /\ ~torn' /\ \E v \in Writers : save[v].at = "clear"
        <3>1. PICK v \in Writers : save[v].at = "clear"
            BY <2>2
        <3>2. v # "card"
            BY <2>2, <3>1
        <3> QED
            BY <3>1, <3>2, <1>3 DEF NothingOutlivesAChange
    <2> QED
        BY <2>1, <2>2, <1>0 DEF NothingOutlivesAChange
<1> QED
    BY <1>4, <1>6, <1>8 DEF TranslationInv

LEMMA WebAndCommandBegin ==
    ASSUME TranslationInv, WebSaves \/ CommandSaves
    PROVE  TranslationInv'
<1>0. /\ Unset \in Value /\ "off" \in Value /\ Langs \subseteq Value /\ Lists \subseteq Value
      /\ UserModes \subseteq Value
    BY DEF Value
<1>a. ASSUME NEW w \in {"web", "command"}, NEW writes \in Seq(OtherWrites), Idle(w),
             StartsWith(w, writes), UNCHANGED <<kv, decisions, card, torn>>
      PROVE  TranslationInv'
    <2>1. save' = [save EXCEPT ![w] = [at |-> "put", writes |-> writes]]
        BY <1>a DEF StartsWith
    <2>2. save[w].at # "clear" /\ "put" \in Steps
        BY <1>a DEF Idle, Steps
    <2> QED
        BY <1>a, <2>1, <2>2, OthersMove
<1>b. \A value \in Value : /\ Write("target", value) \in OtherWrites
                           /\ Write("mode", value) \in OtherWrites
                           /\ Write("known", value) \in OtherWrites
                           /\ Write("unknown", value) \in OtherWrites
    BY DEF Write, OtherWrites
<1>1. CASE WebSaves
    <2>1. PICK target \in Langs \cup {Unset} : StartsWith("web", <<Write("target", target)>>)
        BY <1>1 DEF WebSaves
    <2>2. <<Write("target", target)>> \in Seq(OtherWrites)
        BY <1>0, <1>b
    <2>3. Idle("web") /\ UNCHANGED <<kv, decisions, card, torn>>
        BY <1>1 DEF WebSaves
    <2> QED
        BY <2>1, <2>2, <2>3, <1>a
<1>2. CASE CommandSaves
    <2>1. Idle("command") /\ UNCHANGED <<kv, decisions, card, torn>>
        BY <1>2 DEF CommandSaves
    <2>2. CASE StartsWith("command", <<Write("target", Unset), Write("mode", "off")>>)
        <3>1. <<Write("target", Unset), Write("mode", "off")>> \in Seq(OtherWrites)
            BY <1>0, <1>b
        <3> QED
            BY <2>1, <2>2, <3>1, <1>a
    <2>3. CASE \E target \in Langs, known, unknown \in Lists, mode \in UserModes,
                  keys \in SUBSET {"target", "known", "unknown", "mode"} :
                  StartsWith("command",
                             Given("target" \in keys, Write("target", target))
                               \o Given("known" \in keys, Write("known", known))
                               \o Given("unknown" \in keys, Write("unknown", unknown))
                               \o Given("mode" \in keys, Write("mode", mode)))
        <3>1. PICK target \in Langs, known \in Lists, unknown \in Lists, mode \in UserModes,
                   keys \in SUBSET {"target", "known", "unknown", "mode"} :
                  StartsWith("command",
                             Given("target" \in keys, Write("target", target))
                               \o Given("known" \in keys, Write("known", known))
                               \o Given("unknown" \in keys, Write("unknown", unknown))
                               \o Given("mode" \in keys, Write("mode", mode)))
            BY <2>3
        <3> DEFINE a == Given("target" \in keys, Write("target", target))
                   b == Given("known" \in keys, Write("known", known))
                   c == Given("unknown" \in keys, Write("unknown", unknown))
                   d == Given("mode" \in keys, Write("mode", mode))
        <3>2. /\ target \in Value /\ known \in Value /\ unknown \in Value /\ mode \in Value
            BY <1>0
        <3>3. a \in Seq(OtherWrites)
            <4>1. Write("target", target) \in OtherWrites
                BY <3>2, <1>b
            <4> QED
                BY <4>1, GivenWrites
        <3>4. b \in Seq(OtherWrites)
            <4>1. Write("known", known) \in OtherWrites
                BY <3>2, <1>b
            <4> QED
                BY <4>1, GivenWrites
        <3>5. c \in Seq(OtherWrites)
            <4>1. Write("unknown", unknown) \in OtherWrites
                BY <3>2, <1>b
            <4> QED
                BY <4>1, GivenWrites
        <3>6. d \in Seq(OtherWrites)
            <4>1. Write("mode", mode) \in OtherWrites
                BY <3>2, <1>b
            <4> QED
                BY <4>1, GivenWrites
        <3>7. StartsWith("command", a \o b \o c \o d)
            BY <3>1
        <3> HIDE DEF a, b, c, d
        <3>8. a \o b \o c \o d \in Seq(OtherWrites)
            BY <3>3, <3>4, <3>5, <3>6
        <3> QED
            BY <2>1, <3>7, <3>8, <1>a
    <2> QED
        BY <1>2, <2>2, <2>3 DEF CommandSaves
<1> QED
    BY <1>1, <1>2

LEMMA SavesEnd ==
    ASSUME TranslationInv, NEW w \in Writers, Fails(w) \/ Saved(w)
    PROVE  TranslationInv'
<1>0. /\ NoSave = [at |-> "idle", writes |-> <<>>] /\ "idle" \in Steps
      /\ <<>> \in Seq(OtherWrites) /\ <<>> \in Seq(Writings)
    BY DEF NoSave, Steps
<1>1. /\ save' = [save EXCEPT ![w] = [at |-> "idle", writes |-> <<>>]]
      /\ save[w].at = "clear" => torn'
      /\ torn => torn'
      /\ UNCHANGED <<kv, decisions, card>>
    <2>1. CASE Fails(w)
        BY <2>1, <1>0 DEF Fails, Stopped
    <2>2. CASE Saved(w)
        BY <2>2, <1>0 DEF Saved
    <2> QED
        BY <2>1, <2>2
<1>2. CASE w = "card"
    <2>1. save'["card"] = [at |-> "idle", writes |-> <<>>]
        BY <1>1, <1>2 DEF TranslationInv, TranslationTables, Writers
    <2>2. ModelIsLast'
        BY <2>1 DEF ModelIsLast
    <2>3. card' \in [open : BOOLEAN, fields : Settings, appliedMode : Value,
                     appliedModel : Value, echo : BOOLEAN]
        BY <1>1 DEF TranslationInv, TranslationTables
    <2> QED
        BY <1>0, <1>1, <1>2, <2>2, <2>3, CardMoves
<1>3. CASE w # "card"
    <2>1. w \in {"web", "command"}
        BY <1>3 DEF Writers
    <2> QED
        BY <1>0, <1>1, <2>1, OthersMove
<1> QED
    BY <1>2, <1>3

-----------------------------------------------------------------------------
\* The statements of a save.
LEMMA TailOfSave ==
    ASSUME NEW S, NEW s \in Seq(S), s # <<>>
    PROVE  /\ Head(s) \in S /\ Tail(s) \in Seq(S) /\ s[Len(s)] \in S /\ Len(s) \in Nat \ {0}
           /\ Len(Tail(s)) = Len(s) - 1
           /\ Len(s) = 1 => Head(s) = s[Len(s)]
           /\ Len(Tail(s)) = 0 => Len(s) = 1
           /\ Tail(s) # <<>> => Tail(s)[Len(Tail(s))] = s[Len(s)]
OBVIOUS

LEMMA SettingIsPut ==
    ASSUME TranslationTables, NEW write \in Writings,
           kv' = [kv EXCEPT ![write.key] = write.value]
    PROVE  /\ kv' \in Settings
           /\ write.key # "model" => kv'.model = kv.model
           /\ write.key = "model" => kv'.model = write.value
<1>1. kv \in Settings /\ write.value \in Value
    BY DEF TranslationTables, Writings
<1>2. write.key \in {"target", "mode", "known", "unknown", "model"}
    BY DEF Writings
<1>3. CASE write.key = "target"
    <2>1. kv' = [kv EXCEPT !.target = write.value]
        BY <1>3
    <2> QED
        BY <1>1, <1>3, <2>1 DEF Settings
<1>4. CASE write.key = "mode"
    <2>1. kv' = [kv EXCEPT !.mode = write.value]
        BY <1>4
    <2> QED
        BY <1>1, <1>4, <2>1 DEF Settings
<1>5. CASE write.key = "known"
    <2>1. kv' = [kv EXCEPT !.known = write.value]
        BY <1>5
    <2> QED
        BY <1>1, <1>5, <2>1 DEF Settings
<1>6. CASE write.key = "unknown"
    <2>1. kv' = [kv EXCEPT !.unknown = write.value]
        BY <1>6
    <2> QED
        BY <1>1, <1>6, <2>1 DEF Settings
<1>7. CASE write.key = "model"
    <2>1. kv' = [kv EXCEPT !.model = write.value]
        BY <1>7
    <2> QED
        BY <1>1, <1>7, <2>1 DEF Settings
<1> QED
    BY <1>2, <1>3, <1>4, <1>5, <1>6, <1>7

LEMMA SettingsAreWritten ==
    ASSUME TranslationInv, NEW w \in Writers, SaveStep(w)
    PROVE  TranslationInv'
<1> DEFINE writes == save[w].writes
           write == Head(writes)
<1>0. TranslationTables /\ OnlyCardStoresModel /\ ModelIsLast /\ NothingOutlivesAChange
    BY DEF TranslationInv
<1>1. /\ writes # <<>> /\ save[w].at \in {"put", "clear"} /\ PutThenClear(w)
      /\ UNCHANGED <<card, torn>>
    BY DEF SaveStep
<1>2. save[w] \in [at : Steps, writes : Seq(Writings)]
    BY <1>0 DEF TranslationTables
<1>3. writes \in Seq(Writings) /\ save[w] = [at |-> save[w].at, writes |-> writes]
    BY <1>2
<1>4. /\ write \in Writings /\ Tail(writes) \in Seq(Writings)
      /\ Len(writes) \in Nat \ {0} /\ Len(Tail(writes)) = Len(writes) - 1
      /\ Len(writes) = 1 => write = writes[Len(writes)]
      /\ Len(Tail(writes)) = 0 => Len(writes) = 1
      /\ Tail(writes) # <<>> => Tail(writes)[Len(Tail(writes))] = writes[Len(writes)]
    BY <1>1, <1>3, TailOfSave
<1>5. w # "card" => /\ writes \in Seq(OtherWrites) /\ write \in OtherWrites
                    /\ Tail(writes) \in Seq(OtherWrites)
    <2>1. ASSUME w # "card"
          PROVE  writes \in Seq(OtherWrites)
        BY <2>1, <1>0 DEF OnlyCardStoresModel, Writers
    <2> QED
        BY <2>1, <1>1, TailOfSave
<1>6. w # "card" => write.key # "model"
    BY <1>5 DEF OtherWrites
<1> HIDE DEF writes, write
<1>7. CASE save[w].at = "put"
    <2>1. /\ kv' = [kv EXCEPT ![write.key] = write.value]
          /\ save' = [save EXCEPT ![w].at = "clear"]
          /\ decisions' = [m \in Messages |-> IF decisions[m] = NoDecision THEN NoDecision
                                              ELSE [decisions[m] EXCEPT !.fresh = FALSE]]
        BY <1>1, <1>7 DEF PutThenClear, write, writes
    <2>2. save' = [save EXCEPT ![w] = [at |-> "clear", writes |-> writes]]
        <3>1. [save[w] EXCEPT !.at = "clear"] = [at |-> "clear", writes |-> writes]
            BY <1>2 DEF writes
        <3> QED
            BY <2>1, <3>1
    <2>3. /\ save' \in [Writers -> [at : Steps, writes : Seq(Writings)]]
          /\ save'[w] = [at |-> "clear", writes |-> writes]
          /\ \A v \in Writers : v # w => save'[v] = save[v]
        <3>1. [at |-> "clear", writes |-> writes] \in [at : Steps, writes : Seq(Writings)]
            BY <1>3 DEF Steps
        <3> QED
            BY <1>0, <2>2, <3>1, SaveMoves
    <2>4. /\ kv' \in Settings
          /\ write.key # "model" => kv'.model = kv.model
          /\ write.key = "model" => kv'.model = write.value
        BY <1>0, <1>4, <2>1, SettingIsPut
    <2>5. TranslationTables'
        BY <1>0, <1>1, <2>1, <2>3, <2>4 DEF TranslationTables
    <2>6. save'[w].at = "clear" /\ save'[w].writes = writes
        BY <2>3
    <2>7. /\ save'["web"].writes = save["web"].writes
          /\ save'["command"].writes = save["command"].writes
          /\ save'["card"].writes = save["card"].writes
          /\ save'["card"].at # "idle" => save["card"].at # "idle"
        BY <1>1, <1>7, <2>3, <2>6 DEF Writers, writes
    <2>8. OnlyCardStoresModel'
        BY <1>0, <1>1, <2>7 DEF OnlyCardStoresModel
    <2>9. NothingOutlivesAChange'
        BY <2>6 DEF NothingOutlivesAChange
    <2>10. CASE w = "card"
        <3>1. ASSUME card.fields.model # card.appliedModel
              PROVE  /\ writes[Len(writes)] = Write("model", card.fields.model)
                     /\ Len(writes) = 1 => kv'.model = card.fields.model
            <4>1. writes[Len(writes)] = Write("model", card.fields.model)
                BY <3>1, <2>10, <1>0, <1>1 DEF ModelIsLast, writes
            <4>2. ASSUME Len(writes) = 1
                  PROVE  kv'.model = card.fields.model
                <5>1. write = Write("model", card.fields.model)
                    BY <4>1, <4>2, <1>4
                <5>2. write.key = "model" /\ write.value = card.fields.model
                    BY <5>1 DEF Write
                <5> QED
                    BY <5>2, <2>4
            <4> QED
                BY <4>1, <4>2
        <3>2. Len(writes) # 0
            BY <1>4
        <3>3. ModelIsLast'
            BY <3>1, <3>2, <2>6, <2>10, <1>1 DEF ModelIsLast
        <3> QED
            BY <2>5, <2>8, <2>9, <3>3 DEF TranslationInv
    <2>11. CASE w # "card"
        <3>1. save'["card"] = save["card"] /\ kv'.model = kv.model
            BY <2>3, <2>4, <2>11, <1>6 DEF Writers
        <3>2. ModelIsLast'
            BY <3>1, <1>0, <1>1 DEF ModelIsLast
        <3> QED
            BY <2>5, <2>8, <2>9, <3>2 DEF TranslationInv
    <2> QED
        BY <2>10, <2>11
<1>8. CASE save[w].at = "clear"
    <2>1. /\ UNCHANGED kv
          /\ decisions' = [m \in Messages |-> NoDecision]
          /\ save' = [save EXCEPT ![w] = [at |-> "put", writes |-> Tail(writes)]]
        BY <1>1, <1>8 DEF PutThenClear, writes
    <2>3. /\ save' \in [Writers -> [at : Steps, writes : Seq(Writings)]]
          /\ save'[w] = [at |-> "put", writes |-> Tail(writes)]
          /\ \A v \in Writers : v # w => save'[v] = save[v]
        <3>1. [at |-> "put", writes |-> Tail(writes)] \in [at : Steps, writes : Seq(Writings)]
            BY <1>4 DEF Steps
        <3> QED
            BY <1>0, <2>1, <3>1, SaveMoves
    <2>5. TranslationTables'
        BY <1>0, <1>1, <2>1, <2>3 DEF TranslationTables
    <2>6. save'[w].at = "put" /\ save'[w].writes = Tail(writes)
        BY <2>3
    <2>8. OnlyCardStoresModel'
        BY <1>0, <1>1, <1>5, <1>8, <2>3, <2>6 DEF OnlyCardStoresModel, Writers
    <2>9. NothingOutlivesAChange'
        BY <2>1 DEF NothingOutlivesAChange, NoDecision
    <2>10. CASE w = "card"
        <3>1. ASSUME card.fields.model # card.appliedModel
              PROVE  /\ writes[Len(writes)] = Write("model", card.fields.model)
                     /\ Len(writes) = 1 => kv.model = card.fields.model
            BY <3>1, <2>10, <1>0, <1>1, <1>8 DEF ModelIsLast, writes
        <3>2. Len(Tail(writes)) = 0 => Len(writes) = 1
            BY <1>4
        <3>3. ModelIsLast'
            BY <3>1, <3>2, <2>1, <2>6, <2>10, <1>1, <1>4 DEF ModelIsLast
        <3> QED
            BY <2>5, <2>8, <2>9, <3>3 DEF TranslationInv
    <2>11. CASE w # "card"
        <3>1. save'["card"] = save["card"]
            BY <2>3, <2>11 DEF Writers
        <3>2. ModelIsLast'
            BY <3>1, <2>1, <1>0, <1>1 DEF ModelIsLast
        <3> QED
            BY <2>5, <2>8, <2>9, <3>2 DEF TranslationInv
    <2> QED
        BY <2>10, <2>11
<1> QED
    BY <1>1, <1>7, <1>8

-----------------------------------------------------------------------------
\* The card.
LEMMA LastOfConcat ==
    ASSUME NEW S, NEW s \in Seq(S), NEW x \in S
    PROVE  Len(s \o <<x>>) = Len(s) + 1 /\ (s \o <<x>>)[Len(s \o <<x>>)] = x
<1>1. Len(s) \in Nat /\ <<x>> \in Seq(S) /\ Len(<<x>>) = 1
    OBVIOUS
<1>2. Len(s \o <<x>>) = Len(s) + 1
    BY <1>1
<1>3. (s \o <<x>>)[Len(s) + 1] = x
    BY <1>1
<1> QED
    BY <1>2, <1>3

LEMMA LenOfConcat ==
    ASSUME NEW S, NEW s \in Seq(S), NEW u \in Seq(S)
    PROVE  s \o u \in Seq(S) /\ Len(s \o u) = Len(s) + Len(u) /\ Len(s) \in Nat
OBVIOUS

LEMMA WritesOfTheCard ==
    ASSUME TranslationTables
    PROVE  /\ CardWrites \in Seq(Writings) /\ CardWrites # <<>> /\ Len(CardWrites) # 0
           /\ card.fields.model # card.appliedModel
                => CardWrites[Len(CardWrites)] = Write("model", card.fields.model)
<1> DEFINE f == card.fields
           a == Given(f.target # Unset, Write("target", f.target))
           b == <<Write("known", f.known), Write("unknown", f.unknown), Write("mode", f.mode)>>
           c == Given(f.model # card.appliedModel, Write("model", f.model))
<1>1. /\ f.target \in Value /\ f.mode \in Value /\ f.known \in Value /\ f.unknown \in Value
      /\ f.model \in Value
    BY DEF TranslationTables, Settings
<1>2. \A value \in Value : /\ Write("target", value) \in Writings
                           /\ Write("mode", value) \in Writings
                           /\ Write("known", value) \in Writings
                           /\ Write("unknown", value) \in Writings
                           /\ Write("model", value) \in Writings
    BY DEF Write, Writings
<1>3. a \in Seq(Writings)
    <2>1. Write("target", f.target) \in Writings
        BY <1>1, <1>2
    <2> QED
        BY <2>1, GivenWrites
<1>4. b \in Seq(Writings) /\ Len(b) = 3
    BY <1>1, <1>2
<1>5. c \in Seq(Writings)
    <2>1. Write("model", f.model) \in Writings
        BY <1>1, <1>2
    <2> QED
        BY <2>1, GivenWrites
<1>6. CardWrites = a \o b \o c
    BY DEF CardWrites
<1>7. f.model # card.appliedModel => c = <<Write("model", f.model)>>
    BY DEF Given
<1> HIDE DEF a, b, c, f
<1>8. /\ a \o b \in Seq(Writings) /\ Len(a \o b) = Len(a) + 3 /\ Len(a) \in Nat
      /\ a \o b \o c \in Seq(Writings) /\ Len(a \o b \o c) = Len(a \o b) + Len(c)
      /\ Len(c) \in Nat
    <2>1. a \o b \in Seq(Writings) /\ Len(a \o b) = Len(a) + Len(b) /\ Len(a) \in Nat
        BY <1>3, <1>4, LenOfConcat
    <2>2. /\ (a \o b) \o c \in Seq(Writings) /\ Len((a \o b) \o c) = Len(a \o b) + Len(c)
          /\ Len(c) \in Nat
        BY <2>1, <1>5, LenOfConcat
    <2> QED
        BY <2>1, <2>2, <1>4
<1>9. a \o b \o c # <<>> /\ Len(a \o b \o c) # 0
    <2>1. Len(a \o b \o c) # 0
        BY <1>8
    <2> QED
        BY <2>1
<1>10. ASSUME f.model # card.appliedModel
       PROVE  (a \o b \o c)[Len(a \o b \o c)] = Write("model", f.model)
    <2> DEFINE e == a \o b
    <2>1. c = <<Write("model", f.model)>>
        BY <1>7, <1>10
    <2>2. Write("model", f.model) \in Writings /\ e \in Seq(Writings)
        BY <1>1, <1>2, <1>8 DEF f
    <2> HIDE DEF e
    <2>3. (e \o c)[Len(e \o c)] = Write("model", f.model)
        BY <2>1, <2>2, LastOfConcat
    <2> QED
        BY <2>3 DEF e
<1> QED
    BY <1>6, <1>8, <1>9, <1>10 DEF f

LEMMA CardIsUsed ==
    ASSUME TranslationInv, OpenCard \/ CloseCard \/ Press \/ Enter \/ Echo \/ CheckModel \/ CardSaved
    PROVE  TranslationInv'
<1> DEFINE Cards == [open : BOOLEAN, fields : Settings, appliedMode : Value, appliedModel : Value,
                     echo : BOOLEAN]
<1>0. TranslationTables /\ OnlyCardStoresModel /\ ModelIsLast /\ NothingOutlivesAChange
    BY DEF TranslationInv
<1>1. /\ card \in Cards /\ card.fields \in Settings
      /\ save["card"] \in [at : Steps, writes : Seq(Writings)]
      /\ save \in [Writers -> [at : Steps, writes : Seq(Writings)]]
    BY <1>0 DEF TranslationTables, Writers
<1>2. /\ Unset \in Value /\ Models \subseteq Value /\ Lists \subseteq Value
      /\ UserModes \subseteq Value /\ "idle" \in Steps /\ "check" \in Steps /\ "put" \in Steps
      /\ <<>> \in Seq(Writings) /\ NoSave = [at |-> "idle", writes |-> <<>>]
    BY DEF Value, Steps, NoSave
\* A save that begins, or ends: nothing is on its way.
<1>a. ASSUME NEW at \in {"idle", "check"},
             save' = [save EXCEPT !["card"] = [at |-> at, writes |-> <<>>]]
      PROVE  ModelIsLast'
    <2>1. save'["card"] = [at |-> at, writes |-> <<>>]
        BY <1>a, <1>1 DEF Writers
    <2> QED
        BY <2>1 DEF ModelIsLast
\* A card is replaced while its save rests.
<1>b. ASSUME save["card"].at = "idle", UNCHANGED <<kv, decisions, save, torn>>, card' \in Cards
      PROVE  TranslationInv'
    <2>1. TranslationTables'
        BY <1>0, <1>b DEF TranslationTables
    <2>2. OnlyCardStoresModel' /\ ModelIsLast' /\ NothingOutlivesAChange'
        BY <1>0, <1>b DEF OnlyCardStoresModel, ModelIsLast, NothingOutlivesAChange
    <2> QED
        BY <2>1, <2>2 DEF TranslationInv
<1>c. ASSUME NEW fields \in Settings, CardSaves(fields), card.open, UNCHANGED <<kv, decisions>>
      PROVE  TranslationInv'
    <2>1. /\ card' = [card EXCEPT !.fields = fields]
          /\ save' = [save EXCEPT !["card"] = [at |-> "check", writes |-> <<>>]]
          /\ save["card"].at = "clear" => torn'
          /\ torn => torn'
        BY <1>c DEF CardSaves, Stopped
    <2>2. card' \in Cards /\ card'.open
        BY <2>1, <1>1, <1>c
    <2>3. ModelIsLast'
        BY <2>1, <1>a
    <2> QED
        BY <2>1, <2>2, <2>3, <1>2, <1>c, CardMoves
<1>3. CASE OpenCard
    <2>1. /\ ~card.open /\ UNCHANGED <<kv, decisions, save, torn>>
          /\ card' = [open |-> TRUE, echo |-> TRUE, appliedMode |-> Mode, appliedModel |-> Model,
                      fields |-> [target |-> Target, mode |-> Mode, known |-> kv.known,
                                  unknown |-> kv.unknown, model |-> Model]]
        BY <1>3 DEF OpenCard
    <2>2. Mode \in Value /\ Model \in Value /\ Target \in Value
        BY <1>0, ValuesInForce
    <2>3. kv.known \in Value /\ kv.unknown \in Value
        BY <1>0 DEF TranslationTables, Settings
    <2>4. [target |-> Target, mode |-> Mode, known |-> kv.known, unknown |-> kv.unknown,
           model |-> Model] \in Settings
        BY <2>2, <2>3 DEF Settings
    <2>5. card' \in Cards
        BY <2>1, <2>2, <2>4
    <2>6. save["card"].at = "idle"
        BY <2>1, <1>0 DEF OnlyCardStoresModel
    <2> QED
        BY <2>1, <2>5, <2>6, <1>b
<1>d. Closed \in Cards
    BY <1>2 DEF Closed, Nothing, Settings, Value
<1>4. CASE CloseCard
    <2>1. /\ card' = Closed /\ UNCHANGED <<kv, decisions>>
          /\ save' = [save EXCEPT !["card"] = [at |-> "idle", writes |-> <<>>]]
          /\ save["card"].at = "clear" => torn'
          /\ torn => torn'
        BY <1>4, <1>2 DEF CloseCard, Stopped
    <2>2. ModelIsLast'
        BY <2>1, <1>a
    <2> QED
        BY <2>1, <2>2, <1>2, <1>d, CardMoves
<1>5. CASE Press
    <2>1. PICK mode \in UserModes \ {card.fields.mode, card.appliedMode} :
              CardSaves([card.fields EXCEPT !.mode = mode])
        BY <1>5 DEF Press
    <2>2. [card.fields EXCEPT !.mode = mode] \in Settings
        BY <1>1, <1>2 DEF Settings
    <2>3. card.open /\ UNCHANGED <<kv, decisions>>
        BY <1>5 DEF Press
    <2> QED
        BY <2>1, <2>2, <2>3, <1>c
<1>6. CASE Enter
    <2>1. PICK model \in Models \cup {Unset}, known \in Lists :
              CardSaves([card.fields EXCEPT !.model = model, !.known = known])
        BY <1>6 DEF Enter
    <2>2. model \in Value /\ known \in Value
        BY <1>2
    <2>3. [card.fields EXCEPT !.model = model, !.known = known] \in Settings
        BY <1>1, <2>2 DEF Settings
    <2>4. card.open /\ UNCHANGED <<kv, decisions>>
        BY <1>6 DEF Enter
    <2> QED
        BY <2>1, <2>3, <2>4, <1>c
<1>7. CASE Echo
    <2>1. card.open /\ card' = [card EXCEPT !.echo = FALSE] /\ UNCHANGED <<kv, decisions>>
        BY <1>7 DEF Echo
    <2>2. /\ card' \in Cards /\ card'.open = card.open /\ card'.fields = card.fields
          /\ card'.appliedModel = card.appliedModel
        BY <2>1, <1>1
    <2>3. CASE UNCHANGED <<save, torn>>
        <3>1. TranslationTables'
            BY <1>0, <2>1, <2>2, <2>3 DEF TranslationTables
        <3>2. OnlyCardStoresModel'
            BY <1>0, <2>2, <2>3 DEF OnlyCardStoresModel
        <3>3. ModelIsLast'
            BY <1>0, <2>1, <2>2, <2>3 DEF ModelIsLast
        <3>4. NothingOutlivesAChange'
            BY <1>0, <2>1, <2>3 DEF NothingOutlivesAChange
        <3> QED
            BY <3>1, <3>2, <3>3, <3>4 DEF TranslationInv
    <2>4. CASE Stopped("card")
               /\ save' = [save EXCEPT !["card"] = [at |-> "check", writes |-> <<>>]]
        <3>1. /\ save["card"].at = "clear" => torn'
              /\ torn => torn'
            BY <2>4 DEF Stopped
        <3>2. ModelIsLast'
            BY <2>4, <1>a
        <3> QED
            BY <2>1, <2>2, <2>4, <3>1, <3>2, <1>2, CardMoves
    <2> QED
        BY <1>7, <2>3, <2>4 DEF Echo
<1>8. CASE CheckModel
    <2>1. /\ save["card"].at = "check"
          /\ save' = [save EXCEPT !["card"] = [at |-> "put", writes |-> CardWrites]]
          /\ UNCHANGED <<kv, decisions, card, torn>>
        BY <1>8 DEF CheckModel
    <2>2. /\ CardWrites \in Seq(Writings) /\ CardWrites # <<>> /\ Len(CardWrites) # 0
          /\ card.fields.model # card.appliedModel
               => CardWrites[Len(CardWrites)] = Write("model", card.fields.model)
        BY <1>0, WritesOfTheCard
    <2>3. save'["card"].at = "put" /\ save'["card"].writes = CardWrites
        BY <2>1, <1>1 DEF Writers
    <2>4. ModelIsLast'
        BY <2>1, <2>2, <2>3 DEF ModelIsLast
    <2>5. card'.open /\ card' \in Cards /\ save["card"].at # "clear"
        BY <2>1, <1>0, <1>1 DEF OnlyCardStoresModel
    <2> QED
        BY <2>1, <2>2, <2>4, <2>5, <1>2, CardMoves
<1>9. CASE CardSaved
    <2>1. /\ save["card"].at = "put" /\ UNCHANGED <<kv, decisions, torn>>
          /\ save' = [save EXCEPT !["card"] = [at |-> "idle", writes |-> <<>>]]
          /\ \/ card' = Closed
             \/ card' = [card EXCEPT !.appliedMode = card.fields.mode]
        BY <1>9, <1>2 DEF CardSaved
    <2>2. card.fields.mode \in Value
        BY <1>1 DEF Settings
    <2>3. card' \in Cards
        BY <2>1, <2>2, <1>1, <1>d
    <2>4. ModelIsLast'
        BY <2>1, <1>a
    <2> QED
        BY <2>1, <2>3, <2>4, <1>2, CardMoves
<1> QED
    BY <1>3, <1>4, <1>5, <1>6, <1>7, <1>8, <1>9

LEMMA TranslationMoves == TranslationInv /\ [TranslationNext]_translationVars => TranslationInv'
<1> SUFFICES ASSUME TranslationInv, [TranslationNext]_translationVars
             PROVE  TranslationInv'
    OBVIOUS
<1>1. CASE UNCHANGED translationVars
    <2>1. /\ UNCHANGED <<kv, save, card, torn>>
          /\ DOMAIN decisions' = Messages
          /\ \A m \in Messages : decisions'[m] = decisions[m]
        BY <1>1 DEF translationVars, TranslationInv, TranslationTables
    <2> QED
        BY <2>1, DecisionsRefresh
<1>2. CASE \E p \in Passes :
               Begin(p) \/ ReadMode(p) \/ ReadLists(p) \/ LookUp(p) \/ LookedUp(p)
                 \/ Answer(p) \/ NoAnswer(p) \/ Store(p) \/ Abandon(p)
    BY <1>2, PassesMove
<1>3. CASE \E w \in Writers : SaveStep(w) \/ Fails(w) \/ Saved(w)
    BY <1>3, SettingsAreWritten, SavesEnd
<1>4. CASE WebSaves \/ CommandSaves
    BY <1>4, WebAndCommandBegin
<1>5. CASE OpenCard \/ CloseCard \/ Press \/ Enter \/ Echo \/ CheckModel \/ CardSaved
    BY <1>5, CardIsUsed
<1> QED
    BY <1>1, <1>2, <1>3, <1>4, <1>5 DEF TranslationNext

\* Changing a setting drops the cached rows (set_user_lang and the like): for any writers
\* at work together, once the saves have ended undisturbed every cached decision was
\* written after the settings were.
THEOREM ChangesClearDecisions == TranslationSpec => []NothingOutlivesAChange
<1>1. TranslationInv => NothingOutlivesAChange
    BY DEF TranslationInv
<1> QED
    BY <1>1, TranslationBegins, TranslationMoves, PTL DEF TranslationSpec

\* The settings card adopts a translator only when the model it was built for is the one
\* stored, whatever the web and the command write meanwhile (TranslateSettingsCard._save).
THEOREM AdoptsWhatIsStored == TranslationSpec => AdoptedIsStored
<1>1. TranslationInv /\ [TranslationNext]_translationVars
        => [live' # live => live' = Model]_translationVars
    <2> SUFFICES ASSUME TranslationInv, TranslationNext, live' # live
                 PROVE  live' = Model
        OBVIOUS
    <2>1. CardSaved
        BY DEF TranslationNext, Begin, ReadMode, ReadLists, LookUp, LookedUp, Answer, NoAnswer,
               Store, Abandon, SaveStep, Fails, Saved, WebSaves, CommandSaves, OpenCard, CloseCard,
               Press, Enter, Echo, CheckModel, Proven
    <2>2. /\ save["card"].at = "put" /\ save["card"].writes = <<>>
          /\ card.fields.model # card.appliedModel /\ live' = Built
        BY <2>1 DEF CardSaved
    <2>3. Len(save["card"].writes) = 0
        BY <2>2
    <2>4. kv.model = card.fields.model
        BY <2>2, <2>3 DEF TranslationInv, ModelIsLast
    <2> QED
        BY <2>2, <2>4 DEF Built, Model
<1> QED
    BY <1>1, TranslationBegins, TranslationMoves, PTL DEF TranslationSpec, AdoptedIsStored
=============================================================================
