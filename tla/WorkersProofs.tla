--------------------------- MODULE WorkersProofs ----------------------------
(***************************************************************************)
(* Proofs about the agent's two workers, for any tasks, sessions, dialogs  *)
(* and messages.  ReportWorker: the workers keep TaskLedger's promise,     *)
(* and their files keep every report until its task is settled.            *)
(* Ghostwrite: the engine tells the echo of its reply from the owner, and  *)
(* heeds the owner in whatever it does next.                               *)
(***************************************************************************)
EXTENDS ReportWorker, Ghostwrite, SequenceTheorems, TLAPS

(* The inductive invariant.                                                *)

\* The task w has been handed and has not begun, if any.
Handed(w) == pc[w] = "claiming" /\ answer[w] # None

\* Tasks at the factory and at Telegram: nothing is on its way or sent for a
\* task nobody has claimed, and no message is on its way twice.
TasksOK ==
    /\ \A t \in Tasks : sent[t] \in {0, 1}
    /\ \A t \in Tasks : sent[t] = 1 => status[t] # "pending"
    /\ \A t \in wire : sent[t] = 0 /\ status[t] # "pending"

\* What each worker holds, by the state it is in.
WorkersOK ==
    \A w \in Workers :
        /\ pc[w] = "claiming" => answer[w] \in Tasks \cup {None}
        /\ pc[w] \in {"replaying", "reporting"} => answer[w] \in {None, "ok", "conflict"}
        /\ pc[w] = "replaying" => items[w] # <<>>
        /\ pc[w] = "executing" => task[w] \in Tasks /\ status[task[w]] # "pending"

\* A task handed to a worker is that worker's alone, and untouched.
HandedOK ==
    \A w \in Workers : Handed(w) =>
        /\ status[answer[w]] # "pending"
        /\ answer[w] \notin wire
        /\ sent[answer[w]] = 0
        /\ \A v \in Workers : v # w => ~(Handed(v) /\ answer[v] = answer[w])

\* A queue holds reports of claimed tasks, and of messages sent if they say so.
True(r, st, sn) == st[r.task] # "pending" /\ (r.kind = "complete" => sn[r.task] = 1)
Truthful(q, st, sn) == \A i \in DOMAIN q : True(q[i], st, sn)

QueuesOK ==
    /\ \A w \in Workers : Truthful(items[w], status, sent)
    /\ \A w \in Workers : disk[w] # None => Truthful(disk[w], status, sent)
    /\ legacy # None => Truthful(legacy, status, sent)

IInv == TypeOK /\ NoWorkOverUnacked /\ TasksOK /\ WorkersOK /\ HandedOK /\ QueuesOK
-----------------------------------------------------------------------------
(* Queues.                                                                 *)

LEMMA AppendReport ==
    ASSUME NEW q \in Seq(Reports), NEW r \in Reports
    PROVE  /\ Append(q, r) \in Seq(Reports) /\ Append(q, r) # <<>>
           /\ q = <<>> => Len(Append(q, r)) = 1
           /\ \A i \in DOMAIN Append(q, r) :
                Append(q, r)[i] = r \/ \E j \in DOMAIN q : Append(q, r)[i] = q[j]
<1>1. \A i \in 1 .. Len(q) : Append(q, r)[i] = q[i]
  OBVIOUS
<1>2. Append(q, r)[Len(q) + 1] = r
  OBVIOUS
<1>3. /\ Append(q, r) \in Seq(Reports) /\ Len(Append(q, r)) = Len(q) + 1
      /\ DOMAIN Append(q, r) = 1 .. Len(q) + 1 /\ DOMAIN q = 1 .. Len(q)
  OBVIOUS
<1>4. \A i \in 1 .. Len(q) + 1 : i \in 1 .. Len(q) \/ i = Len(q) + 1
  OBVIOUS
<1> QED
  BY <1>1, <1>2, <1>3, <1>4

LEMMA TailReport ==
    ASSUME NEW q \in Seq(Reports), q # <<>>
    PROVE  /\ Tail(q) \in Seq(Reports)
           /\ Head(q) \in Reports /\ Last(q) \in Reports
           /\ \E i \in DOMAIN q : Head(q) = q[i]
           /\ \E i \in DOMAIN q : Last(q) = q[i]
           /\ \A i \in DOMAIN Tail(q) : \E j \in DOMAIN q : Tail(q)[i] = q[j]
<1>1. /\ Tail(q) \in Seq(Reports) /\ Len(Tail(q)) = Len(q) - 1
      /\ Head(q) = q[1] /\ 1 \in DOMAIN q /\ Len(q) \in DOMAIN q
      /\ \A i \in 1 .. Len(q) - 1 : Tail(q)[i] = q[i + 1]
  OBVIOUS
<1>2. \A i \in DOMAIN Tail(q) : i + 1 \in DOMAIN q
  BY <1>1
<1> QED
  BY <1>1, <1>2 DEF Last

LEMMA AppendTruthful ==
    ASSUME NEW q \in Seq(Reports), NEW r \in Reports, NEW st, NEW sn,
           Truthful(q, st, sn), True(r, st, sn)
    PROVE  Truthful(Append(q, r), st, sn)
  BY AppendReport DEF Truthful

LEMMA TailTruthful ==
    ASSUME NEW q \in Seq(Reports), q # <<>>, NEW st, NEW sn, Truthful(q, st, sn)
    PROVE  /\ Truthful(Tail(q), st, sn)
           /\ True(Head(q), st, sn) /\ True(Last(q), st, sn)
  BY TailReport DEF Truthful
-----------------------------------------------------------------------------
(* The invariant holds initially and every action preserves it.            *)

LEMMA LegacyOK ==
    /\ LegacyReports \in Seq(Reports)
    /\ \A i \in DOMAIN LegacyReports :
         /\ LegacyReports[i] \in Reports
         /\ InLegacy(LegacyReports[i].task)
<1>1. /\ DOMAIN Legacy = 1 .. Len(Legacy) /\ Len(Legacy) \in Nat
      /\ \A i \in DOMAIN Legacy : Legacy[i] \in Tasks
  BY ConstantsAssumption
<1>2. \A i \in DOMAIN Legacy : [kind |-> "complete", task |-> Legacy[i]] \in Reports
  BY <1>1 DEF Reports
<1>3. LegacyReports \in [1 .. Len(Legacy) -> Reports]
  BY <1>1, <1>2 DEF LegacyReports
<1>4. LegacyReports \in Seq(Reports)
  BY <1>1, <1>3
<1>5. \A i \in DOMAIN LegacyReports : LegacyReports[i].task = Legacy[i]
  BY <1>1 DEF LegacyReports
<1> QED
  BY <1>1, <1>3, <1>4, <1>5 DEF InLegacy, LegacyReports

\* A worker that posts a report has one.
LEMMA PostsSomething ==
    ASSUME IInv, NEW w \in Workers, pc[w] \in {"replaying", "reporting"}
    PROVE  items[w] \in Seq(Reports) /\ items[w] # <<>>
<1>1. items[w] \in Seq(Reports)
  BY DEF IInv, TypeOK
<1>2. Len(items[w]) = 1 => items[w] # <<>>
  <2>1. Len(<<>>) # 1
    OBVIOUS
  <2> QED
    BY <2>1
<1> QED
  BY <1>1, <1>2 DEF IInv, NoWorkOverUnacked, WorkersOK

LEMMA InitIInv == Init => IInv
<1> SUFFICES ASSUME Init PROVE IInv
  OBVIOUS
<1> USE ConstantsAssumption DEF Init
<1>1. TypeOK
  BY LegacyOK DEF TypeOK, States
<1>2. NoWorkOverUnacked
  BY DEF NoWorkOverUnacked
<1>3. TasksOK /\ WorkersOK /\ HandedOK
  BY DEF TasksOK, WorkersOK, HandedOK, Handed
<1>4. QueuesOK
  BY LegacyOK DEF QueuesOK, Truthful, True, Reports
<1> QED
  BY <1>1, <1>2, <1>3, <1>4 DEF IInv

\* Reports stay true: a claimed task is never pending again, and what is sent
\* is sent.
LEMMA QueuesStayTruthful ==
    ASSUME IInv, UNCHANGED <<items, disk, legacy>>,
           \A t \in Tasks : status[t] # "pending" => status'[t] # "pending",
           \A t \in Tasks : sent[t] = 1 => sent'[t] = 1
    PROVE  QueuesOK'
<1>1. \A q \in Seq(Reports) :
        Truthful(q, status, sent) => Truthful(q, status', sent')
  <2> TAKE q \in Seq(Reports)
  <2>1. \A i \in DOMAIN q : q[i] \in Reports
    OBVIOUS
  <2>2. \A i \in DOMAIN q : q[i].task \in Tasks
    BY <2>1 DEF Reports
  <2> QED
    BY <2>2 DEF Truthful, True
<1> QED
  BY <1>1 DEF IInv, TypeOK, QueuesOK

\* One queue is replaced by a truthful one, in memory and perhaps on disk.
LEMMA ReplacedTruthful ==
    ASSUME TypeOK, QueuesOK, NEW w \in Workers, NEW q, Truthful(q, status, sent),
           UNCHANGED <<status, sent, legacy>>,
           items' \in {items, [items EXCEPT ![w] = q]},
           disk' \in {disk, [disk EXCEPT ![w] = q]}
    PROVE  QueuesOK'
<1>1. /\ items \in [Workers -> Seq(Reports)]
      /\ disk \in [Workers -> Seq(Reports) \cup {None}]
  BY DEF TypeOK
<1>2. \A v \in Workers : items'[v] = items[v] \/ items'[v] = q
  BY <1>1
<1>3. \A v \in Workers : disk'[v] = disk[v] \/ disk'[v] = q
  BY <1>1
<1> QED
  BY <1>2, <1>3 DEF QueuesOK

LEMMA StartKeepsIInv ==
    ASSUME IInv, NEW w \in Workers, Start(w)
    PROVE  IInv'
<1> USE ConstantsAssumption DEF IInv, Start, Goes, Await, Answered, Loaded
<1>0. Loaded(w) \in Seq(Reports)
  BY DEF TypeOK
<1>1. TypeOK'
  <2>1. items' \in [Workers -> Seq(Reports)]
    BY <1>0 DEF TypeOK
  <2>2. pc' \in [Workers -> States]
    BY DEF TypeOK, States
  <2> QED
    BY <2>1, <2>2 DEF TypeOK
<1>2. NoWorkOverUnacked'
  BY AppendReport DEF TypeOK, NoWorkOverUnacked
<1>3. TasksOK'
  BY DEF TypeOK, TasksOK, WorkersOK, HandedOK, Handed
<1>4. WorkersOK'
  BY DEF TypeOK, WorkersOK, NoWorkOverUnacked
<1>5. HandedOK'
  BY DEF TypeOK, HandedOK, Handed, WorkersOK
<1>6. QueuesOK'
  <2>1. Truthful(Loaded(w), status, sent)
    BY DEF QueuesOK, Truthful
  <2>2. /\ UNCHANGED <<status, sent, legacy, disk>>
        /\ items' \in {items, [items EXCEPT ![w] = Loaded(w)]}
    OBVIOUS
  <2> QED
    BY <2>1, <2>2, ReplacedTruthful
<1> QED
  BY <1>1, <1>2, <1>3, <1>4, <1>5, <1>6

LEMMA AdoptKeepsIInv ==
    ASSUME IInv, NEW w \in Workers, Adopt(w)
    PROVE  IInv'
<1> USE ConstantsAssumption DEF IInv, Adopt, Goes, Await, Answered, Loaded
<1>1. TypeOK'
  BY AppendReport, TailReport DEF TypeOK, States, NoWorkOverUnacked, WorkersOK
<1>2. NoWorkOverUnacked'
  BY AppendReport DEF TypeOK, NoWorkOverUnacked
<1>3. TasksOK'
  BY DEF TypeOK, TasksOK, WorkersOK, HandedOK, Handed
<1>4. WorkersOK'
  BY DEF TypeOK, WorkersOK, NoWorkOverUnacked
<1>5. HandedOK'
  BY DEF TypeOK, HandedOK, Handed, WorkersOK
<1>6. QueuesOK'
  BY AppendReport, TailReport DEF TypeOK, QueuesOK, Truthful, True, TasksOK, WorkersOK
<1> QED
  BY <1>1, <1>2, <1>3, <1>4, <1>5, <1>6

LEMMA StartWithoutLegacyKeepsIInv ==
    ASSUME IInv, NEW w \in Workers, StartWithoutLegacy(w)
    PROVE  IInv'
<1> USE ConstantsAssumption DEF IInv, StartWithoutLegacy, Goes, Await, Answered, Loaded
<1>1. TypeOK'
  BY AppendReport, TailReport DEF TypeOK, States, NoWorkOverUnacked, WorkersOK
<1>2. NoWorkOverUnacked'
  BY AppendReport DEF TypeOK, NoWorkOverUnacked
<1>3. TasksOK'
  BY DEF TypeOK, TasksOK, WorkersOK, HandedOK, Handed
<1>4. WorkersOK'
  BY DEF TypeOK, WorkersOK, NoWorkOverUnacked
<1>5. HandedOK'
  BY DEF TypeOK, HandedOK, Handed, WorkersOK
<1>6. QueuesOK'
  BY AppendReport, TailReport DEF TypeOK, QueuesOK, Truthful, True, TasksOK, WorkersOK
<1> QED
  BY <1>1, <1>2, <1>3, <1>4, <1>5, <1>6

LEMMA StopKeepsIInv ==
    ASSUME IInv, NEW w \in Workers, Stop(w)
    PROVE  IInv'
<1> USE ConstantsAssumption DEF IInv, Stop, Goes, Await, Answered, Down, Loaded
<1>1. TypeOK'
  BY AppendReport, TailReport DEF TypeOK, States, NoWorkOverUnacked, WorkersOK
<1>2. NoWorkOverUnacked'
  BY AppendReport DEF TypeOK, NoWorkOverUnacked
<1>3. TasksOK'
  BY DEF TypeOK, TasksOK, WorkersOK, HandedOK, Handed
<1>4. WorkersOK'
  BY DEF TypeOK, WorkersOK, NoWorkOverUnacked
<1>5. HandedOK'
  BY DEF TypeOK, HandedOK, Handed, WorkersOK
<1>6. QueuesOK'
  BY AppendReport, TailReport DEF TypeOK, QueuesOK, Truthful, True, TasksOK, WorkersOK
<1> QED
  BY <1>1, <1>2, <1>3, <1>4, <1>5, <1>6

LEMMA PollKeepsIInv ==
    ASSUME IInv, NEW w \in Workers, Poll(w)
    PROVE  IInv'
<1> USE ConstantsAssumption DEF IInv, Poll, Goes, Await, Answered, Drained, Loaded
<1>1. TypeOK'
  BY AppendReport, TailReport DEF TypeOK, States, NoWorkOverUnacked, WorkersOK
<1>2. NoWorkOverUnacked'
  BY AppendReport DEF TypeOK, NoWorkOverUnacked
<1>3. TasksOK'
  BY DEF TypeOK, TasksOK, WorkersOK, HandedOK, Handed
<1>4. WorkersOK'
  BY DEF TypeOK, WorkersOK, NoWorkOverUnacked
<1>5. HandedOK'
  BY DEF TypeOK, HandedOK, Handed, WorkersOK
<1>6. QueuesOK'
  BY AppendReport, TailReport DEF TypeOK, QueuesOK, Truthful, True, TasksOK, WorkersOK
<1> QED
  BY <1>1, <1>2, <1>3, <1>4, <1>5, <1>6

LEMMA NothingToClaimKeepsIInv ==
    ASSUME IInv, NEW w \in Workers, NothingToClaim(w)
    PROVE  IInv'
<1> USE ConstantsAssumption DEF IInv, NothingToClaim, Goes, Await, Answered, Loaded
<1>1. TypeOK'
  BY AppendReport, TailReport DEF TypeOK, States, NoWorkOverUnacked, WorkersOK
<1>2. NoWorkOverUnacked'
  BY AppendReport DEF TypeOK, NoWorkOverUnacked
<1>3. TasksOK'
  BY DEF TypeOK, TasksOK, WorkersOK, HandedOK, Handed
<1>4. WorkersOK'
  BY DEF TypeOK, WorkersOK, NoWorkOverUnacked
<1>5. HandedOK'
  BY DEF TypeOK, HandedOK, Handed, WorkersOK
<1>6. QueuesOK'
  BY AppendReport, TailReport DEF TypeOK, QueuesOK, Truthful, True, TasksOK, WorkersOK
<1> QED
  BY <1>1, <1>2, <1>3, <1>4, <1>5, <1>6

LEMMA ExecuteKeepsIInv ==
    ASSUME IInv, NEW w \in Workers, Execute(w)
    PROVE  IInv'
<1> USE ConstantsAssumption DEF IInv, Execute, Goes, Await, Answered, Loaded
<1>1. TypeOK'
  BY AppendReport, TailReport DEF TypeOK, States, NoWorkOverUnacked, WorkersOK
<1>2. NoWorkOverUnacked'
  BY AppendReport DEF TypeOK, NoWorkOverUnacked
<1>3. TasksOK'
  BY DEF TypeOK, TasksOK, WorkersOK, HandedOK, Handed
<1>4. WorkersOK'
  <2>1. answer[w] \in Tasks /\ status[answer[w]] # "pending"
    BY DEF WorkersOK, HandedOK, Handed
  <2> QED
    BY <2>1 DEF TypeOK, WorkersOK, NoWorkOverUnacked
<1>5. HandedOK'
  BY DEF TypeOK, HandedOK, Handed, WorkersOK
<1>6. QueuesOK'
  BY AppendReport, TailReport DEF TypeOK, QueuesOK, Truthful, True, TasksOK, WorkersOK
<1> QED
  BY <1>1, <1>2, <1>3, <1>4, <1>5, <1>6

LEMMA SendReturnsKeepsIInv ==
    ASSUME IInv, NEW w \in Workers, SendReturns(w)
    PROVE  IInv'
<1> USE ConstantsAssumption DEF IInv, SendReturns, Goes, Await, Answered, Add, Loaded
<1>0. /\ task[w] \in Tasks /\ status[task[w]] # "pending"
      /\ [kind |-> "complete", task |-> task[w]] \in Reports
  BY DEF TypeOK, WorkersOK, Reports
<1> DEFINE r == [kind |-> "complete", task |-> task[w]]
           q == Append(items[w], r)
<1>q. q \in Seq(Reports) /\ items' = [items EXCEPT ![w] = q]
      /\ disk' \in {disk, [disk EXCEPT ![w] = q]}
  BY <1>0, AppendReport DEF TypeOK
<1>1. TypeOK'
  <2>0. /\ items \in [Workers -> Seq(Reports)]
        /\ disk \in [Workers -> Seq(Reports) \cup {None}]
    BY DEF TypeOK
  <2>1. items' \in [Workers -> Seq(Reports)]
    BY ONLY <1>q, <2>0
  <2>d. disk' \in [Workers -> Seq(Reports) \cup {None}]
    BY ONLY <1>q, <2>0
  <2>2. pc' \in [Workers -> States]
    BY DEF TypeOK, States
  <2>3. /\ task' \in [Workers -> Tasks \cup {None}]
        /\ answer' \in [Workers -> Tasks \cup {None, "ok", "conflict"}]
        /\ wire' \in SUBSET Tasks
    BY DEF TypeOK
  <2> QED
    BY <2>1, <2>d, <2>2, <2>3 DEF TypeOK
<1>2. NoWorkOverUnacked'
  BY AppendReport DEF TypeOK, NoWorkOverUnacked
<1>3. TasksOK'
  BY DEF TypeOK, TasksOK, WorkersOK, HandedOK, Handed
<1>4. WorkersOK'
  BY DEF TypeOK, WorkersOK, NoWorkOverUnacked
<1>5. HandedOK'
  <2>1. \A v \in Workers : Handed(v)' => Handed(v) /\ answer'[v] = answer[v]
    BY DEF TypeOK, Handed
  <2> QED
    BY <2>1 DEF HandedOK
<1>6. QueuesOK'
  <2>0. True(r, status, sent)
    BY <1>0 DEF TasksOK, True
  <2>1. Truthful(q, status, sent)
    BY <2>0, <1>0, AppendTruthful DEF TypeOK, QueuesOK, TasksOK, True
  <2>q. UNCHANGED <<status, sent, legacy>>
    OBVIOUS
  <2> QED
    BY <1>q, <2>1, <2>q, ReplacedTruthful
<1> QED
  BY <1>1, <1>2, <1>3, <1>4, <1>5, <1>6

LEMMA ExecutionRaisesKeepsIInv ==
    ASSUME IInv, NEW w \in Workers, ExecutionRaises(w)
    PROVE  IInv'
<1> USE ConstantsAssumption DEF IInv, ExecutionRaises, Goes, Await, Answered, Add, Loaded
<1>0. /\ task[w] \in Tasks /\ status[task[w]] # "pending"
      /\ [kind |-> "fail", task |-> task[w]] \in Reports
  BY DEF TypeOK, WorkersOK, Reports
<1> DEFINE r == [kind |-> "fail", task |-> task[w]]
           q == Append(items[w], r)
<1>q. q \in Seq(Reports) /\ items' = [items EXCEPT ![w] = q]
      /\ disk' \in {disk, [disk EXCEPT ![w] = q]}
  BY <1>0, AppendReport DEF TypeOK
<1>1. TypeOK'
  <2>0. /\ items \in [Workers -> Seq(Reports)]
        /\ disk \in [Workers -> Seq(Reports) \cup {None}]
    BY DEF TypeOK
  <2>1. items' \in [Workers -> Seq(Reports)]
    BY ONLY <1>q, <2>0
  <2>d. disk' \in [Workers -> Seq(Reports) \cup {None}]
    BY ONLY <1>q, <2>0
  <2>2. pc' \in [Workers -> States]
    BY DEF TypeOK, States
  <2>3. /\ task' \in [Workers -> Tasks \cup {None}]
        /\ answer' \in [Workers -> Tasks \cup {None, "ok", "conflict"}]
        /\ wire' \in SUBSET Tasks
    BY DEF TypeOK
  <2> QED
    BY <2>1, <2>d, <2>2, <2>3 DEF TypeOK
<1>2. NoWorkOverUnacked'
  BY AppendReport DEF TypeOK, NoWorkOverUnacked
<1>3. TasksOK'
  BY DEF TypeOK, TasksOK, WorkersOK, HandedOK, Handed
<1>4. WorkersOK'
  BY DEF TypeOK, WorkersOK, NoWorkOverUnacked
<1>5. HandedOK'
  <2>1. \A v \in Workers : Handed(v)' => Handed(v) /\ answer'[v] = answer[v]
    BY DEF TypeOK, Handed
  <2> QED
    BY <2>1 DEF HandedOK
<1>6. QueuesOK'
  <2>0. True(r, status, sent)
    BY <1>0 DEF TasksOK, True
  <2>1. Truthful(q, status, sent)
    BY <2>0, <1>0, AppendTruthful DEF TypeOK, QueuesOK, TasksOK, True
  <2>q. UNCHANGED <<status, sent, legacy>>
    OBVIOUS
  <2> QED
    BY <1>q, <2>1, <2>q, ReplacedTruthful
<1> QED
  BY <1>1, <1>2, <1>3, <1>4, <1>5, <1>6

LEMMA ConfirmedKeepsIInv ==
    ASSUME IInv, NEW w \in Workers, Confirmed(w)
    PROVE  IInv'
<1> USE ConstantsAssumption DEF IInv, Confirmed, Goes, Await, Answered, Ack, Loaded
<1>0. items[w] \in Seq(Reports) /\ items[w] # <<>>
  BY PostsSomething
<1>q. /\ Tail(items[w]) \in Seq(Reports)
      /\ items' = [items EXCEPT ![w] = Tail(items[w])]
      /\ disk' \in {disk, [disk EXCEPT ![w] = Tail(items[w])]}
  BY <1>0, TailReport DEF TypeOK
<1>1. TypeOK'
  <2>0. /\ items \in [Workers -> Seq(Reports)]
        /\ disk \in [Workers -> Seq(Reports) \cup {None}]
    BY DEF TypeOK
  <2>1. items' \in [Workers -> Seq(Reports)]
    BY ONLY <1>q, <2>0
  <2>d. disk' \in [Workers -> Seq(Reports) \cup {None}]
    BY ONLY <1>q, <2>0
  <2>2. pc' \in [Workers -> States]
    BY DEF TypeOK, States
  <2>3. /\ task' \in [Workers -> Tasks \cup {None}]
        /\ answer' \in [Workers -> Tasks \cup {None, "ok", "conflict"}]
        /\ wire' \in SUBSET Tasks
    BY DEF TypeOK
  <2> QED
    BY <2>1, <2>d, <2>2, <2>3 DEF TypeOK
<1>2. NoWorkOverUnacked'
  BY AppendReport DEF TypeOK, NoWorkOverUnacked
<1>3. TasksOK'
  BY DEF TypeOK, TasksOK, WorkersOK, HandedOK, Handed
<1>4. WorkersOK'
  BY DEF TypeOK, WorkersOK, NoWorkOverUnacked
<1>5. HandedOK'
  BY DEF TypeOK, HandedOK, Handed, WorkersOK
<1>6. QueuesOK'
  <2>1. Truthful(Tail(items[w]), status, sent)
    BY <1>0, TailTruthful DEF QueuesOK
  <2>q. UNCHANGED <<status, sent, legacy>>
    OBVIOUS
  <2> QED
    BY <1>q, <2>1, <2>q, ReplacedTruthful
<1> QED
  BY <1>1, <1>2, <1>3, <1>4, <1>5, <1>6

LEMMA ConflictsKeepsIInv ==
    ASSUME IInv, NEW w \in Workers, Conflicts(w)
    PROVE  IInv'
<1> USE ConstantsAssumption DEF IInv, Conflicts, Goes, Await, Answered, Ack, Loaded
<1>0. items[w] \in Seq(Reports) /\ items[w] # <<>>
  BY PostsSomething
<1>q. /\ Tail(items[w]) \in Seq(Reports)
      /\ items' = [items EXCEPT ![w] = Tail(items[w])]
      /\ disk' \in {disk, [disk EXCEPT ![w] = Tail(items[w])]}
  BY <1>0, TailReport DEF TypeOK
<1>1. TypeOK'
  <2>0. /\ items \in [Workers -> Seq(Reports)]
        /\ disk \in [Workers -> Seq(Reports) \cup {None}]
    BY DEF TypeOK
  <2>1. items' \in [Workers -> Seq(Reports)]
    BY ONLY <1>q, <2>0
  <2>d. disk' \in [Workers -> Seq(Reports) \cup {None}]
    BY ONLY <1>q, <2>0
  <2>2. pc' \in [Workers -> States]
    BY DEF TypeOK, States
  <2>3. /\ task' \in [Workers -> Tasks \cup {None}]
        /\ answer' \in [Workers -> Tasks \cup {None, "ok", "conflict"}]
        /\ wire' \in SUBSET Tasks
    BY DEF TypeOK
  <2> QED
    BY <2>1, <2>d, <2>2, <2>3 DEF TypeOK
<1>2. NoWorkOverUnacked'
  BY AppendReport DEF TypeOK, NoWorkOverUnacked
<1>3. TasksOK'
  BY DEF TypeOK, TasksOK, WorkersOK, HandedOK, Handed
<1>4. WorkersOK'
  BY DEF TypeOK, WorkersOK, NoWorkOverUnacked
<1>5. HandedOK'
  BY DEF TypeOK, HandedOK, Handed, WorkersOK
<1>6. QueuesOK'
  <2>1. Truthful(Tail(items[w]), status, sent)
    BY <1>0, TailTruthful DEF QueuesOK
  <2>q. UNCHANGED <<status, sent, legacy>>
    OBVIOUS
  <2> QED
    BY <1>q, <2>1, <2>q, ReplacedTruthful
<1> QED
  BY <1>1, <1>2, <1>3, <1>4, <1>5, <1>6

LEMMA ReportUnconfirmedKeepsIInv ==
    ASSUME IInv, NEW w \in Workers, ReportUnconfirmed(w)
    PROVE  IInv'
<1> USE ConstantsAssumption DEF IInv, ReportUnconfirmed, Goes, Await, Answered, Loaded
<1>1. TypeOK'
  BY AppendReport, TailReport DEF TypeOK, States, NoWorkOverUnacked, WorkersOK
<1>2. NoWorkOverUnacked'
  BY AppendReport DEF TypeOK, NoWorkOverUnacked
<1>3. TasksOK'
  BY DEF TypeOK, TasksOK, WorkersOK, HandedOK, Handed
<1>4. WorkersOK'
  BY DEF TypeOK, WorkersOK, NoWorkOverUnacked
<1>5. HandedOK'
  BY DEF TypeOK, HandedOK, Handed, WorkersOK
<1>6. QueuesOK'
  BY AppendReport, TailReport DEF TypeOK, QueuesOK, Truthful, True, TasksOK, WorkersOK
<1> QED
  BY <1>1, <1>2, <1>3, <1>4, <1>5, <1>6

LEMMA UnansweredKeepsIInv ==
    ASSUME IInv, NEW w \in Workers, Unanswered(w)
    PROVE  IInv'
<1> USE ConstantsAssumption DEF IInv, Unanswered, Goes, Await, Answered, Loaded
<1>1. TypeOK'
  BY AppendReport, TailReport DEF TypeOK, States, NoWorkOverUnacked, WorkersOK
<1>2. NoWorkOverUnacked'
  BY AppendReport DEF TypeOK, NoWorkOverUnacked
<1>3. TasksOK'
  BY DEF TypeOK, TasksOK, WorkersOK, HandedOK, Handed
<1>4. WorkersOK'
  BY DEF TypeOK, WorkersOK, NoWorkOverUnacked
<1>5. HandedOK'
  BY DEF TypeOK, HandedOK, Handed, WorkersOK
<1>6. QueuesOK'
  BY AppendReport, TailReport DEF TypeOK, QueuesOK, Truthful, True, TasksOK, WorkersOK
<1> QED
  BY <1>1, <1>2, <1>3, <1>4, <1>5, <1>6

LEMMA RefusedKeepsIInv ==
    ASSUME IInv, NEW w \in Workers, Refused(w)
    PROVE  IInv'
<1> USE ConstantsAssumption DEF IInv, Refused, Goes, Await, Answered, Down, Loaded
<1>1. TypeOK'
  BY AppendReport, TailReport DEF TypeOK, States, NoWorkOverUnacked, WorkersOK
<1>2. NoWorkOverUnacked'
  BY AppendReport DEF TypeOK, NoWorkOverUnacked
<1>3. TasksOK'
  BY DEF TypeOK, TasksOK, WorkersOK, HandedOK, Handed
<1>4. WorkersOK'
  BY DEF TypeOK, WorkersOK, NoWorkOverUnacked
<1>5. HandedOK'
  BY DEF TypeOK, HandedOK, Handed, WorkersOK
<1>6. QueuesOK'
  <2>1. /\ UNCHANGED <<disk, legacy, status, sent>>
        /\ items' = [items EXCEPT ![w] = <<>>]
    OBVIOUS
  <2>2. Truthful(<<>>, status, sent)
    BY DEF Truthful
  <2> QED
    BY <2>1, <2>2, ReplacedTruthful
<1> QED
  BY <1>1, <1>2, <1>3, <1>4, <1>5, <1>6

LEMMA FactoryHearsKeepsIInv ==
    ASSUME IInv, NEW w \in Workers, FactoryHears(w)
    PROVE  IInv'
<1> USE ConstantsAssumption DEF IInv, FactoryHears, Goes, Await, Answered, Posted, Loaded
<1> DEFINE r == Posted(w)
<1>0. /\ r \in Reports /\ True(r, status, sent)
      /\ r.task \in Tasks /\ r.kind \in {"complete", "fail"}
  <2>1. items[w] \in Seq(Reports) /\ items[w] # <<>>
    BY PostsSomething
  <2>2. r \in Reports /\ True(r, status, sent)
    BY <2>1, TailReport, TailTruthful DEF QueuesOK
  <2> QED
    BY <2>2 DEF Reports
<1> HIDE DEF Posted
<1>s. /\ status' \in [Tasks -> {"pending", "claimed", "completed", "failed", "overridden"}]
      /\ \A t \in Tasks : status[t] # "pending" => status'[t] # "pending"
  <2>1. status \in [Tasks -> {"pending", "claimed", "completed", "failed", "overridden"}]
    BY DEF TypeOK
  <2>2. r.task \in Tasks /\ Outcome(r.kind) \in {"completed", "failed"}
    BY <1>0 DEF Outcome
  <2>3. status' \in {status, [status EXCEPT ![r.task] = Outcome(r.kind)]}
    OBVIOUS
  <2> QED
    BY ONLY <2>1, <2>2, <2>3
<1>a. /\ answer'[w] \in {"ok", "conflict"}
      /\ answer' = [answer EXCEPT ![w] = answer'[w]]
  BY DEF TypeOK
<1>1. TypeOK'
  BY <1>s, <1>a DEF TypeOK
<1>2. NoWorkOverUnacked'
  BY AppendReport DEF TypeOK, NoWorkOverUnacked
<1>3. TasksOK'
  BY <1>s DEF TypeOK, TasksOK
<1>4. WorkersOK'
  BY <1>s, <1>a DEF TypeOK, WorkersOK
<1>5. HandedOK'
  <2>1. \A v \in Workers : Handed(v)' => Handed(v) /\ answer'[v] = answer[v]
    BY <1>a DEF TypeOK, Handed
  <2>2. \A v \in Workers : Handed(v) => answer[v] \in Tasks
    BY DEF WorkersOK, Handed
  <2> QED
    BY <1>s, <2>1, <2>2 DEF HandedOK
<1>6. QueuesOK'
  BY <1>s, QueuesStayTruthful
<1> QED
  BY <1>1, <1>2, <1>3, <1>4, <1>5, <1>6


LEMMA FactoryClaimsKeepsIInv ==
    ASSUME IInv, NEW w \in Workers, NEW t \in Tasks, FactoryClaims(w, t)
    PROVE  IInv'
<1> USE ConstantsAssumption DEF IInv, FactoryClaims, Answered
<1>s. /\ status' \in [Tasks -> {"pending", "claimed", "completed", "failed", "overridden"}]
      /\ \A x \in Tasks : status[x] # "pending" => status'[x] # "pending"
  BY DEF TypeOK
<1>1. TypeOK'
  BY <1>s DEF TypeOK
<1>2. NoWorkOverUnacked'
  BY DEF NoWorkOverUnacked
<1>3. TasksOK'
  BY <1>s DEF TypeOK, TasksOK
<1>4. WorkersOK'
  BY <1>s DEF TypeOK, WorkersOK
<1>5. HandedOK'
  <2>1. t \notin wire /\ sent[t] = 0
    BY DEF TasksOK
  <2>2. /\ answer'[w] = t /\ status'[t] # "pending"
        /\ \A v \in Workers : v # w => answer'[v] = answer[v] /\ (Handed(v)' <=> Handed(v))
    BY DEF TypeOK, Handed
  <2>3. \A v \in Workers : Handed(v) => answer[v] \in Tasks /\ answer[v] # t
    BY DEF WorkersOK, HandedOK, Handed
  <2> QED
    BY <1>s, <2>1, <2>2, <2>3 DEF HandedOK
<1>6. QueuesOK'
  BY <1>s, QueuesStayTruthful
<1> QED
  BY <1>1, <1>2, <1>3, <1>4, <1>5, <1>6

LEMMA FactoryOverridesKeepsIInv ==
    ASSUME IInv, NEW t \in Tasks, FactoryOverrides(t)
    PROVE  IInv'
<1> USE ConstantsAssumption DEF IInv, FactoryOverrides
<1>s. /\ status' \in [Tasks -> {"pending", "claimed", "completed", "failed", "overridden"}]
      /\ \A x \in Tasks : status[x] # "pending" => status'[x] # "pending"
  BY DEF TypeOK
<1>1. TypeOK'
  BY <1>s DEF TypeOK
<1>2. NoWorkOverUnacked'
  BY DEF NoWorkOverUnacked
<1>3. TasksOK'
  BY <1>s DEF TypeOK, TasksOK
<1>4. WorkersOK'
  BY <1>s DEF TypeOK, WorkersOK
<1>5. HandedOK'
  <2>1. \A v \in Workers : Handed(v) => answer[v] \in Tasks
    BY DEF WorkersOK, Handed
  <2> QED
    BY <1>s, <2>1 DEF HandedOK, Handed
<1>6. QueuesOK'
  BY <1>s, QueuesStayTruthful
<1> QED
  BY <1>1, <1>2, <1>3, <1>4, <1>5, <1>6

LEMMA TelegramSendsKeepsIInv ==
    ASSUME IInv, NEW t \in Tasks, TelegramSends(t)
    PROVE  IInv'
<1> USE ConstantsAssumption DEF IInv, TelegramSends
<1>s. /\ sent' \in [Tasks -> Nat] /\ sent'[t] = 1 /\ status[t] # "pending"
      /\ \A x \in Tasks : x # t => sent'[x] = sent[x]
  BY DEF TypeOK, TasksOK
<1>1. TypeOK'
  BY <1>s DEF TypeOK
<1>2. NoWorkOverUnacked'
  BY DEF NoWorkOverUnacked
<1>3. TasksOK'
  BY <1>s DEF TypeOK, TasksOK
<1>4. WorkersOK'
  BY DEF WorkersOK
<1>5. HandedOK'
  <2>1. \A v \in Workers : Handed(v) => answer[v] \in Tasks /\ answer[v] # t
    BY DEF WorkersOK, HandedOK, Handed
  <2> QED
    BY <1>s, <2>1 DEF HandedOK, Handed
<1>6. QueuesOK'
  BY <1>s, QueuesStayTruthful
<1> QED
  BY <1>1, <1>2, <1>3, <1>4, <1>5, <1>6

LEMMA NextKeepsIInv == IInv /\ [Next]_vars => IInv'
<1> SUFFICES ASSUME IInv, [Next]_vars
             PROVE  IInv'
  OBVIOUS
<1>1. CASE \E w \in Workers : Start(w) \/ Adopt(w) \/ StartWithoutLegacy(w) \/ Stop(w)
  BY <1>1, StartKeepsIInv, AdoptKeepsIInv, StartWithoutLegacyKeepsIInv, StopKeepsIInv
<1>2. CASE \E w \in Workers : Poll(w) \/ NothingToClaim(w) \/ Execute(w)
  BY <1>2, PollKeepsIInv, NothingToClaimKeepsIInv, ExecuteKeepsIInv
<1>3. CASE \E w \in Workers : SendReturns(w) \/ ExecutionRaises(w)
  BY <1>3, SendReturnsKeepsIInv, ExecutionRaisesKeepsIInv
<1>4. CASE \E w \in Workers : Confirmed(w) \/ Conflicts(w) \/ ReportUnconfirmed(w)
  BY <1>4, ConfirmedKeepsIInv, ConflictsKeepsIInv, ReportUnconfirmedKeepsIInv
<1>5. CASE \E w \in Workers : Unanswered(w) \/ Refused(w) \/ FactoryHears(w)
  BY <1>5, UnansweredKeepsIInv, RefusedKeepsIInv, FactoryHearsKeepsIInv
<1>6. CASE \E w \in Workers, t \in Tasks : FactoryClaims(w, t)
  BY <1>6, FactoryClaimsKeepsIInv
<1>7. CASE \E t \in Tasks : FactoryOverrides(t) \/ TelegramSends(t)
  BY <1>7, FactoryOverridesKeepsIInv, TelegramSendsKeepsIInv
<1>8. CASE UNCHANGED vars
  BY <1>8 DEF vars, IInv, TypeOK, NoWorkOverUnacked, TasksOK, WorkersOK, HandedOK,
              Handed, QueuesOK, Truthful, True
<1> QED
  BY <1>1, <1>2, <1>3, <1>4, <1>5, <1>6, <1>7, <1>8 DEF Next

\* The invariant: what workers hold at each await, and that the reports in memory
\* and on disk are true of claimed tasks (Worker, ReportQueue).
THEOREM Invariance == Spec => []IInv
  BY InitIInv, NextKeepsIInv, PTL DEF Spec
-----------------------------------------------------------------------------
(* The results.                                                            *)

\* Every variable keeps its type: queues and files hold reports, for any number
\* of restarts, migrations and failed writes.
THEOREM TypeCorrect == Spec => []TypeOK
<1>1. IInv => TypeOK
  BY DEF IInv
<1> QED
  BY <1>1, Invariance, PTL

\* No session claims or executes a task while a report of its own is unacknowledged
\* (#294), and the report it acknowledges is the one it posted.
THEOREM ClaimsOnlyWhenDrained == Spec => []NoWorkOverUnacked
<1>1. IInv => NoWorkOverUnacked
  BY DEF IInv
<1> QED
  BY <1>1, Invariance, PTL

LEMMA InitInLedger == Init => Ledger!Init
  BY DEF Init, Ledger!Init

LEMMA StepInLedger == IInv /\ [Next]_vars => [Ledger!Next]_(Ledger!vars)
<1> SUFFICES ASSUME IInv, [Next]_vars
             PROVE  [Ledger!Next]_(Ledger!vars)
  OBVIOUS
<1>1. ASSUME NEW w \in Workers, NEW t \in Tasks, FactoryClaims(w, t)
      PROVE  Ledger!Claim(t)
  BY <1>1 DEF FactoryClaims, Ledger!Claim
<1>2. ASSUME NEW t \in Tasks, TelegramSends(t)
      PROVE  Ledger!Send(t)
  <2>1. sent[t] = 0 /\ status[t] # "pending" /\ sent \in [Tasks -> Nat]
    BY <1>2 DEF TelegramSends, IInv, TypeOK, TasksOK
  <2>2. sent' = [sent EXCEPT ![t] = 1]
    BY <1>2, <2>1 DEF TelegramSends
  <2> QED
    BY <1>2, <2>1, <2>2 DEF TelegramSends, Ledger!Send
<1>3. ASSUME NEW t \in Tasks, FactoryOverrides(t)
      PROVE  Ledger!Settle(t, "overridden")
  BY <1>3 DEF FactoryOverrides, Ledger!Settle
<1>4. ASSUME NEW w \in Workers, FactoryHears(w)
      PROVE  \/ UNCHANGED Ledger!vars
             \/ \E t \in Tasks, outcome \in Ledger!Outcomes : Ledger!Settle(t, outcome)
  <2> DEFINE r == Posted(w)
             o == Outcome(r.kind)
  <2>1. items[w] \in Seq(Reports) /\ items[w] # <<>>
    BY <1>4, PostsSomething DEF FactoryHears
  <2>2. /\ r \in Reports /\ True(r, status, sent)
    BY <2>1, TailReport, TailTruthful DEF IInv, QueuesOK, Posted
  <2>3. /\ r.task \in Tasks /\ o \in Ledger!Outcomes
        /\ o = "completed" => sent[r.task] = 1
    BY <2>2 DEF Reports, Outcome, Ledger!Outcomes, True
  <2>4. UNCHANGED sent
    BY <1>4 DEF FactoryHears
  <2>5. CASE status[r.task] = "claimed"
    <3>1. status' = [status EXCEPT ![r.task] = o]
      BY <1>4, <2>5 DEF FactoryHears
    <3>2. Ledger!Settle(r.task, o)
      BY <2>3, <2>4, <2>5, <3>1 DEF Ledger!Settle
    <3> QED
      BY <2>3, <3>2
  <2>6. CASE status[r.task] # "claimed"
    <3>1. status' = status
      BY <1>4, <2>6, <2>3 DEF FactoryHears, IInv, TypeOK
    <3> QED
      BY <2>4, <3>1 DEF Ledger!vars
  <2> QED
    BY <2>5, <2>6
<1>5. ASSUME NEW w \in Workers,
             \/ Start(w) \/ Adopt(w) \/ StartWithoutLegacy(w) \/ Stop(w)
             \/ Poll(w) \/ NothingToClaim(w) \/ Execute(w)
             \/ SendReturns(w) \/ ExecutionRaises(w)
             \/ Confirmed(w) \/ Conflicts(w) \/ ReportUnconfirmed(w)
             \/ Unanswered(w) \/ Refused(w)
      PROVE  UNCHANGED Ledger!vars
  BY <1>5 DEF Start, Adopt, StartWithoutLegacy, Stop, Poll, NothingToClaim, Execute,
              SendReturns, ExecutionRaises, Confirmed, Conflicts, ReportUnconfirmed,
              Unanswered, Refused, Ledger!vars
<1>6. CASE UNCHANGED vars
  BY <1>6 DEF vars, Ledger!vars
<1> QED
  BY <1>1, <1>2, <1>3, <1>4, <1>5, <1>6 DEF Next, Ledger!Next, Ledger!Outcomes

\* Whatever crashes, is lost or is replayed, in however many sessions, a task is
\* claimed once, sends at most one message, is reported completed only if it sent
\* it, and keeps its outcome.
THEOREM WorkersKeepLedger == Spec => KeepsLedger
  BY InitInLedger, StepInLedger, Invariance, PTL DEF Spec, KeepsLedger, Ledger!Spec

-----------------------------------------------------------------------------
(* The ghostwriter *)

\* Queues of distinct events.
AllDiffer(s) == \A i, j \in DOMAIN s : i # j => s[i] # s[j]

LEMMA QueueGrows ==
    ASSUME NEW S, NEW s \in Seq(S), NEW x \in S
    PROVE  /\ Append(s, x) \in Seq(S)
           /\ ToSet(Append(s, x)) = ToSet(s) \union {x}
           /\ AllDiffer(s) /\ x \notin ToSet(s) => AllDiffer(Append(s, x))
<1> DEFINE t == Append(s, x)
<1>1. /\ t \in Seq(S) /\ Len(s) \in Nat /\ Len(t) = Len(s) + 1
      /\ DOMAIN s = 1..Len(s) /\ DOMAIN t = 1..(Len(s) + 1)
    OBVIOUS
<1>2. t[Len(s) + 1] = x /\ \A i \in DOMAIN s : t[i] = s[i]
    OBVIOUS
<1> HIDE DEF t
<1>3. \A i \in DOMAIN t : i = Len(s) + 1 \/ i \in DOMAIN s
    BY <1>1
<1>4. DOMAIN s \subseteq DOMAIN t /\ Len(s) + 1 \in DOMAIN t
    BY <1>1
<1>5. ToSet(t) = ToSet(s) \union {x}
    <2>1. \A i \in DOMAIN t : t[i] \in ToSet(s) \union {x}
        BY <1>2, <1>3 DEF ToSet
    <2>2. \A y \in ToSet(s) : \E i \in DOMAIN t : t[i] = y
        BY <1>2, <1>4 DEF ToSet
    <2>3. \E i \in DOMAIN t : t[i] = x
        BY <1>2, <1>4
    <2> QED
        BY <2>1, <2>2, <2>3 DEF ToSet
<1>6. ASSUME AllDiffer(s), x \notin ToSet(s)
      PROVE  AllDiffer(t)
    <2> SUFFICES ASSUME NEW i \in DOMAIN t, NEW j \in DOMAIN t, i # j
                 PROVE  t[i] # t[j]
        BY DEF AllDiffer
    <2>1. \A k \in DOMAIN s : s[k] # x
        BY <1>6 DEF ToSet
    <2>2. CASE i \in DOMAIN s /\ j \in DOMAIN s
        BY <2>2, <1>2, <1>6 DEF AllDiffer
    <2>3. CASE i = Len(s) + 1 /\ j \in DOMAIN s
        BY <2>3, <2>1, <1>2
    <2>4. CASE j = Len(s) + 1 /\ i \in DOMAIN s
        BY <2>4, <2>1, <1>2
    <2> QED
        BY <2>2, <2>3, <2>4, <1>3
<1> QED
    BY <1>1, <1>5, <1>6 DEF t

LEMMA QueueMovesOn ==
    ASSUME NEW S, NEW s \in Seq(S), s # <<>>
    PROVE  /\ Tail(s) \in Seq(S) /\ Head(s) \in S
           /\ ToSet(s) = ToSet(Tail(s)) \union {Head(s)}
           /\ AllDiffer(s) => AllDiffer(Tail(s)) /\ Head(s) \notin ToSet(Tail(s))
<1> DEFINE t == Tail(s)
<1>1. /\ t \in Seq(S) /\ Head(s) \in S /\ Head(s) = s[1] /\ Len(s) \in Nat \ {0}
      /\ Len(t) = Len(s) - 1 /\ DOMAIN s = 1..Len(s) /\ DOMAIN t = 1..(Len(s) - 1)
    OBVIOUS
<1>2. \A i \in DOMAIN t : t[i] = s[i + 1]
    OBVIOUS
<1> HIDE DEF t
<1>3. /\ \A i \in DOMAIN t : i + 1 \in DOMAIN s /\ i + 1 # 1
      /\ \A i \in DOMAIN s : i = 1 \/ i - 1 \in DOMAIN t
      /\ 1 \in DOMAIN s
    BY <1>1
<1>4. \A i \in DOMAIN s : i = 1 \/ (i - 1 \in DOMAIN t /\ t[i - 1] = s[i])
    <2> TAKE i \in DOMAIN s
    <2>1. CASE i # 1
        <3>1. i - 1 \in DOMAIN t
            BY <2>1, <1>3
        <3>2. t[i - 1] = s[(i - 1) + 1]
            BY <3>1, <1>2
        <3>3. (i - 1) + 1 = i
            BY <1>1
        <3> QED
            BY <3>1, <3>2, <3>3
    <2> QED
        BY <2>1
<1>5. ToSet(s) = ToSet(t) \union {Head(s)}
    <2>1. \A i \in DOMAIN s : s[i] \in ToSet(t) \union {Head(s)}
        BY <1>1, <1>4 DEF ToSet
    <2>2. \A i \in DOMAIN t : t[i] \in ToSet(s)
        BY <1>2, <1>3 DEF ToSet
    <2>3. Head(s) \in ToSet(s)
        BY <1>1, <1>3 DEF ToSet
    <2> QED
        BY <2>1, <2>2, <2>3 DEF ToSet
<1>6. ASSUME AllDiffer(s)
      PROVE  AllDiffer(t) /\ Head(s) \notin ToSet(t)
    <2>1. AllDiffer(t)
        <3> SUFFICES ASSUME NEW i \in DOMAIN t, NEW j \in DOMAIN t, i # j
                     PROVE  t[i] # t[j]
            BY DEF AllDiffer
        <3>1. i + 1 # j + 1
            BY <1>1
        <3> QED
            BY <3>1, <1>2, <1>3, <1>6 DEF AllDiffer
    <2>2. Head(s) \notin ToSet(t)
        BY <1>1, <1>2, <1>3, <1>6 DEF AllDiffer, ToSet
    <2> QED
        BY <2>1, <2>2
<1> QED
    BY <1>1, <1>5, <1>6 DEF t

-----------------------------------------------------------------------------
(* The inductive invariant *)

Mails == [dialog : Dialogs, by : {"owner", "engine"}]
Engines == [at : {"idle", "drafting", "cleared", "sending", "deferred"},
            dialog : Dialogs \union {Nobody}, id : Nat, events : Seq(Nat)]
Judges == [at : {"none", "look", "pause"}, event : Nat]

GhostTables ==
    /\ enabled \subseteq Dialogs
    /\ paused \in [Dialogs -> {"no", "day", "forever"}]
    /\ mail \in Seq(Mails)
    /\ outq \in Seq(Nat)
    /\ eng \in Engines
    /\ judge \in [{"in", "out"} -> Judges]
    /\ late \in [Dialogs -> Nat]

\* Every number is that of a message; an event is on its way once.
EventsAreMail ==
    /\ coming \subseteq DOMAIN mail
    /\ ToSet(outq) \subseteq DOMAIN mail /\ AllDiffer(outq) /\ ToSet(outq) \cap coming = {}
    /\ ToSet(eng.events) \subseteq DOMAIN mail
    /\ \A h \in {"in", "out"} :
          judge[h].event \in IF judge[h].at = "none" THEN {0} ELSE DOMAIN mail

\* Whatever the engine knows to be its own, and has not heard, is in _own_sent.
OwnIsKnown ==
    /\ own \subseteq known /\ known \subseteq DOMAIN mail
    /\ \A e \in known : mail[e].by = "engine"
    /\ known \cap (coming \union ToSet(outq)) \subseteq own

\* A reply that is under way has a dialog, and its id is that of a message there.
ReplyIsThere ==
    /\ eng.at # "idle" => eng.dialog \in Dialogs
    /\ eng.at \in {"idle", "drafting", "cleared"} => eng.id = 0
    /\ eng.id # 0 => /\ eng.id \in DOMAIN mail
                     /\ mail[eng.id] = [dialog |-> eng.dialog, by |-> "engine"]

\* No consumer judges what it might take for the owner's: neither the reply under way,
\* nor, in the outgoing one, any that is known.
JudgesAreCareful ==
    /\ eng.at # "deferred" => judge["in"].at = "none"
    /\ eng.id # 0 => judge["in"].event # eng.id
    /\ eng.at = "sending" /\ eng.id # 0 => judge["out"].event # eng.id
    /\ judge["out"].event \notin known

\* What is to be heeded is the owner's, in a dialog that is active, and in hand.
OwnersAreHeld ==
    /\ unheeded \subseteq Held
    /\ \A e \in unheeded : e \in DOMAIN mail /\ mail[e].by = "owner" /\ Active(mail[e].dialog)

\* A dialog a reply fell into after its silence is silent, and the engine has no other
\* reply for it.
LateIsOver ==
    \A d \in Dialogs :
        /\ late[d] <= 1
        /\ late[d] = 1 => /\ Silent(d)
                          /\ eng.at = "cleared" => eng.dialog # d
                          /\ eng.at = "sending" /\ eng.id = 0 => eng.dialog # d

GhostInv ==
    /\ GhostTables /\ EventsAreMail /\ OwnIsKnown /\ ReplyIsThere /\ JudgesAreCareful
    /\ OwnersAreHeld /\ LateIsOver

-----------------------------------------------------------------------------
LEMMA GhostBegins == GhostInit => GhostInv
<1> SUFFICES ASSUME GhostInit
             PROVE  GhostInv
    OBVIOUS
<1>1. /\ mail = <<>> /\ outq = <<>> /\ coming = {} /\ own = {} /\ known = {} /\ unheeded = {}
      /\ enabled = {} /\ eng = Idle
      /\ judge = [h \in {"in", "out"} |-> NoJudge]
      /\ paused = [d \in Dialogs |-> "no"] /\ late = [d \in Dialogs |-> 0]
    BY DEF GhostInit
<1>2. /\ eng.at = "idle" /\ eng.id = 0 /\ eng.events = <<>> /\ eng \in Engines
      /\ \A h \in {"in", "out"} : judge[h].at = "none" /\ judge[h].event = 0
      /\ judge \in [{"in", "out"} -> Judges]
    BY <1>1 DEF Idle, NoJudge, Engines, Judges
<1>3. GhostTables
    BY <1>1, <1>2 DEF GhostTables
<1>4. EventsAreMail
    BY <1>1, <1>2 DEF EventsAreMail, ToSet, AllDiffer
<1>5. OwnIsKnown
    BY <1>1 DEF OwnIsKnown
<1>6. ReplyIsThere
    BY <1>2 DEF ReplyIsThere
<1>7. JudgesAreCareful
    BY <1>1, <1>2 DEF JudgesAreCareful
<1>8. OwnersAreHeld
    BY <1>1 DEF OwnersAreHeld
<1>9. LateIsOver
    BY <1>1 DEF LateIsOver
<1> QED
    BY <1>3, <1>4, <1>5, <1>6, <1>7, <1>8, <1>9 DEF GhostInv

\* A step of the table: a command, the end of a pause, the UPDATE of a consumer.
LEMMA TableMoves ==
    ASSUME GhostInv, UNCHANGED <<mail, coming, outq, own, eng, judge, known>>,
           enabled' \subseteq Dialogs, paused' \in [Dialogs -> {"no", "day", "forever"}],
           late' \in [Dialogs -> Nat], Heeds(unheeded),
           \A d \in Dialogs : late'[d] = late[d] \/ late'[d] = 0,
           \A d \in Dialogs : late'[d] = 0 \/ Silent(d)' \/ ~Silent(d)
    PROVE  GhostInv'
<1>0. /\ GhostTables /\ EventsAreMail /\ OwnIsKnown /\ ReplyIsThere /\ JudgesAreCareful
      /\ OwnersAreHeld /\ LateIsOver
    BY DEF GhostInv
<1>1. GhostTables'
    BY <1>0 DEF GhostTables
<1>2. EventsAreMail' /\ OwnIsKnown' /\ ReplyIsThere' /\ JudgesAreCareful'
    BY <1>0 DEF EventsAreMail, OwnIsKnown, ReplyIsThere, JudgesAreCareful
<1>3. OwnersAreHeld'
    <2>1. Held' = Held
        BY DEF Held
    <2>2. \A e \in unheeded' : e \in unheeded /\ Active(mail[e].dialog)'
        BY DEF Heeds, Active
    <2> QED
        BY <2>1, <2>2, <1>0 DEF OwnersAreHeld
<1>4. LateIsOver'
    <2> SUFFICES ASSUME NEW d \in Dialogs
                 PROVE  /\ late'[d] <= 1
                        /\ late'[d] = 1 => /\ Silent(d)'
                                           /\ eng'.at = "cleared" => eng'.dialog # d
                                           /\ eng'.at = "sending" /\ eng'.id = 0
                                                => eng'.dialog # d
        BY DEF LateIsOver
    <2>1. CASE late'[d] = 0
        BY <2>1
    <2>2. CASE late'[d] = late[d] /\ late'[d] # 0
        <3>1. /\ late[d] <= 1
              /\ late[d] = 1 => /\ Silent(d)
                                /\ eng.at = "cleared" => eng.dialog # d
                                /\ eng.at = "sending" /\ eng.id = 0 => eng.dialog # d
            BY <1>0 DEF LateIsOver
        <3> QED
            BY <2>2, <3>1
    <2> QED
        BY <2>1, <2>2
<1> QED
    BY <1>1, <1>2, <1>3, <1>4 DEF GhostInv

LEMMA CommandsMove ==
    ASSUME GhostInv, NEW d \in Dialogs, Enable(d) \/ Disable(d) \/ Resume(d) \/ PauseAll
    PROVE  GhostInv'
<1>0. /\ enabled \subseteq Dialogs /\ paused \in [Dialogs -> {"no", "day", "forever"}]
      /\ late \in [Dialogs -> Nat]
    BY DEF GhostInv, GhostTables
<1>1. /\ UNCHANGED <<mail, coming, outq, own, eng, judge, known>> /\ Heeds(unheeded)
      /\ enabled' \subseteq Dialogs
    BY <1>0 DEF Enable, Disable, Resume, PauseAll, engine
<1>2. CASE Enable(d) \/ Resume(d)
    <2>1. /\ enabled \subseteq enabled' /\ (\A e \in Dialogs : e # d => (e \in enabled' <=> e \in enabled))
          /\ paused' = [paused EXCEPT ![d] = "no"]
          /\ late' = [late EXCEPT ![d] = 0]
        BY <1>2 DEF Enable, Resume
    <2>2. /\ paused' \in [Dialogs -> {"no", "day", "forever"}] /\ late' \in [Dialogs -> Nat]
          /\ late'[d] = 0
          /\ \A e \in Dialogs : e # d => late'[e] = late[e] /\ paused'[e] = paused[e]
        BY <2>1, <1>0
    <2>3. \A e \in Dialogs : late'[e] = 0 \/ Silent(e)' \/ ~Silent(e)
        BY <2>1, <2>2 DEF Silent
    <2>4. \A e \in Dialogs : late'[e] = late[e] \/ late'[e] = 0
        BY <2>2
    <2> QED
        BY <1>1, <2>2, <2>3, <2>4, TableMoves
<1>3. CASE Disable(d) \/ PauseAll
    <2>1. late' = late /\ enabled' \subseteq enabled
        BY <1>3 DEF Disable, PauseAll
    <2>2. /\ paused' \in [Dialogs -> {"no", "day", "forever"}]
          /\ \A e \in Dialogs : paused'[e] = "no" => paused[e] = "no"
        BY <1>3, <1>0 DEF Disable, PauseAll
    <2>3. \A e \in Dialogs : late'[e] = 0 \/ Silent(e)' \/ ~Silent(e)
        BY <2>1, <2>2 DEF Silent
    <2>4. late' \in [Dialogs -> Nat] /\ \A e \in Dialogs : late'[e] = late[e] \/ late'[e] = 0
        BY <2>1, <1>0
    <2> QED
        BY <1>1, <2>2, <2>3, <2>4, TableMoves
<1> QED
    BY <1>2, <1>3

-----------------------------------------------------------------------------
\* A step of the engine alone.
LEMMA EngineMoves ==
    ASSUME GhostInv, UNCHANGED <<enabled, paused, mail, coming, outq, own, judge, known, unheeded,
                                 late>>,
           eng' \in Engines, ToSet(eng'.events) \subseteq DOMAIN mail, ReplyIsThere',
           JudgesAreCareful', unheeded \subseteq Held',
           eng'.at = "cleared"
              => late[eng'.dialog] = 0 \/ (eng.at = "cleared" /\ eng.dialog = eng'.dialog),
           eng'.at = "sending" /\ eng'.id = 0
              => /\ eng.dialog = eng'.dialog
                 /\ eng.at = "cleared" \/ (eng.at = "sending" /\ eng.id = 0)
    PROVE  GhostInv'
<1>0. /\ GhostTables /\ EventsAreMail /\ OwnIsKnown /\ OwnersAreHeld /\ LateIsOver
    BY DEF GhostInv
<1>1. GhostTables'
    BY <1>0 DEF GhostTables
<1>2. EventsAreMail'
    BY <1>0 DEF EventsAreMail
<1>3. OwnIsKnown'
    BY <1>0 DEF OwnIsKnown
<1>4. OwnersAreHeld'
    BY <1>0 DEF OwnersAreHeld, Active
<1>5. LateIsOver'
    BY <1>0 DEF LateIsOver, Silent
<1> QED
    BY <1>1, <1>2, <1>3, <1>4, <1>5 DEF GhostInv

\* The engine's way from an incoming message to its reply.
LEMMA RepliesMove ==
    ASSUME GhostInv, NEW d \in Dialogs,
           Hour(d) \/ Take(d) \/ NoDraft \/ Check \/ Begin \/ SendRaises
    PROVE  GhostInv'
<1>0. /\ GhostTables /\ EventsAreMail /\ ReplyIsThere /\ JudgesAreCareful /\ OwnersAreHeld
      /\ LateIsOver
    BY DEF GhostInv
<1>1. UNCHANGED <<enabled, paused, mail, coming, outq, own, judge, known, unheeded, late>>
    BY DEF Hour, Take, NoDraft, Check, Begin, SendRaises, table
<1>2. eng \in Engines /\ ToSet(eng.events) \subseteq DOMAIN mail
    BY <1>0 DEF GhostTables, EventsAreMail
<1>3. Idle \in Engines /\ ToSet(Idle.events) = {} /\ Idle.at = "idle" /\ Idle.id = 0
    BY DEF Idle, Engines, ToSet
\* An engine that neither sends nor has sent holds nothing.
<1>a. ASSUME eng.at \notin {"sending", "deferred"}
      PROVE  unheeded \subseteq Held'
    <2>1. Held \subseteq Held'
        BY <1>a, <1>1 DEF Held
    <2> QED
        BY <2>1, <1>0 DEF OwnersAreHeld
<1>4. CASE Hour(d)
    <2>1. UNCHANGED <<eng, Held>>
        BY <1>4, <1>1 DEF Hour, Held
    <2>2. ReplyIsThere' /\ JudgesAreCareful' /\ unheeded \subseteq Held'
        BY <2>1, <1>0, <1>1 DEF ReplyIsThere, JudgesAreCareful, OwnersAreHeld
    <2> QED
        BY <2>1, <2>2, <1>1, <1>2, EngineMoves
<1>5. CASE Take(d)
    <2>1. eng.at = "idle" /\ eng' = [Idle EXCEPT !.at = "drafting", !.dialog = d]
        BY <1>5 DEF Take
    <2>2. /\ eng' \in Engines /\ eng'.at = "drafting" /\ eng'.dialog = d /\ eng'.id = 0
          /\ ToSet(eng'.events) = {}
        BY <2>1, <1>3 DEF Idle, Engines
    <2>3. ReplyIsThere' /\ JudgesAreCareful'
        BY <2>1, <2>2, <1>0, <1>1 DEF ReplyIsThere, JudgesAreCareful
    <2>4. unheeded \subseteq Held'
        BY <2>1, <1>a
    <2> QED
        BY <2>2, <2>3, <2>4, <1>1, EngineMoves
<1>6. ASSUME eng' = Idle, eng.at \in {"drafting", "cleared"}
      PROVE  GhostInv'
    <2>1. ReplyIsThere' /\ JudgesAreCareful'
        BY <1>6, <1>3, <1>0, <1>1 DEF ReplyIsThere, JudgesAreCareful
    <2>2. unheeded \subseteq Held'
        BY <1>6, <1>a
    <2> QED
        BY <2>1, <2>2, <1>1, <1>3, <1>6, EngineMoves
<1>b. ASSUME NEW at \in {"cleared", "sending"}, eng' = [eng EXCEPT !.at = at],
             eng.at \in {"drafting", "cleared"}
      PROVE  /\ eng' \in Engines /\ eng'.at = at /\ eng'.dialog = eng.dialog /\ eng'.id = 0
             /\ eng'.events = eng.events /\ ReplyIsThere' /\ JudgesAreCareful'
    <2>1. /\ eng' \in Engines /\ eng'.at = at /\ eng'.dialog = eng.dialog /\ eng'.id = eng.id
          /\ eng'.events = eng.events
        BY <1>b, <1>2 DEF Engines
    <2>2. eng.id = 0 /\ eng.dialog \in Dialogs
        BY <1>b, <1>0 DEF ReplyIsThere
    <2>3. ReplyIsThere' /\ JudgesAreCareful'
        BY <2>1, <2>2, <1>b, <1>0, <1>1 DEF ReplyIsThere, JudgesAreCareful
    <2> QED
        BY <2>1, <2>2, <2>3
<1>7. CASE Check
    <2>1. eng.at = "drafting" /\ eng.dialog \in Dialogs
        BY <1>7, <1>0 DEF Check, ReplyIsThere
    <2>2. CASE ~Active(eng.dialog)
        <3>1. eng' = Idle
            BY <1>7, <2>2 DEF Check
        <3> QED
            BY <3>1, <2>1, <1>6
    <2>3. CASE Active(eng.dialog)
        <3>1. eng' = [eng EXCEPT !.at = "cleared"]
            BY <1>7, <2>3 DEF Check
        <3>2. late[eng.dialog] = 0
            <4>1. late[eng.dialog] \in Nat /\ late[eng.dialog] <= 1 /\ late[eng.dialog] # 1
                BY <2>1, <2>3, <1>0 DEF GhostTables, LateIsOver, Active, Silent
            <4> QED
                BY <4>1
        <3>3. /\ eng' \in Engines /\ eng'.at = "cleared" /\ eng'.dialog = eng.dialog
              /\ eng'.id = 0 /\ eng'.events = eng.events /\ ReplyIsThere' /\ JudgesAreCareful'
            BY <2>1, <3>1, <1>b
        <3>4. unheeded \subseteq Held'
            BY <2>1, <1>a
        <3> QED
            BY <3>2, <3>3, <3>4, <1>1, <1>2, EngineMoves
    <2> QED
        BY <2>2, <2>3
<1>8. CASE Begin
    <2>1. eng.at = "cleared" /\ eng' = [eng EXCEPT !.at = "sending"]
        BY <1>8 DEF Begin
    <2>2. /\ eng' \in Engines /\ eng'.at = "sending" /\ eng'.dialog = eng.dialog
          /\ eng'.id = 0 /\ eng'.events = eng.events /\ ReplyIsThere' /\ JudgesAreCareful'
        BY <2>1, <1>b
    <2>3. unheeded \subseteq Held'
        BY <2>1, <1>a
    <2> QED
        BY <2>1, <2>2, <2>3, <1>1, <1>2, EngineMoves
<1>9. CASE SendRaises
    <2>1. eng.at = "sending" /\ eng' = [eng EXCEPT !.at = "deferred", !.id = 0]
        BY <1>9 DEF SendRaises, AfterFailure
    <2>2. /\ eng' \in Engines /\ eng'.at = "deferred" /\ eng'.dialog = eng.dialog
          /\ eng'.id = 0 /\ eng'.events = eng.events
        BY <2>1, <1>2 DEF Engines
    <2>3. ReplyIsThere' /\ JudgesAreCareful'
        BY <2>1, <2>2, <1>0, <1>1 DEF ReplyIsThere, JudgesAreCareful
    <2>4. Held' = Held
        BY <2>1, <2>2, <1>1 DEF Held
    <2>5. unheeded \subseteq Held'
        BY <2>4, <1>0 DEF OwnersAreHeld
    <2> QED
        BY <2>2, <2>3, <2>5, <1>1, <1>2, EngineMoves
<1>10. CASE NoDraft
    BY <1>10, <1>6 DEF NoDraft
<1> QED
    BY <1>4, <1>5, <1>7, <1>8, <1>9, <1>10

\* The mail that is there stays what it is.
LEMMA MailGrows ==
    ASSUME GhostInv, NEW d \in Dialogs, NEW by \in {"owner", "engine"}, Posts(d, by)
    PROVE  /\ mail' \in Seq(Mails) /\ Len(mail) + 1 \notin DOMAIN mail
           /\ Len(mail) + 1 \in Nat \ {0}
           /\ DOMAIN mail' = DOMAIN mail \union {Len(mail) + 1}
           /\ mail'[Len(mail) + 1] = [dialog |-> d, by |-> by]
           /\ \A e \in DOMAIN mail : mail'[e] = mail[e]
           /\ coming' = coming \union {Len(mail) + 1}
           /\ EventsAreMail /\ UNCHANGED <<outq, judge>> /\ eng'.events = eng.events
                => EventsAreMail'
           /\ OwnIsKnown /\ UNCHANGED <<own, known, outq>> => OwnIsKnown'
           /\ OwnersAreHeld /\ UNCHANGED <<enabled, paused, unheeded, outq, judge>>
                /\ eng'.events = eng.events /\ eng'.at = eng.at => OwnersAreHeld'
<1> DEFINE m == [dialog |-> d, by |-> by]
           n == Len(mail) + 1
<1>1. mail \in Seq(Mails) /\ m \in Mails
    BY DEF GhostInv, GhostTables, Mails
<1>2. mail' = Append(mail, m) /\ coming' = coming \union {n}
    BY DEF Posts
<1> HIDE DEF m
<1>3. mail' \in Seq(Mails) /\ Len(mail) \in Nat /\ DOMAIN mail = 1..Len(mail)
    BY <1>1, <1>2
<1>4. DOMAIN mail' = 1..(Len(mail) + 1) /\ mail'[n] = m
    BY <1>1, <1>2
<1>5. \A e \in DOMAIN mail : mail'[e] = mail[e]
    BY <1>1, <1>2
<1>6. n \notin DOMAIN mail /\ n \in Nat \ {0} /\ DOMAIN mail' = DOMAIN mail \union {n}
    BY <1>3, <1>4
<1> HIDE DEF n
<1>7. ASSUME EventsAreMail, UNCHANGED <<outq, judge>>, eng'.events = eng.events
      PROVE  EventsAreMail'
    BY <1>2, <1>6, <1>7 DEF EventsAreMail
<1>8. ASSUME OwnIsKnown, UNCHANGED <<own, known, outq>>
      PROVE  OwnIsKnown'
    BY <1>2, <1>5, <1>6, <1>8 DEF OwnIsKnown
<1>9. ASSUME OwnersAreHeld, UNCHANGED <<enabled, paused, unheeded, outq, judge>>,
             eng'.events = eng.events, eng'.at = eng.at
      PROVE  OwnersAreHeld'
    <2>1. Held' = Held
        BY <1>9 DEF Held
    <2> QED
        BY <2>1, <1>5, <1>6, <1>9 DEF OwnersAreHeld, Active
<1> QED
    BY <1>2, <1>3, <1>4, <1>5, <1>6, <1>7, <1>8, <1>9 DEF m, n

LEMMA MailMoves ==
    ASSUME GhostInv, NEW d \in Dialogs, OwnerWrites(d) \/ Land
    PROVE  GhostInv'
<1>0. /\ GhostTables /\ EventsAreMail /\ OwnIsKnown /\ ReplyIsThere /\ JudgesAreCareful
      /\ OwnersAreHeld /\ LateIsOver
    BY DEF GhostInv
<1>1. CASE OwnerWrites(d)
    <2>1. /\ Posts(d, "owner")
          /\ UNCHANGED <<enabled, paused, outq, own, eng, judge, known, unheeded, late>>
        BY <1>1 DEF OwnerWrites, table, engine
    <2>2. /\ mail' \in Seq(Mails) /\ EventsAreMail' /\ OwnIsKnown' /\ OwnersAreHeld'
          /\ DOMAIN mail \subseteq DOMAIN mail'
          /\ \A e \in DOMAIN mail : mail'[e] = mail[e]
        BY <2>1, <1>0, MailGrows
    <2>3. GhostTables'
        BY <2>1, <2>2, <1>0 DEF GhostTables
    <2>4. ReplyIsThere' /\ JudgesAreCareful' /\ LateIsOver'
        BY <2>1, <2>2, <1>0 DEF ReplyIsThere, JudgesAreCareful, LateIsOver, Silent
    <2> QED
        BY <2>2, <2>3, <2>4 DEF GhostInv
<1>2. CASE Land
    <2> DEFINE n == Len(mail) + 1
               t == eng.dialog
    <2>1. /\ eng.at = "sending" /\ eng.id = 0 /\ Posts(t, "engine")
          /\ eng' = [eng EXCEPT !.id = n]
          /\ late' = IF Silent(t) THEN [late EXCEPT ![t] = @ + 1] ELSE late
          /\ UNCHANGED <<enabled, paused, outq, own, judge, known, unheeded>>
        BY <1>2 DEF Land, table
    <2>2. t \in Dialogs /\ eng \in Engines
        BY <2>1, <1>0 DEF ReplyIsThere, GhostTables
    <2>3. n \in Nat \ {0} /\ n \notin DOMAIN mail
        BY <2>1, <2>2, MailGrows
    <2>4. /\ eng' \in Engines /\ eng'.at = "sending" /\ eng'.id = n /\ eng'.dialog = t
          /\ eng'.events = eng.events
        BY <2>1, <2>2, <2>3 DEF Engines
    <2>5. /\ mail' \in Seq(Mails) /\ EventsAreMail' /\ OwnIsKnown' /\ OwnersAreHeld'
          /\ mail'[n] = [dialog |-> t, by |-> "engine"] /\ n \in DOMAIN mail'
        BY <2>1, <2>2, <2>4, <1>0, MailGrows
    <2>6. ReplyIsThere'
        BY <2>2, <2>4, <2>5 DEF ReplyIsThere
    <2>7. \A h \in {"in", "out"} : judge[h].event # n
        BY <2>3, <1>0 DEF EventsAreMail
    <2>8. JudgesAreCareful'
        BY <2>1, <2>4, <2>7, <1>0 DEF JudgesAreCareful
    <2>9. late \in [Dialogs -> Nat]
        BY <1>0 DEF GhostTables
    <2>10. Silent(t) => late[t] = 0
        BY <2>1, <2>2, <2>9, <1>0 DEF LateIsOver
    <2>11. late' \in [Dialogs -> Nat]
        BY <2>1, <2>2, <2>9
    <2>12. LateIsOver'
        <3> SUFFICES ASSUME NEW e \in Dialogs
                     PROVE  /\ late'[e] <= 1
                            /\ late'[e] = 1 => /\ Silent(e)'
                                               /\ eng'.at = "cleared" => eng'.dialog # e
                                               /\ eng'.at = "sending" /\ eng'.id = 0
                                                    => eng'.dialog # e
            BY DEF LateIsOver
        <3>1. Silent(e)' <=> Silent(e)
            BY <2>1 DEF Silent
        <3>2. CASE e = t /\ Silent(t)
            <4>1. late'[e] = 1
                BY <3>2, <2>1, <2>2, <2>9, <2>10
            <4> QED
                BY <4>1, <3>1, <3>2, <2>3, <2>4
        <3>3. CASE e # t \/ ~Silent(t)
            <4>1. late'[e] = late[e]
                BY <3>3, <2>1, <2>9
            <4> QED
                BY <4>1, <3>1, <2>3, <2>4, <1>0 DEF LateIsOver
        <3> QED
            BY <3>2, <3>3
    <2>13. GhostTables'
        BY <2>1, <2>4, <2>5, <2>11, <1>0 DEF GhostTables
    <2> QED
        BY <2>5, <2>6, <2>8, <2>12, <2>13 DEF GhostInv
<1> QED
    BY <1>1, <1>2

-----------------------------------------------------------------------------
\* An event goes from the queue of arrivals to the consumer's.
LEMMA EventsArrive ==
    ASSUME GhostInv, NEW e \in coming, Deliver(e)
    PROVE  GhostInv'
<1> DEFINE kept == IF Len(outq) = QueueMax THEN Tail(outq) ELSE outq
<1>0. /\ GhostTables /\ EventsAreMail /\ OwnIsKnown /\ ReplyIsThere /\ JudgesAreCareful
      /\ OwnersAreHeld /\ LateIsOver
    BY DEF GhostInv
<1>1. /\ coming' = coming \ {e} /\ outq' = Append(kept, e)
      /\ UNCHANGED <<enabled, paused, mail, own, eng, judge, known, late>>
      /\ Heeds((unheeded \union {m \in {e} : mail[m].by = "owner"})
                  \ (ToSet(outq) \ ToSet(kept)))
    BY DEF Deliver, table, engine
<1>2. outq \in Seq(Nat) /\ AllDiffer(outq) /\ mail \in Seq(Mails)
    BY <1>0 DEF GhostTables, EventsAreMail
<1>3. outq = <<>> => Len(outq) # QueueMax
    <2>1. outq = <<>> => Len(outq) = 0
        OBVIOUS
    <2> QED
        BY <2>1, GhostAssumption
<1>4. kept \in Seq(Nat) /\ ToSet(kept) \subseteq ToSet(outq) /\ AllDiffer(kept)
    <2>1. CASE Len(outq) = QueueMax
        <3>1. kept = Tail(outq)
            BY <2>1
        <3>2. outq # <<>>
            BY <2>1, <1>3
        <3> HIDE DEF kept
        <3> QED
            BY <3>1, <3>2, <1>2, QueueMovesOn
    <2>2. CASE Len(outq) # QueueMax
        BY <2>2, <1>2
    <2> QED
        BY <2>1, <2>2
<1> HIDE DEF kept
<1>5. e \in DOMAIN mail /\ e \in Nat /\ e \notin ToSet(kept)
    <2>1. e \in DOMAIN mail
        BY <1>0 DEF EventsAreMail
    <2>2. DOMAIN mail = 1..Len(mail) /\ Len(mail) \in Nat
        BY <1>2
    <2>3. e \notin ToSet(outq)
        BY <1>0 DEF EventsAreMail
    <2> QED
        BY <2>1, <2>2, <2>3, <1>4
<1>6. /\ outq' \in Seq(Nat) /\ ToSet(outq') = ToSet(kept) \union {e}
      /\ AllDiffer(outq')
    BY <1>1, <1>4, <1>5, QueueGrows
<1>7. GhostTables'
    BY <1>0, <1>1, <1>6 DEF GhostTables
<1>8. EventsAreMail'
    BY <1>0, <1>1, <1>4, <1>5, <1>6 DEF EventsAreMail
<1>9. OwnIsKnown'
    BY <1>0, <1>1, <1>4, <1>6 DEF OwnIsKnown
<1>10. ReplyIsThere' /\ JudgesAreCareful' /\ LateIsOver'
    BY <1>0, <1>1 DEF ReplyIsThere, JudgesAreCareful, LateIsOver, Silent
<1>11. OwnersAreHeld'
    <2> SUFFICES ASSUME NEW m \in unheeded'
                 PROVE  /\ m \in Held'
                        /\ m \in DOMAIN mail' /\ mail'[m].by = "owner" /\ Active(mail[m].dialog)'
        BY DEF OwnersAreHeld
    <2>1. /\ m \in unheeded \/ (m = e /\ mail[e].by = "owner")
          /\ m \in ToSet(outq) => m \in ToSet(kept)
          /\ Active(mail[m].dialog)'
        BY <1>1 DEF Heeds, Active
    <2>2. m \in DOMAIN mail /\ mail[m].by = "owner"
        BY <2>1, <1>0, <1>5 DEF OwnersAreHeld
    <2>3. m \in Held'
        <3>1. CASE m = e
            BY <3>1, <1>6 DEF Held
        <3>2. CASE m \in unheeded
            <4>1. m \in Held
                BY <3>2, <1>0 DEF OwnersAreHeld
            <4>2. CASE m \in ToSet(outq)
                BY <4>2, <2>1, <1>6 DEF Held
            <4>3. CASE m \notin ToSet(outq)
                BY <4>1, <4>3, <1>1 DEF Held
            <4> QED
                BY <4>2, <4>3
        <3> QED
            BY <3>1, <3>2, <2>1
    <2> QED
        BY <2>1, <2>2, <2>3, <1>1
<1> QED
    BY <1>7, <1>8, <1>9, <1>10, <1>11 DEF GhostInv

LEMMA ReplyIsKnown ==
    ASSUME GhostInv, ReplyReturns
    PROVE  GhostInv'
<1>0. /\ GhostTables /\ EventsAreMail /\ OwnIsKnown /\ ReplyIsThere /\ JudgesAreCareful
      /\ OwnersAreHeld /\ LateIsOver
    BY DEF GhostInv
<1>1. /\ eng.at = "sending" /\ eng.id # 0
      /\ own' = own \union {eng.id} /\ known' = known \union {eng.id}
      /\ eng' = [eng EXCEPT !.at = "deferred"]
      /\ UNCHANGED <<enabled, paused, mail, coming, outq, judge, unheeded, late>>
    BY DEF ReplyReturns, table
<1>2. /\ eng' \in Engines /\ eng'.at = "deferred" /\ eng'.id = eng.id
      /\ eng'.dialog = eng.dialog /\ eng'.events = eng.events
    BY <1>0, <1>1 DEF GhostTables, Engines
<1>3. GhostTables'
    BY <1>0, <1>1, <1>2 DEF GhostTables
<1>4. EventsAreMail'
    BY <1>0, <1>1, <1>2 DEF EventsAreMail
<1>5. eng.id \in DOMAIN mail /\ mail[eng.id].by = "engine"
    BY <1>0, <1>1 DEF ReplyIsThere
<1>6. OwnIsKnown'
    BY <1>0, <1>1, <1>5 DEF OwnIsKnown
<1>7. ReplyIsThere' /\ LateIsOver'
    BY <1>0, <1>1, <1>2 DEF ReplyIsThere, LateIsOver, Silent
<1>8. JudgesAreCareful'
    BY <1>0, <1>1, <1>2 DEF JudgesAreCareful
<1>9. Held' = Held
    BY <1>1, <1>2 DEF Held
<1>10. OwnersAreHeld'
    BY <1>0, <1>1, <1>9 DEF OwnersAreHeld, Active
<1> QED
    BY <1>3, <1>4, <1>6, <1>7, <1>8, <1>10 DEF GhostInv

\* A consumer begins to judge an event it has in hand, or ends.
LEMMA JudgeTurns ==
    ASSUME GhostTables, NEW h \in {"in", "out"}, NEW next \in Judges,
           judge' = [judge EXCEPT ![h] = next]
    PROVE  /\ judge' \in [{"in", "out"} -> Judges] /\ judge'[h] = next
           /\ \A g \in {"in", "out"} : g # h => judge'[g] = judge[g]
BY DEF GhostTables

LEMMA DeferredMove ==
    ASSUME GhostInv, NextDeferred
    PROVE  GhostInv'
<1>0. /\ GhostTables /\ EventsAreMail /\ OwnIsKnown /\ ReplyIsThere /\ JudgesAreCareful
      /\ OwnersAreHeld /\ LateIsOver
    BY DEF GhostInv
<1>1. /\ eng.at = "deferred" /\ judge["in"].at = "none"
      /\ UNCHANGED <<enabled, paused, mail, coming, outq, own, known, unheeded, late>>
    BY DEF NextDeferred, table
<1>2. /\ eng \in Engines /\ eng.events \in Seq(Nat)
      /\ ToSet(eng.events) \subseteq DOMAIN mail
      /\ judge["in"].event = 0
    BY <1>0, <1>1 DEF GhostTables, EventsAreMail, Engines
<1>3. DOMAIN mail \subseteq Nat \ {0}
    <2>1. mail \in Seq(Mails)
        BY <1>0 DEF GhostTables
    <2> QED
        BY <2>1
<1>4. CASE eng.events = <<>>
    <2>1. eng' = Idle /\ UNCHANGED judge
        BY <1>4 DEF NextDeferred
    <2>2. eng' \in Engines /\ eng'.at = "idle" /\ eng'.id = 0 /\ ToSet(eng'.events) = {}
        BY <2>1 DEF Idle, Engines, ToSet
    <2>3. ReplyIsThere' /\ JudgesAreCareful'
        BY <2>1, <2>2, <1>0, <1>1 DEF ReplyIsThere, JudgesAreCareful
    <2>4. ToSet(eng.events) = {}
        BY <1>4 DEF ToSet
    <2>5. Held \subseteq Held'
        BY <2>1, <2>4, <1>1 DEF Held
    <2>6. unheeded \subseteq Held'
        BY <2>5, <1>0 DEF OwnersAreHeld
    <2> QED
        BY <2>1, <2>2, <2>3, <2>6, <1>1, EngineMoves
<1>5. CASE eng.events # <<>>
    <2> DEFINE e == Head(eng.events)
               rest == Tail(eng.events)
    <2>1. /\ eng' = [eng EXCEPT !.events = rest]
          /\ judge' = IF e = eng.id THEN judge
                      ELSE [judge EXCEPT !["in"] = [at |-> "look", event |-> e]]
        BY <1>5 DEF NextDeferred
    <2>2. rest \in Seq(Nat) /\ e \in Nat /\ ToSet(eng.events) = ToSet(rest) \union {e}
        BY <1>2, <1>5, QueueMovesOn
    <2> HIDE DEF e, rest
    <2>3. /\ eng' \in Engines /\ eng'.at = "deferred" /\ eng'.id = eng.id
          /\ eng'.dialog = eng.dialog /\ eng'.events = rest
        BY <2>1, <2>2, <1>1, <1>2 DEF Engines
    <2>4. ReplyIsThere' /\ LateIsOver'
        BY <2>3, <1>0, <1>1 DEF ReplyIsThere, LateIsOver, Silent
    <2>5. CASE e = eng.id
        <3>1. judge' = judge
            BY <2>1, <2>5
        <3>2. JudgesAreCareful'
            BY <3>1, <2>3, <1>0, <1>1 DEF JudgesAreCareful
        <3>3. ToSet(eng'.events) \subseteq DOMAIN mail
            BY <2>2, <2>3, <1>2
        <3>4. e \notin unheeded
            BY <2>2, <2>5, <1>0, <1>2, <1>3 DEF ReplyIsThere, OwnersAreHeld
        <3>5. Held \subseteq Held' \union {e}
            BY <3>1, <2>2, <2>3, <1>1 DEF Held
        <3>6. unheeded \subseteq Held'
            BY <3>4, <3>5, <1>0 DEF OwnersAreHeld
        <3> QED
            BY <3>1, <3>2, <3>3, <3>6, <2>3, <2>4, <1>1, EngineMoves
    <2>6. CASE e # eng.id
        <3> DEFINE next == [at |-> "look", event |-> e]
        <3>1. judge' = [judge EXCEPT !["in"] = next] /\ next \in Judges
            BY <2>1, <2>2, <2>6 DEF Judges
        <3>2. /\ judge' \in [{"in", "out"} -> Judges]
              /\ judge'["in"] = next /\ judge'["out"] = judge["out"]
            BY <3>1, <1>0, JudgeTurns
        <3>3. judge'["in"].at = "look" /\ judge'["in"].event = e
            BY <3>2
        <3> HIDE DEF next
        <3>4. GhostTables'
            BY <3>2, <2>3, <1>0, <1>1 DEF GhostTables
        <3>5. EventsAreMail'
            BY <3>2, <3>3, <2>2, <2>3, <1>0, <1>1 DEF EventsAreMail
        <3>6. OwnIsKnown'
            BY <1>0, <1>1 DEF OwnIsKnown
        <3>7. JudgesAreCareful'
            BY <3>2, <3>3, <2>3, <2>6, <1>0, <1>1 DEF JudgesAreCareful
        <3>8. Held \subseteq Held' \union {0}
            <4>1. /\ {judge[h].event : h \in {"in", "out"}} = {judge["in"].event, judge["out"].event}
                  /\ {judge'[h].event : h \in {"in", "out"}} = {e, judge["out"].event}
                BY <3>2, <3>3
            <4>2. Held = ToSet(outq) \union ToSet(eng.events) \union {0, judge["out"].event}
                BY <4>1, <1>1, <1>2 DEF Held
            <4>3. Held' = ToSet(outq) \union ToSet(rest) \union {e, judge["out"].event}
                BY <4>1, <2>3, <1>1 DEF Held
            <4> QED
                BY <4>2, <4>3, <2>2
        <3>9. 0 \notin unheeded
            BY <1>0, <1>3 DEF OwnersAreHeld
        <3>10. OwnersAreHeld'
            BY <3>8, <3>9, <1>0, <1>1 DEF OwnersAreHeld, Active
        <3> QED
            BY <3>4, <3>5, <3>6, <3>7, <3>10, <2>4 DEF GhostInv
    <2> QED
        BY <2>5, <2>6
<1> QED
    BY <1>4, <1>5

LEMMA IdsAreNumbers ==
    ASSUME GhostTables
    PROVE  DOMAIN mail \subseteq Nat \ {0}
<1>1. mail \in Seq(Mails)
    BY DEF GhostTables
<1> QED
    BY <1>1

\* What a consumer judges is judged: the event is the owner's no more.
LEMMA JudgeEnds ==
    ASSUME GhostInv, NEW h \in {"in", "out"}, judge' = [judge EXCEPT ![h] = NoJudge],
           UNCHANGED <<enabled, mail, coming, outq, own, eng, known, late>>,
           paused' \in [Dialogs -> {"no", "day", "forever"}],
           \A d \in Dialogs : paused'[d] = "no" => paused[d] = "no",
           \A e \in unheeded' : /\ e \in unheeded /\ e # judge[h].event
                                /\ Active(mail[e].dialog)'
    PROVE  GhostInv'
<1>0. /\ GhostTables /\ EventsAreMail /\ OwnIsKnown /\ ReplyIsThere /\ JudgesAreCareful
      /\ OwnersAreHeld /\ LateIsOver
    BY DEF GhostInv
<1>1. NoJudge \in Judges /\ NoJudge.at = "none" /\ NoJudge.event = 0
    BY DEF NoJudge, Judges
<1>2. /\ judge' \in [{"in", "out"} -> Judges] /\ judge'[h] = NoJudge
      /\ \A g \in {"in", "out"} : g # h => judge'[g] = judge[g]
    BY <1>0, <1>1, JudgeTurns
<1>3. GhostTables'
    BY <1>0, <1>2 DEF GhostTables
<1>4. EventsAreMail'
    BY <1>0, <1>1, <1>2 DEF EventsAreMail
<1>5. OwnIsKnown' /\ ReplyIsThere'
    BY <1>0 DEF OwnIsKnown, ReplyIsThere
<1>6. 0 \notin known
    BY <1>0, IdsAreNumbers DEF OwnIsKnown
<1>7. \A g \in {"in", "out"} : /\ judge'[g] = judge[g] \/ judge'[g] = NoJudge
    BY <1>2
<1>8. JudgesAreCareful'
    <2>2. /\ judge'["in"] = judge["in"] \/ judge'["in"] = NoJudge
          /\ judge'["out"] = judge["out"] \/ judge'["out"] = NoJudge
        BY <1>7
    <2>3. /\ eng'.at # "deferred" => judge'["in"].at = "none"
          /\ eng'.id # 0 => judge'["in"].event # eng'.id
        BY <2>2, <1>0, <1>1 DEF JudgesAreCareful
    <2>4. /\ eng'.at = "sending" /\ eng'.id # 0 => judge'["out"].event # eng'.id
          /\ judge'["out"].event \notin known'
        BY <2>2, <1>0, <1>1, <1>6 DEF JudgesAreCareful
    <2> QED
        BY <2>3, <2>4 DEF JudgesAreCareful
<1>9. LateIsOver'
    BY <1>0 DEF LateIsOver, Silent
<1>10. OwnersAreHeld'
    <2>1. Held \subseteq Held' \union {judge[h].event}
        <3>1. \A g \in {"in", "out"} : judge[g].event \in {judge'[i].event : i \in {"in", "out"}}
                                                            \union {judge[h].event}
            BY <1>2
        <3> QED
            BY <3>1 DEF Held
    <2> QED
        BY <2>1, <1>0 DEF OwnersAreHeld
<1> QED
    BY <1>3, <1>4, <1>5, <1>8, <1>9, <1>10 DEF GhostInv

LEMMA JudgesMove ==
    ASSUME GhostInv, NEW h \in {"in", "out"}, Look(h) \/ Pause(h) \/ Fails(h)
    PROVE  GhostInv'
<1>0. /\ GhostTables /\ EventsAreMail /\ OwnIsKnown /\ ReplyIsThere /\ JudgesAreCareful
      /\ OwnersAreHeld /\ LateIsOver
    BY DEF GhostInv
<1>1. /\ paused \in [Dialogs -> {"no", "day", "forever"}]
      /\ judge \in [{"in", "out"} -> Judges] /\ judge[h] \in Judges
    BY <1>0 DEF GhostTables
<1>2. judge[h].at # "none"
    BY DEF Look, Pause, Fails
<1>3. CASE Look(h) /\ ~Active(mail[judge[h].event].dialog)
    <2>1. /\ judge' = [judge EXCEPT ![h] = NoJudge]
          /\ UNCHANGED <<enabled, paused, mail, coming, outq, own, eng, known, unheeded, late>>
        BY <1>3 DEF Look, table
    <2>2. \A e \in unheeded' : /\ e \in unheeded /\ e # judge[h].event
                               /\ Active(mail[e].dialog)'
        BY <2>1, <1>0, <1>3 DEF OwnersAreHeld, Active
    <2> QED
        BY <2>1, <2>2, <1>1, JudgeEnds
<1>4. CASE Look(h) /\ Active(mail[judge[h].event].dialog)
    <2> DEFINE next == [judge[h] EXCEPT !.at = "pause"]
    <2>1. /\ judge' = [judge EXCEPT ![h] = next]
          /\ UNCHANGED <<enabled, paused, mail, coming, outq, own, eng, known, unheeded, late>>
        BY <1>4 DEF Look, table
    <2>2. next \in Judges /\ next.at = "pause" /\ next.event = judge[h].event
        BY <1>1 DEF Judges
    <2> HIDE DEF next
    <2>3. /\ judge' \in [{"in", "out"} -> Judges] /\ judge'[h] = next
          /\ \A g \in {"in", "out"} : g # h => judge'[g] = judge[g]
        BY <2>1, <2>2, <1>0, JudgeTurns
    <2>4. \A g \in {"in", "out"} : /\ judge'[g].event = judge[g].event
                                   /\ judge'[g].at = "none" <=> judge[g].at = "none"
        BY <2>2, <2>3, <1>2
    <2>5. GhostTables'
        BY <2>1, <2>3, <1>0 DEF GhostTables
    <2>6. EventsAreMail' /\ OwnIsKnown' /\ ReplyIsThere' /\ LateIsOver'
        BY <2>1, <2>4, <1>0 DEF EventsAreMail, OwnIsKnown, ReplyIsThere, LateIsOver, Silent
    <2>7. JudgesAreCareful'
        BY <2>1, <2>4, <1>0 DEF JudgesAreCareful
    <2>8. Held' = Held
        BY <2>1, <2>4 DEF Held
    <2>9. OwnersAreHeld'
        BY <2>1, <2>8, <1>0 DEF OwnersAreHeld, Active
    <2> QED
        BY <2>5, <2>6, <2>7, <2>9 DEF GhostInv
<1>5. CASE Pause(h)
    <2> DEFINE d == mail[judge[h].event].dialog
    <2>1. /\ judge' = [judge EXCEPT ![h] = NoJudge] /\ paused' = [paused EXCEPT ![d] = "day"]
          /\ UNCHANGED <<enabled, mail, coming, outq, own, eng, known, late>>
          /\ Heeds(unheeded)
        BY <1>5 DEF Pause
    <2>2. mail \in Seq(Mails)
        BY <1>0 DEF GhostTables
    <2>3. judge[h].event \in DOMAIN mail
        BY <1>0, <1>2 DEF EventsAreMail
    <2>4. d \in Dialogs
        <3>1. mail[judge[h].event] \in Mails
            BY <2>2, <2>3
        <3> QED
            BY <3>1 DEF Mails
    <2> HIDE DEF d
    <2>5. /\ paused' \in [Dialogs -> {"no", "day", "forever"}] /\ paused'[d] = "day"
          /\ \A c \in Dialogs : paused'[c] = "no" => paused[c] = "no"
        BY <2>1, <2>4, <1>1
    <2>6. \A e \in unheeded' : e \in unheeded /\ Active(mail[e].dialog)'
        BY <2>1 DEF Heeds, Active
    <2>7. \A e \in unheeded' : e # judge[h].event
        BY <2>1, <2>5, <2>6 DEF Active, d
    <2> QED
        BY <2>1, <2>5, <2>6, <2>7, JudgeEnds
<1>6. CASE Fails(h)
    <2>1. /\ judge' = [judge EXCEPT ![h] = NoJudge]
          /\ UNCHANGED <<enabled, paused, mail, coming, outq, own, eng, known, late>>
          /\ Heeds(unheeded \ {judge[h].event})
        BY <1>6 DEF Fails, table
    <2>2. \A e \in unheeded' : /\ e \in unheeded /\ e # judge[h].event
                               /\ Active(mail[e].dialog)'
        BY <2>1 DEF Heeds, Active
    <2> QED
        BY <2>1, <2>2, <1>1, JudgeEnds
<1> QED
    BY <1>3, <1>4, <1>5, <1>6

\* An event of the outgoing stream: put off, known for an echo, or judged.
LEMMA EventsAreHeard ==
    ASSUME GhostInv, Hear
    PROVE  GhostInv'
<1> DEFINE e == Head(outq)
<1>0. /\ GhostTables /\ EventsAreMail /\ OwnIsKnown /\ ReplyIsThere /\ JudgesAreCareful
      /\ OwnersAreHeld /\ LateIsOver
    BY DEF GhostInv
<1>1. /\ outq # <<>> /\ judge["out"].at = "none" /\ judge["out"].event = 0 /\ outq' = Tail(outq)
      /\ UNCHANGED <<enabled, paused, mail, coming, known, unheeded, late>>
    BY <1>0 DEF Hear, table, EventsAreMail
<1>2. outq \in Seq(Nat) /\ AllDiffer(outq)
    BY <1>0 DEF GhostTables, EventsAreMail
<1>3. /\ outq' \in Seq(Nat) /\ e \in Nat /\ ToSet(outq) = ToSet(outq') \union {e}
      /\ AllDiffer(outq') /\ e \notin ToSet(outq')
    BY <1>1, <1>2, QueueMovesOn
<1>4. CASE PutOff(mail[e].dialog)
    <2>1. eng' = [eng EXCEPT !.events = Append(@, e)] /\ UNCHANGED <<own, judge>>
        BY <1>4 DEF Hear
    <2>2. eng \in Engines /\ eng.events \in Seq(Nat) /\ eng.at = "sending"
        BY <1>0, <1>4 DEF GhostTables, Engines, PutOff
    <2> HIDE DEF e
    <2>3. /\ Append(eng.events, e) \in Seq(Nat)
          /\ ToSet(Append(eng.events, e)) = ToSet(eng.events) \union {e}
        BY <2>2, <1>3, QueueGrows
    <2>4. /\ eng' \in Engines /\ eng'.at = "sending" /\ eng'.id = eng.id
          /\ eng'.dialog = eng.dialog /\ ToSet(eng'.events) = ToSet(eng.events) \union {e}
        BY <2>1, <2>2, <2>3 DEF Engines
    <2>5. GhostTables'
        BY <2>1, <2>4, <1>0, <1>1, <1>3 DEF GhostTables
    <2>6. EventsAreMail'
        BY <2>1, <2>4, <1>0, <1>1, <1>3 DEF EventsAreMail
    <2>7. OwnIsKnown'
        BY <2>1, <1>0, <1>1, <1>3 DEF OwnIsKnown
    <2>8. ReplyIsThere' /\ JudgesAreCareful' /\ LateIsOver'
        BY <2>1, <2>2, <2>4, <1>0, <1>1 DEF ReplyIsThere, JudgesAreCareful, LateIsOver, Silent
    <2>9. Held' = Held
        BY <2>1, <2>2, <2>4, <1>3 DEF Held
    <2>10. OwnersAreHeld'
        BY <2>9, <1>0, <1>1 DEF OwnersAreHeld, Active
    <2> QED
        BY <2>5, <2>6, <2>7, <2>8, <2>10 DEF GhostInv
<1>5. CASE ~PutOff(mail[e].dialog)
    <2> DEFINE next == [at |-> "look", event |-> e]
    <2>1. /\ own' = own \ {e} /\ UNCHANGED eng
          /\ judge' = IF e \in own THEN judge ELSE [judge EXCEPT !["out"] = next]
        BY <1>5 DEF Hear
    <2>2. \/ ~(eng.at = "sending")
          \/ eng.dialog # mail[e].dialog
        BY <1>5 DEF PutOff
    <2> HIDE DEF e, next
    <2>3. /\ e \in DOMAIN mail /\ e \notin coming
        BY <1>0, <1>3 DEF EventsAreMail
    <2>4. eng.at = "sending" /\ eng.id # 0 => eng.id # e
        BY <2>2, <1>0 DEF ReplyIsThere
    <2>5. OwnIsKnown'
        BY <2>1, <2>3, <1>0, <1>1, <1>3 DEF OwnIsKnown
    <2>6. ReplyIsThere' /\ LateIsOver'
        BY <2>1, <1>0, <1>1 DEF ReplyIsThere, LateIsOver, Silent
    <2>7. CASE e \in own
        <3>1. judge' = judge
            BY <2>1, <2>7
        <3>2. GhostTables' /\ EventsAreMail'
            BY <3>1, <2>1, <1>0, <1>1, <1>3 DEF GhostTables, EventsAreMail
        <3>3. JudgesAreCareful'
            BY <3>1, <2>1, <1>0, <1>1 DEF JudgesAreCareful
        <3>4. e \notin unheeded
            BY <2>7, <1>0 DEF OwnersAreHeld, OwnIsKnown
        <3>5. Held \subseteq Held' \union {e}
            BY <3>1, <2>1, <1>3 DEF Held
        <3>6. OwnersAreHeld'
            BY <3>4, <3>5, <1>0, <1>1 DEF OwnersAreHeld, Active
        <3> QED
            BY <3>2, <3>3, <3>6, <2>5, <2>6 DEF GhostInv
    <2>8. CASE e \notin own
        <3>1. next \in Judges /\ next.at = "look" /\ next.event = e
            BY <1>3 DEF next, Judges
        <3>2. /\ judge' \in [{"in", "out"} -> Judges] /\ judge'["out"] = next
              /\ judge'["in"] = judge["in"]
            BY <2>1, <2>8, <3>1, <1>0, JudgeTurns
        <3>3. GhostTables'
            BY <3>2, <2>1, <1>0, <1>1, <1>3 DEF GhostTables
        <3>4. EventsAreMail'
            BY <3>1, <3>2, <2>1, <2>3, <1>0, <1>1, <1>3 DEF EventsAreMail
        <3>5. e \notin known
            BY <2>8, <1>0, <1>3 DEF OwnIsKnown
        <3>6. JudgesAreCareful'
            BY <3>1, <3>2, <3>5, <2>1, <2>4, <1>0, <1>1 DEF JudgesAreCareful
        <3>7. Held \subseteq Held' \union {0}
            <4>1. /\ {judge[h].event : h \in {"in", "out"}} = {judge["in"].event, 0}
                  /\ {judge'[h].event : h \in {"in", "out"}} = {judge["in"].event, e}
                BY <3>1, <3>2, <1>1
            <4> QED
                BY <4>1, <2>1, <1>3 DEF Held
        <3>8. 0 \notin unheeded
            BY <1>0, IdsAreNumbers DEF OwnersAreHeld
        <3>9. OwnersAreHeld'
            BY <3>7, <3>8, <1>0, <1>1 DEF OwnersAreHeld, Active
        <3> QED
            BY <3>3, <3>4, <3>6, <3>9, <2>5, <2>6 DEF GhostInv
    <2> QED
        BY <2>7, <2>8
<1> QED
    BY <1>4, <1>5

LEMMA GhostRestarts ==
    ASSUME GhostInv, Restart
    PROVE  GhostInv'
<1>0. /\ GhostTables /\ EventsAreMail /\ OwnIsKnown /\ LateIsOver
    BY DEF GhostInv
<1>1. /\ outq' = <<>> /\ coming' = {} /\ own' = {} /\ unheeded' = {} /\ eng' = Idle
      /\ judge' = [h \in {"in", "out"} |-> NoJudge]
      /\ UNCHANGED <<enabled, paused, mail, known, late>>
    BY DEF Restart, table
<1>2. /\ eng'.at = "idle" /\ eng'.id = 0 /\ ToSet(eng'.events) = {} /\ eng' \in Engines
      /\ \A h \in {"in", "out"} : judge'[h].at = "none" /\ judge'[h].event = 0
      /\ judge' \in [{"in", "out"} -> Judges]
    BY <1>1 DEF Idle, NoJudge, Engines, Judges, ToSet
<1>3. outq' \in Seq(Nat) /\ ToSet(outq') = {} /\ AllDiffer(outq')
    BY <1>1 DEF ToSet, AllDiffer
<1>4. GhostTables'
    BY <1>0, <1>1, <1>2, <1>3 DEF GhostTables
<1>5. EventsAreMail'
    BY <1>1, <1>2, <1>3 DEF EventsAreMail
<1>6. OwnIsKnown'
    BY <1>0, <1>1, <1>3 DEF OwnIsKnown
<1>7. ReplyIsThere' /\ LateIsOver'
    BY <1>0, <1>1, <1>2 DEF ReplyIsThere, LateIsOver, Silent
<1>8. 0 \notin known
    BY <1>0, IdsAreNumbers DEF OwnIsKnown
<1>9. JudgesAreCareful'
    BY <1>1, <1>2, <1>8 DEF JudgesAreCareful
<1>10. OwnersAreHeld'
    BY <1>1 DEF OwnersAreHeld
<1> QED
    BY <1>4, <1>5, <1>6, <1>7, <1>9, <1>10 DEF GhostInv

LEMMA GhostMoves == GhostInv /\ [GhostNext]_ghostVars => GhostInv'
<1> SUFFICES ASSUME GhostInv, [GhostNext]_ghostVars
             PROVE  GhostInv'
    OBVIOUS
<1>1. CASE UNCHANGED ghostVars
    BY <1>1 DEF ghostVars, GhostInv, GhostTables, EventsAreMail, OwnIsKnown, ReplyIsThere,
                JudgesAreCareful, OwnersAreHeld, LateIsOver, Held, Active, Silent
<1>2. CASE \E d \in Dialogs : Enable(d) \/ Disable(d) \/ Resume(d)
    BY <1>2, CommandsMove
<1>3. CASE PauseAll
    <2>1. CASE Dialogs = {}
        <3>1. GhostTables /\ enabled = {}
            BY <2>1 DEF GhostInv, GhostTables
        <3>2. /\ UNCHANGED <<enabled, mail, coming, outq, own, eng, judge, known, late>>
              /\ Heeds(unheeded) /\ paused' = [d \in Dialogs |-> IF d \in enabled THEN "forever"
                                                                 ELSE paused[d]]
            BY <1>3 DEF PauseAll, engine
        <3>3. paused' \in [Dialogs -> {"no", "day", "forever"}]
            BY <2>1, <3>2
        <3> QED
            BY <2>1, <3>1, <3>2, <3>3, TableMoves DEF GhostTables
    <2>2. CASE Dialogs # {}
        BY <1>3, <2>2, CommandsMove
    <2> QED
        BY <2>1, <2>2
<1>4. CASE \E d \in Dialogs : Hour(d) \/ Take(d)
    BY <1>4, RepliesMove
<1>5. CASE \E d \in Dialogs : OwnerWrites(d)
    BY <1>5, MailMoves
<1>6. CASE \E e \in coming : Deliver(e)
    BY <1>6, EventsArrive
<1>7. CASE NoDraft \/ Check \/ Begin \/ SendRaises \/ Land
    <2>1. eng.dialog \in Dialogs
        BY <1>7 DEF GhostInv, ReplyIsThere, NoDraft, Check, Begin, SendRaises, Land
    <2> QED
        BY <2>1, <1>7, RepliesMove, MailMoves
<1>8. CASE ReplyReturns
    BY <1>8, ReplyIsKnown
<1>9. CASE NextDeferred
    BY <1>9, DeferredMove
<1>10. CASE Hear
    BY <1>10, EventsAreHeard
<1>11. CASE \E h \in {"in", "out"} : Look(h) \/ Pause(h) \/ Fails(h)
    BY <1>11, JudgesMove
<1>12. CASE Restart
    BY <1>12, GhostRestarts
<1> QED
    BY <1>1, <1>2, <1>3, <1>4, <1>5, <1>6, <1>7, <1>8, <1>9, <1>10, <1>11, <1>12 DEF GhostNext

\* The echo of the engine's reply, before or after send_text returns its id, is not taken
\* for the owner's message (_sending, _own_sent), for any dialogs, queues and failures.
THEOREM EchoesAreToldApart == GhostSpec => []EchoIsNotTheOwner
<1>1. GhostInv => EchoIsNotTheOwner
    <2> SUFFICES ASSUME GhostInv
                 PROVE  EchoIsNotTheOwner
        OBVIOUS
    <2>1. JudgesAreCareful /\ EventsAreMail /\ GhostTables
        BY DEF GhostInv
    <2>2. ~Mistaken("out")
        BY <2>1 DEF JudgesAreCareful, Mistaken
    <2>3. Mistaken("in") => judge["in"].event # eng.id
        <3> SUFFICES ASSUME Mistaken("in")
                     PROVE  judge["in"].event # eng.id
            OBVIOUS
        <3>1. judge["in"].event \in known /\ known \subseteq Nat \ {0}
            BY <2>1, IdsAreNumbers DEF Mistaken, GhostInv, OwnIsKnown
        <3> QED
            BY <3>1, <2>1 DEF JudgesAreCareful
    <2> QED
        BY <2>2, <2>3 DEF EchoIsNotTheOwner
<1> QED
    BY <1>1, GhostBegins, GhostMoves, PTL DEF GhostSpec

\* A message of the owner's that the engine has heard of stays in hand, put off, deferred
\* or judged, until its dialog is silent (_pause_for_human_outgoing).
THEOREM OwnersAreHeeded == GhostSpec => []OwnerIsHeeded
<1>1. GhostInv => OwnerIsHeeded
    BY DEF GhostInv, OwnersAreHeld, OwnerIsHeeded
<1> QED
    BY <1>1, GhostBegins, GhostMoves, PTL DEF GhostSpec

\* After a dialog has fallen silent only the reply under way may land there (_dispatch).
THEOREM SilenceHolds == GhostSpec => []OneReplyAfterPause
<1>1. GhostInv => OneReplyAfterPause
    BY DEF GhostInv, LateIsOver, OneReplyAfterPause
<1> QED
    BY <1>1, GhostBegins, GhostMoves, PTL DEF GhostSpec

-----------------------------------------------------------------------------
(* Reports in files *)

\* What w's file holds, and the shared one.
Filed(w) == ToSet(Loaded(w))
Shared == IF legacy = None THEN {} ELSE ToSet(legacy)

\* A session that adopts has no file; an answer to a report says that its task is
\* settled; what the file has and the queue has not was acknowledged, and only
\* the save of the acknowledgement failed.
KeptBy(w) ==
    /\ pc[w] = "adopting" => disk[w] = None
    /\ pc[w] \in {"replaying", "reporting"} /\ answer[w] # None => Settled(Head(items[w]).task)
    /\ pc[w] \notin {"down", "adopting"} =>
          \A r \in Filed(w) : r \in ToSet(items[w]) \/ Settled(r.task)

KeptInv == IInv /\ \A w \in Workers : KeptBy(w)

LEMMA FilesTyped ==
    ASSUME TypeOK
    PROVE  /\ \A w \in Workers : Loaded(w) \in Seq(Reports) /\ items[w] \in Seq(Reports)
           /\ \A w \in Workers : \A r \in Filed(w) \union ToSet(items[w]) : r \in Reports /\ r.task \in Tasks
<1>2. \A w \in Workers : Loaded(w) \in Seq(Reports) /\ items[w] \in Seq(Reports)
  BY DEF TypeOK, Loaded
<1>3. \A q \in Seq(Reports) : \A r \in ToSet(q) : r \in Reports /\ r.task \in Tasks
  <2>1. \A r \in Reports : r.task \in Tasks
    BY DEF Reports
  <2>2. \A q \in Seq(Reports) : \A i \in DOMAIN q : q[i] \in Reports
    OBVIOUS
  <2> QED  BY <2>1, <2>2 DEF ToSet
<1>4. \A w \in Workers : \A r \in Filed(w) \union ToSet(items[w]) : r \in Reports /\ r.task \in Tasks
  BY <1>2, <1>3 DEF Filed
<1> QED  BY <1>2, <1>4

LEMMA FilesOnDisk ==
    /\ OnDisk = (UNION {Filed(w) : w \in Workers}) \union Shared
    /\ OnDisk' = (UNION {Filed(w)' : w \in Workers}) \union Shared'
<1>1. ToSet(<<>>) = {}
  BY DEF ToSet
<1>2. \A w \in Workers : Filed(w) = IF disk[w] = None THEN {} ELSE ToSet(disk[w])
  BY <1>1 DEF Filed, Loaded
<1>3. \A w \in Workers : Filed(w)' = IF disk'[w] = None THEN {} ELSE ToSet(disk'[w])
  BY <1>1 DEF Filed, Loaded
<1> QED  BY <1>2, <1>3 DEF OnDisk, Shared

\* An outcome is final, so that what a step does not touch stays accounted for.
Steady == \A t \in Tasks : Settled(t) => Settled(t)'

LEMMA OthersKept ==
    ASSUME IInv, Steady, NEW v \in Workers, KeptBy(v),
           pc'[v] = pc[v], answer'[v] = answer[v], items'[v] = items[v], disk'[v] = disk[v]
    PROVE  KeptBy(v)'
<1>1. Filed(v)' = Filed(v)
  BY DEF Filed, Loaded
<1>2. pc[v] = "adopting" => disk[v] = None
  BY DEF KeptBy
<1>3. ASSUME pc[v] \in {"replaying", "reporting"}, answer[v] # None
      PROVE  Settled(Head(items[v]).task)'
  <2>1. items[v] \in Seq(Reports) /\ items[v] # <<>>
    BY <1>3, PostsSomething
  <2>2. PICK t \in Tasks : t = Head(items[v]).task
    <3>1. Head(items[v]) \in Reports
      BY <2>1, TailReport
    <3> QED  BY <3>1 DEF Reports
  <2>3. Settled(t)
    BY <1>3, <2>2 DEF KeptBy
  <2>4. Settled(t)'
    BY <2>3 DEF Steady
  <2> QED  BY <2>2, <2>4 DEF Settled
<1>4. ASSUME pc[v] \notin {"down", "adopting"}, NEW r \in Filed(v)
      PROVE  r \in ToSet(items[v]) \/ Settled(r.task)'
  <2>1. r.task \in Tasks
    BY FilesTyped DEF IInv
  <2> QED  BY <1>4, <2>1 DEF KeptBy, Steady
<1> QED  BY <1>1, <1>2, <1>3, <1>4 DEF KeptBy

\* A report is dropped from its file by no step but its worker's own, and then it
\* is in the queue that replaces the file or its task is settled.
LEMMA OwnFileOnly ==
    ASSUME IInv, IInv', UNCHANGED legacy, NEW w \in Workers,
           \A v \in Workers : v # w => disk'[v] = disk[v],
           \A r \in Filed(w) : r \in Filed(w)' \/ Settled(r.task)
    PROVE  \A r \in OnDisk : r \in OnDisk' \/ Settled(r.task)
<1>1. /\ OnDisk = (UNION {Filed(v) : v \in Workers}) \union Shared
      /\ OnDisk' = (UNION {Filed(v)' : v \in Workers}) \union Shared'
  BY FilesOnDisk
<1>2. Shared' = Shared
  BY DEF Shared
<1>3. \A v \in Workers : v # w => Filed(v)' = Filed(v)
  BY DEF Filed, Loaded
<1> QED  BY <1>1, <1>2, <1>3

\* What a step of w has to keep.
LEMMA KeptByStep ==
    ASSUME KeptInv, IInv', Steady, NEW w \in Workers, UNCHANGED legacy,
           \A v \in Workers : v # w =>
               pc'[v] = pc[v] /\ answer'[v] = answer[v] /\ items'[v] = items[v] /\ disk'[v] = disk[v],
           KeptBy(w)',
           \A r \in Filed(w) : r \in Filed(w)' \/ Settled(r.task)
    PROVE  KeptInv' /\ \A r \in OnDisk : r \in OnDisk' \/ Settled(r.task)
<1>1. \A v \in Workers : v # w => KeptBy(v)'
  BY OthersKept DEF KeptInv
<1>2. \A r \in OnDisk : r \in OnDisk' \/ Settled(r.task)
  BY OwnFileOnly DEF KeptInv
<1> QED  BY <1>1, <1>2 DEF KeptInv

LEMMA SettledIsFinal == ASSUME IInv, [Next]_vars PROVE Steady
<1> SUFFICES ASSUME NEW t \in Tasks, Settled(t) PROVE Settled(t)'
  BY DEF Steady
<1>1. status \in [Tasks -> {"pending", "claimed", "completed", "failed", "overridden"}]
  BY DEF IInv, TypeOK
<1>2. CASE UNCHANGED status
  BY <1>2 DEF Settled
<1>3. ASSUME NEW w \in Workers, FactoryHears(w) PROVE Settled(t)'
  <2>1. PICK r : r = Posted(w)
    OBVIOUS
  <2>2. \/ UNCHANGED status
        \/ /\ status[r.task] \in {"claimed", Outcome(r.kind)}
           /\ status' = [status EXCEPT ![r.task] = Outcome(r.kind)]
    BY <2>1, <1>3 DEF FactoryHears
  <2>3. Outcome(r.kind) \in {"completed", "failed"}
    BY DEF Outcome
  <2>4. CASE t = r.task /\ status' = [status EXCEPT ![r.task] = Outcome(r.kind)]
    BY <2>3, <2>4, <1>1 DEF Settled
  <2>5. CASE t # r.task /\ status' = [status EXCEPT ![r.task] = Outcome(r.kind)]
    <3>1. status'[t] = status[t]
      BY <2>5, <1>1
    <3> QED  BY <3>1 DEF Settled
  <2> QED  BY <2>2, <2>4, <2>5, <1>2
<1>4. ASSUME NEW u \in Tasks, status[u] \in {"pending", "claimed"},
             status' = [status EXCEPT ![u] = "claimed"] \/ status' = [status EXCEPT ![u] = "overridden"]
      PROVE  Settled(t)'
  <2>1. u # t
    BY <1>4 DEF Settled
  <2>2. status'[t] = status[t]
    BY <2>1, <1>4, <1>1
  <2> QED  BY <2>2 DEF Settled
<1>5. CASE UNCHANGED vars
  BY <1>5, <1>2 DEF vars
<1>6. CASE \E w \in Workers, u \in Tasks : FactoryClaims(w, u)
  BY <1>6, <1>4 DEF FactoryClaims
<1>7. CASE \E u \in Tasks : FactoryOverrides(u) \/ TelegramSends(u)
  BY <1>7, <1>2, <1>4 DEF FactoryOverrides, TelegramSends
<1>8. ASSUME NEW w \in Workers,
             \/ Start(w) \/ Adopt(w) \/ StartWithoutLegacy(w) \/ Stop(w)
             \/ Poll(w) \/ NothingToClaim(w) \/ Execute(w)
             \/ SendReturns(w) \/ ExecutionRaises(w)
             \/ Confirmed(w) \/ Conflicts(w) \/ ReportUnconfirmed(w)
             \/ Unanswered(w) \/ Refused(w)
      PROVE  Settled(t)'
  <2>1. UNCHANGED status
    BY <1>8 DEF Start, Adopt, StartWithoutLegacy, Stop, Poll, NothingToClaim, Execute,
       SendReturns, ExecutionRaises, Confirmed, Conflicts, ReportUnconfirmed, Unanswered, Refused
  <2> QED  BY <2>1, <1>2
<1> QED  BY <1>3, <1>5, <1>6, <1>7, <1>8 DEF Next

LEMMA KeptInitInv == Init => KeptInv
<1> SUFFICES ASSUME Init PROVE KeptInv
  OBVIOUS
<1>1. \A w \in Workers : pc[w] = "down"
  BY DEF Init
<1> QED  BY <1>1, InitIInv DEF KeptInv, KeptBy

LEMMA ReportsOf ==
    ASSUME NEW q \in Seq(Reports), q # <<>>
    PROVE  /\ ToSet(q) = ToSet(Tail(q)) \union {Head(q)}
           /\ Tail(q) \in Seq(Reports) /\ Head(q) \in Reports
           /\ Len(q) = 1 => Last(q) = Head(q)
<1>1. Len(q) = 1 => Last(q) = Head(q)
  BY DEF Last
<1> QED  BY <1>1, QueueMovesOn

\* The queue moves on, in memory and perhaps on disk, over a settled report.
LEMMA AckKept ==
    ASSUME KeptInv, IInv', Steady, NEW w \in Workers, Ack(w), UNCHANGED legacy,
           pc[w] \in {"replaying", "reporting"}, answer[w] # None
    PROVE  KeptInv' /\ \A r \in OnDisk : r \in OnDisk' \/ Settled(r.task)
<1>1. /\ pc \in [Workers -> States] /\ answer \in [Workers -> Tasks \cup {None, "ok", "conflict"}]
      /\ items \in [Workers -> Seq(Reports)] /\ disk \in [Workers -> Seq(Reports) \cup {None}]
  BY DEF KeptInv, IInv, TypeOK
<1>2. items[w] \in Seq(Reports) /\ items[w] # <<>>
  BY PostsSomething DEF KeptInv
<1>3. PICK q \in Seq(Reports) : q = Tail(items[w]) /\ ToSet(items[w]) = ToSet(q) \union {Head(items[w])}
  BY <1>2, ReportsOf
<1>4. /\ items' = [items EXCEPT ![w] = q] /\ items'[w] = q
      /\ disk' = disk \/ disk' = [disk EXCEPT ![w] = q]
      /\ pc' = [pc EXCEPT ![w] = "poll"] /\ answer' = [answer EXCEPT ![w] = None]
  BY <1>1, <1>3 DEF Ack, Await, Goes
<1>5. /\ Settled(Head(items[w]).task)
      /\ \A r \in Filed(w) : r \in ToSet(items[w]) \/ Settled(r.task)
  BY DEF KeptInv, KeptBy
<1>6. \A r \in Filed(w) : r \in ToSet(q) \/ Settled(r.task)
  BY <1>3, <1>5
<1>7. Filed(w)' = Filed(w) \/ Filed(w)' = ToSet(q)
  <2>1. disk'[w] = disk[w] \/ (disk'[w] = q /\ q # None)
    BY <1>1, <1>4, ConstantsAssumption DEF Reports
  <2> QED  BY <2>1 DEF Filed, Loaded
<1>8. pc'[w] = "poll" /\ answer'[w] = None
  BY <1>1, <1>4
<1>9. \A r \in Filed(w) : r.task \in Tasks
  BY FilesTyped DEF KeptInv, IInv
<1>10. \A r \in Filed(w)' : r \in ToSet(q) \/ Settled(r.task)'
  <2>1. \A r \in Filed(w) : Settled(r.task) => Settled(r.task)'
    BY <1>9 DEF Steady
  <2> QED  BY <2>1, <1>6, <1>7
<1>11. KeptBy(w)'
  BY <1>4, <1>8, <1>10 DEF KeptBy
<1>12. \A v \in Workers : v # w =>
               pc'[v] = pc[v] /\ answer'[v] = answer[v] /\ items'[v] = items[v] /\ disk'[v] = disk[v]
  BY <1>1, <1>4
<1> QED  BY <1>6, <1>7, <1>11, <1>12, KeptByStep

\* A report is added to a queue that holds none.
LEMMA AddKept ==
    ASSUME KeptInv, IInv', Steady, NEW w \in Workers, NEW a \in Reports, Add(w, a), UNCHANGED legacy,
           pc[w] = "executing"
    PROVE  KeptInv' /\ \A r \in OnDisk : r \in OnDisk' \/ Settled(r.task)
<1>1. /\ pc \in [Workers -> States] /\ answer \in [Workers -> Tasks \cup {None, "ok", "conflict"}]
      /\ items \in [Workers -> Seq(Reports)] /\ disk \in [Workers -> Seq(Reports) \cup {None}]
  BY DEF KeptInv, IInv, TypeOK
<1>2. PICK q \in Seq(Reports) : q = Append(items[w], a) /\ ToSet(q) = ToSet(items[w]) \union {a}
  <2>1. items[w] \in Seq(Reports)
    BY <1>1
  <2>2. /\ Append(items[w], a) \in Seq(Reports)
        /\ ToSet(Append(items[w], a)) = ToSet(items[w]) \union {a}
    BY <2>1, QueueGrows
  <2> QED  BY <2>2
<1>3. /\ items' = [items EXCEPT ![w] = q] /\ items'[w] = q
      /\ \/ disk' = [disk EXCEPT ![w] = q] /\ pc' = [pc EXCEPT ![w] = "reporting"]
            /\ answer' = [answer EXCEPT ![w] = None]
         \/ disk' = disk /\ pc' = [pc EXCEPT ![w] = "poll"] /\ answer' = answer
  BY <1>1, <1>2 DEF Add, Await, Goes
<1>4. \A r \in Filed(w) : r \in ToSet(q) \/ Settled(r.task)
  BY <1>2 DEF KeptInv, KeptBy
<1>5. Filed(w)' = Filed(w) \/ Filed(w)' = ToSet(q)
  <2>1. disk'[w] = disk[w] \/ (disk'[w] = q /\ q # None)
    BY <1>1, <1>3, ConstantsAssumption DEF Reports
  <2> QED  BY <2>1 DEF Filed, Loaded
<1>6. pc'[w] \in {"reporting", "poll"} /\ (pc'[w] = "reporting" => answer'[w] = None)
  BY <1>1, <1>3
<1>7. \A r \in Filed(w) : r.task \in Tasks
  BY FilesTyped DEF KeptInv, IInv
<1>8. \A r \in Filed(w)' : r \in ToSet(q) \/ Settled(r.task)'
  <2>1. \A r \in Filed(w) : Settled(r.task) => Settled(r.task)'
    BY <1>7 DEF Steady
  <2> QED  BY <2>1, <1>4, <1>5
<1>9. KeptBy(w)'
  BY <1>3, <1>6, <1>8 DEF KeptBy
<1>10. \A v \in Workers : v # w =>
               pc'[v] = pc[v] /\ answer'[v] = answer[v] /\ items'[v] = items[v] /\ disk'[v] = disk[v]
  BY <1>1, <1>3
<1> QED  BY <1>4, <1>5, <1>9, <1>10, KeptByStep

\* A step that leaves w's file alone, and its queue or what the queue is read from.
LEMMA MoveKept ==
    ASSUME KeptInv, IInv', Steady, NEW w \in Workers, UNCHANGED <<legacy, disk>>,
           \A v \in Workers : v # w =>
               pc'[v] = pc[v] /\ answer'[v] = answer[v] /\ items'[v] = items[v],
           pc'[w] = "adopting" => disk[w] = None,
           pc'[w] \in {"replaying", "reporting"} => answer'[w] = None,
           \/ pc'[w] \in {"down", "adopting"}
           \/ items'[w] = Loaded(w)
           \/ items'[w] = items[w] /\ pc[w] \notin {"down", "adopting"}
    PROVE  KeptInv' /\ \A r \in OnDisk : r \in OnDisk' \/ Settled(r.task)
<1>1. Filed(w)' = Filed(w)
  BY DEF Filed, Loaded
<1>2. \A r \in Filed(w) : Settled(r.task) => Settled(r.task)'
  BY FilesTyped DEF KeptInv, IInv, Steady
<1>3. ASSUME pc'[w] \notin {"down", "adopting"}, NEW r \in Filed(w)
      PROVE  r \in ToSet(items'[w]) \/ Settled(r.task)'
  <2>1. CASE items'[w] = Loaded(w)
    BY <2>1 DEF Filed
  <2>2. CASE items'[w] = items[w] /\ pc[w] \notin {"down", "adopting"}
    BY <2>2, <1>2 DEF KeptInv, KeptBy
  <2> QED  BY <2>1, <2>2, <1>3
<1>4. KeptBy(w)'
  BY <1>1, <1>3 DEF KeptBy
<1> QED  BY <1>1, <1>4, KeptByStep

LEMMA AdoptKept ==
    ASSUME KeptInv, IInv', Steady, NEW w \in Workers, Adopt(w)
    PROVE  KeptInv' /\ \A r \in OnDisk : r \in OnDisk' \/ Settled(r.task)
<1>1. /\ pc \in [Workers -> States] /\ legacy \in Seq(Reports) \cup {None}
      /\ items \in [Workers -> Seq(Reports)] /\ disk \in [Workers -> Seq(Reports) \cup {None}]
  BY DEF KeptInv, IInv, TypeOK
<1>2. /\ pc[w] = "adopting" /\ legacy # None /\ legacy' = None
      /\ disk' = [disk EXCEPT ![w] = legacy] /\ items' = [items EXCEPT ![w] = legacy]
      /\ pc' = [pc EXCEPT ![w] = "poll"] /\ UNCHANGED <<status, answer>>
  BY DEF Adopt, Goes
<1>3. /\ disk'[w] = legacy /\ items'[w] = legacy /\ pc'[w] = "poll" /\ disk[w] = None
      /\ \A v \in Workers : v # w =>
             pc'[v] = pc[v] /\ answer'[v] = answer[v] /\ items'[v] = items[v] /\ disk'[v] = disk[v]
  BY <1>1, <1>2 DEF KeptInv, KeptBy
<1>4. Filed(w)' = ToSet(legacy) /\ Filed(w) = {}
  BY <1>2, <1>3 DEF Filed, Loaded, ToSet
<1>5. KeptBy(w)'
  BY <1>3, <1>4 DEF KeptBy
<1>6. \A v \in Workers : v # w => KeptBy(v)'
  BY <1>3, OthersKept DEF KeptInv
<1>7. /\ OnDisk = (UNION {Filed(v) : v \in Workers}) \union Shared
      /\ OnDisk' = (UNION {Filed(v)' : v \in Workers}) \union Shared'
  BY FilesOnDisk
<1>8. \A v \in Workers : v # w => Filed(v)' = Filed(v)
  BY <1>3 DEF Filed, Loaded
<1>9. Shared = Filed(w)'
  BY <1>2, <1>4 DEF Shared
<1>10. \A r \in OnDisk : r \in OnDisk'
  <2>1. \A v \in Workers : Filed(v) \subseteq Filed(v)'
    BY <1>4, <1>8
  <2> QED  BY <2>1, <1>7, <1>9
<1>11. \A v \in Workers : KeptBy(v)'
  BY <1>5, <1>6
<1> QED  BY <1>10, <1>11 DEF KeptInv

\* The factory answers a report when its task has an outcome.
LEMMA HearsKept ==
    ASSUME KeptInv, IInv', Steady, NEW w \in Workers, FactoryHears(w)
    PROVE  KeptInv' /\ \A r \in OnDisk : r \in OnDisk' \/ Settled(r.task)
<1>1. /\ status \in [Tasks -> {"pending", "claimed", "completed", "failed", "overridden"}]
      /\ answer \in [Workers -> Tasks \cup {None, "ok", "conflict"}]
  BY DEF KeptInv, IInv, TypeOK
<1>2. /\ pc[w] \in {"replaying", "reporting"} /\ answer[w] = None
      /\ UNCHANGED <<wire, sent, pc, task, items, disk, legacy>>
      /\ answer' = [answer EXCEPT ![w] = "ok"] \/ answer' = [answer EXCEPT ![w] = "conflict"]
  BY DEF FactoryHears, Answered
<1>3. items[w] \in Seq(Reports) /\ items[w] # <<>>
  BY <1>2, PostsSomething DEF KeptInv
<1>4. PICK r \in Reports : r = Head(items[w]) /\ r = Posted(w)
  <2>1. pc[w] = "reporting" => Len(items[w]) = 1
    BY DEF KeptInv, IInv, NoWorkOverUnacked
  <2> QED  BY <2>1, <1>2, <1>3, ReportsOf DEF Posted
<1>5. r.task \in Tasks /\ r.kind \in {"complete", "fail"} /\ status[r.task] # "pending"
  <2>1. True(r, status, sent)
    BY <1>3, <1>4, TailTruthful DEF KeptInv, IInv, QueuesOK
  <2> QED  BY <2>1 DEF Reports, True
<1>6. Settled(r.task)'
  <2>1. CASE status[r.task] \in {"claimed", Outcome(r.kind)}
    <3>1. status' = [status EXCEPT ![r.task] = Outcome(r.kind)]
      BY <2>1, <1>4 DEF FactoryHears
    <3>2. status'[r.task] \in {"completed", "failed"}
      BY <3>1, <1>1, <1>5 DEF Outcome
    <3> QED  BY <3>2 DEF Settled
  <2>2. CASE ~ (status[r.task] \in {"claimed", Outcome(r.kind)})
    <3>1. UNCHANGED status
      BY <2>2, <1>4 DEF FactoryHears
    <3> QED  BY <3>1, <2>2, <1>1, <1>5 DEF Settled
  <2> QED  BY <2>1, <2>2
<1>7. Filed(w)' = Filed(w)
  BY <1>2 DEF Filed, Loaded
<1>8. \A s \in Filed(w) : s \in ToSet(items[w]) \/ Settled(s.task)'
  <2>1. \A s \in Filed(w) : s.task \in Tasks
    BY FilesTyped DEF KeptInv, IInv
  <2> QED  BY <2>1, <1>2 DEF KeptInv, KeptBy, Steady
<1>9. KeptBy(w)'
  <2>1. Settled(Head(items[w]).task)'
    BY <1>2, <1>4, <1>6 DEF Settled
  <2> QED  BY <2>1, <1>2, <1>7, <1>8 DEF KeptBy
<1>10. \A v \in Workers : v # w => answer'[v] = answer[v]
  BY <1>1, <1>2
<1> QED  BY <1>2, <1>7, <1>9, <1>10, KeptByStep

LEMMA WorkerKept ==
    ASSUME KeptInv, IInv', Steady, NEW w \in Workers,
           \/ Start(w) \/ StartWithoutLegacy(w) \/ Stop(w) \/ Poll(w) \/ NothingToClaim(w)
           \/ Execute(w) \/ ReportUnconfirmed(w) \/ Unanswered(w) \/ Refused(w)
    PROVE  KeptInv' /\ \A r \in OnDisk : r \in OnDisk' \/ Settled(r.task)
<1>1. /\ pc \in [Workers -> States] /\ answer \in [Workers -> Tasks \cup {None, "ok", "conflict"}]
      /\ items \in [Workers -> Seq(Reports)]
  BY DEF KeptInv, IInv, TypeOK
<1>2. CASE Start(w)
  <2>1. /\ pc[w] = "down" /\ UNCHANGED <<answer, disk, legacy>>
        /\ \/ disk[w] = None /\ pc' = [pc EXCEPT ![w] = "adopting"] /\ items' = items
           \/ pc' = [pc EXCEPT ![w] = "poll"] /\ items' = [items EXCEPT ![w] = Loaded(w)]
    BY <1>2 DEF Start, Goes
  <2> QED  BY <2>1, <1>1, MoveKept
<1>3. CASE StartWithoutLegacy(w)
  <2>1. /\ UNCHANGED <<answer, disk, legacy>>
        /\ pc' = [pc EXCEPT ![w] = "poll"] /\ items' = [items EXCEPT ![w] = Loaded(w)]
    BY <1>3 DEF StartWithoutLegacy, Goes
  <2> QED  BY <2>1, <1>1, MoveKept
<1>4. CASE Stop(w) \/ Refused(w)
  <2>1. /\ UNCHANGED <<disk, legacy>> /\ pc' = [pc EXCEPT ![w] = "down"]
        /\ items' = [items EXCEPT ![w] = <<>>] /\ answer' = [answer EXCEPT ![w] = None]
    BY <1>4 DEF Stop, Refused, Down, Goes
  <2> QED  BY <2>1, <1>1, MoveKept
<1>5. CASE Poll(w)
  <2>1. /\ UNCHANGED <<disk, legacy, items>> /\ pc[w] = "poll"
        /\ pc' = [pc EXCEPT ![w] = "claiming"] \/ pc' = [pc EXCEPT ![w] = "replaying"]
        /\ answer' = [answer EXCEPT ![w] = None]
    BY <1>5 DEF Poll, Await, Goes
  <2> QED  BY <2>1, <1>1, MoveKept
<1>6. CASE NothingToClaim(w)
  <2>1. /\ UNCHANGED <<disk, legacy, items, answer>> /\ pc[w] = "claiming"
        /\ pc' = [pc EXCEPT ![w] = "poll"]
    BY <1>6 DEF NothingToClaim, Goes
  <2> QED  BY <2>1, <1>1, MoveKept
<1>7. CASE Execute(w) \/ ReportUnconfirmed(w) \/ Unanswered(w)
  <2>1. /\ UNCHANGED <<disk, legacy, items>> /\ pc[w] \in {"claiming", "reporting", "replaying"}
        /\ pc' = [pc EXCEPT ![w] = "executing"] \/ pc' = [pc EXCEPT ![w] = "poll"]
        /\ answer' = [answer EXCEPT ![w] = None]
    BY <1>7 DEF Execute, ReportUnconfirmed, Unanswered, Await, Goes
  <2> QED  BY <2>1, <1>1, MoveKept
<1> QED  BY <1>2, <1>3, <1>4, <1>5, <1>6, <1>7

LEMMA KeptStep ==
    ASSUME KeptInv, [Next]_vars
    PROVE  KeptInv' /\ \A r \in OnDisk : r \in OnDisk' \/ Settled(r.task)
<1>1. IInv' /\ Steady
  BY NextKeepsIInv, SettledIsFinal DEF KeptInv
<1>2. ASSUME NEW w \in Workers,
             \/ Start(w) \/ StartWithoutLegacy(w) \/ Stop(w) \/ Poll(w) \/ NothingToClaim(w)
             \/ Execute(w) \/ ReportUnconfirmed(w) \/ Unanswered(w) \/ Refused(w)
      PROVE  KeptInv' /\ \A r \in OnDisk : r \in OnDisk' \/ Settled(r.task)
  BY <1>1, <1>2, WorkerKept
<1>3. ASSUME NEW w \in Workers, Adopt(w)
      PROVE  KeptInv' /\ \A r \in OnDisk : r \in OnDisk' \/ Settled(r.task)
  BY <1>1, <1>3, AdoptKept
<1>4. ASSUME NEW w \in Workers, SendReturns(w) \/ ExecutionRaises(w)
      PROVE  KeptInv' /\ \A r \in OnDisk : r \in OnDisk' \/ Settled(r.task)
  <2>1. PICK a : Add(w, a) /\ (\E k \in {"complete", "fail"} : a = [kind |-> k, task |-> task[w]])
    BY <1>4 DEF SendReturns, ExecutionRaises
  <2>2. pc[w] = "executing" /\ UNCHANGED legacy
    BY <1>4 DEF SendReturns, ExecutionRaises
  <2>3. task[w] \in Tasks
    BY <2>2 DEF KeptInv, IInv, WorkersOK
  <2>4. a \in Reports
    BY <2>1, <2>3 DEF Reports
  <2> QED  BY <2>1, <2>2, <2>4, <1>1, AddKept
<1>5. ASSUME NEW w \in Workers, Confirmed(w) \/ Conflicts(w)
      PROVE  KeptInv' /\ \A r \in OnDisk : r \in OnDisk' \/ Settled(r.task)
  <2>1. /\ Ack(w) /\ pc[w] \in {"replaying", "reporting"} /\ UNCHANGED legacy
        /\ answer[w] \in {"ok", "conflict"}
    BY <1>5 DEF Confirmed, Conflicts
  <2>2. answer[w] # None
    <3>1. "ok" # None /\ "conflict" # None
      BY ConstantsAssumption
    <3> QED  BY <2>1, <3>1
  <2> QED  BY <2>1, <2>2, <1>1, AckKept
<1>6. ASSUME NEW w \in Workers, FactoryHears(w)
      PROVE  KeptInv' /\ \A r \in OnDisk : r \in OnDisk' \/ Settled(r.task)
  BY <1>1, <1>6, HearsKept
<1>7. ASSUME NEW w \in Workers, NEW t \in Tasks, FactoryClaims(w, t)
      PROVE  KeptInv' /\ \A r \in OnDisk : r \in OnDisk' \/ Settled(r.task)
  <2>1. /\ UNCHANGED <<disk, legacy, items, pc>> /\ pc[w] = "claiming"
        /\ answer' = [answer EXCEPT ![w] = t]
    BY <1>7 DEF FactoryClaims, Answered
  <2>2. answer \in [Workers -> Tasks \cup {None, "ok", "conflict"}]
    BY DEF KeptInv, IInv, TypeOK
  <2> QED  BY <2>1, <2>2, <1>1, MoveKept
<1>8. ASSUME UNCHANGED <<pc, answer, items, disk, legacy>>
      PROVE  KeptInv' /\ \A r \in OnDisk : r \in OnDisk' \/ Settled(r.task)
  <2>1. \A v \in Workers : KeptBy(v)'
    BY <1>1, <1>8, OthersKept DEF KeptInv
  <2>2. OnDisk' = OnDisk
    BY <1>8 DEF OnDisk
  <2> QED  BY <2>1, <2>2, <1>1 DEF KeptInv
<1>9. CASE UNCHANGED vars \/ \E t \in Tasks : FactoryOverrides(t) \/ TelegramSends(t)
  <2>1. UNCHANGED <<pc, answer, items, disk, legacy>>
    BY <1>9 DEF vars, FactoryOverrides, TelegramSends
  <2> QED  BY <2>1, <1>8
<1> QED  BY <1>2, <1>3, <1>4, <1>5, <1>6, <1>7, <1>9 DEF Next

\* A report that has reached a file (ReportQueue._save) leaves the files only
\* after its task has an outcome at the factory, for any number of sessions,
\* restarts, failed saves and reports in the shared file of before (#305).
THEOREM FilesKeepReports == Spec => ReportsAreDurable
<1>1. KeptInv /\ [Next]_vars => KeptInv'
  BY KeptStep
<1>2. KeptInv /\ [Next]_vars => [\A r \in OnDisk : r \in OnDisk' \/ Settled(r.task)']_vars
  <2> SUFFICES ASSUME KeptInv, [Next]_vars, NEW r \in OnDisk, r \notin OnDisk'
               PROVE  Settled(r.task)'
    OBVIOUS
  <2>1. Settled(r.task) /\ Steady
    BY KeptStep, SettledIsFinal DEF KeptInv
  <2>2. r.task \in Tasks
    <3>1. \A q \in Seq(Reports) : \A i \in DOMAIN q : q[i].task \in Tasks
      <4>1. \A a \in Reports : a.task \in Tasks
        BY DEF Reports
      <4> QED  BY <4>1
    <3>2. legacy \in Seq(Reports) \cup {None} /\ disk \in [Workers -> Seq(Reports) \cup {None}]
      BY DEF KeptInv, IInv, TypeOK
    <3> QED  BY <3>1, <3>2 DEF OnDisk, ToSet
  <2> QED  BY <2>1, <2>2 DEF Steady
<1> QED  BY KeptInitInv, <1>1, <1>2, PTL DEF Spec, ReportsAreDurable
=============================================================================
