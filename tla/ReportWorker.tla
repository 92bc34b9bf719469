---------------------------- MODULE ReportWorker ----------------------------
(***************************************************************************)
(* interop/worker.py: the workers of several sessions claim tasks from the *)
(* factory, send a message for each, and report what became of it through  *)
(* a durable queue, one JSON file per session.                             *)
(*                                                                         *)
(* Every await is a state of pc.  A worker is stopped between any two      *)
(* steps, by Ctrl+C or by a crash, which leave the same disk behind; a     *)
(* write to the disk can fail; a request can be lost before the factory    *)
(* hears it or after.  FactoryClient._request repeats a POST only when it  *)
(* never left, which is one lost or one heard request here.                *)
(***************************************************************************)
EXTENDS Naturals, Sequences, FiniteSets, SequencesExt

CONSTANTS
    Tasks,
    Workers,  \* sessions: each has one worker process and one file
    Legacy,   \* the tasks whose reports wait in the pre-#305 shared file
    None

ASSUME ConstantsAssumption ==
    /\ Legacy \in Seq(Tasks)
    /\ None \notin Tasks \cup Seq([kind : {"complete", "fail"}, task : Tasks])
    /\ {"ok", "conflict"} \cap (Tasks \cup {None}) = {}

VARIABLES
    status,  \* status[t]: the task as the factory sees it
    wire,    \* the tasks whose message is on its way to Telegram
    sent,    \* sent[t]: how many messages Telegram has sent for t
    pc,      \* pc[w]: what worker w awaits
    task,    \* task[w]: the task w executes
    answer,  \* answer[w]: the factory's response to w's request, if any yet
    items,   \* ReportQueue.items of the running worker
    disk,    \* disk[w]: interop_reports-<w>.json; None when there is no file
    legacy   \* interop_reports.json; None when there is no file

vars == <<status, wire, sent, pc, task, answer, items, disk, legacy>>

Reports == [kind : {"complete", "fail"}, task : Tasks]
Outcome(kind) == IF kind = "complete" THEN "completed" ELSE "failed"

\* What a worker before #305 left behind: the reports of messages it had sent.
LegacyReports ==
    [i \in DOMAIN Legacy |-> [kind |-> "complete", task |-> Legacy[i]]]

InLegacy(t) == \E i \in DOMAIN Legacy : Legacy[i] = t

Init ==
    /\ status = [t \in Tasks |-> IF InLegacy(t) THEN "claimed" ELSE "pending"]
    /\ wire = {}
    /\ sent = [t \in Tasks |-> IF InLegacy(t) THEN 1 ELSE 0]
    /\ pc = [w \in Workers |-> "down"]
    /\ task = [w \in Workers |-> None]
    /\ answer = [w \in Workers |-> None]
    /\ items = [w \in Workers |-> <<>>]
    /\ disk = [w \in Workers |-> None]
    /\ legacy = LegacyReports

Goes(w, state) == pc' = [pc EXCEPT ![w] = state]
Await(w, state) == Goes(w, state) /\ answer' = [answer EXCEPT ![w] = None]
Answered(w, what) == answer' = [answer EXCEPT ![w] = what]
-----------------------------------------------------------------------------
(* Starting: worker_reports_path and ReportQueue.__init__.                 *)

Loaded(w) == IF disk[w] = None THEN <<>> ELSE disk[w]

Start(w) ==
    /\ pc[w] = "down"
    /\ IF disk[w] = None /\ legacy # None
       THEN Goes(w, "adopting") /\ UNCHANGED items
       ELSE Goes(w, "poll") /\ items' = [items EXCEPT ![w] = Loaded(w)]
    /\ UNCHANGED <<status, wire, sent, task, answer, disk, legacy>>

\* legacy.replace(path): one of the sessions that saw the shared file moves it ...
Adopt(w) ==
    /\ pc[w] = "adopting"
    /\ legacy # None
    /\ disk' = [disk EXCEPT ![w] = legacy]
    /\ items' = [items EXCEPT ![w] = legacy]
    /\ legacy' = None
    /\ Goes(w, "poll")
    /\ UNCHANGED <<status, wire, sent, task, answer>>

\* ... the others find it gone (FileNotFoundError), or the move fails (OSError).
StartWithoutLegacy(w) ==
    /\ pc[w] = "adopting"
    /\ items' = [items EXCEPT ![w] = Loaded(w)]
    /\ Goes(w, "poll")
    /\ UNCHANGED <<status, wire, sent, task, answer, disk, legacy>>

\* Ctrl+C, a crash, or run() raising: what was in memory is gone, and a
\* message on its way may or may not have left.
Down(w) ==
    /\ Goes(w, "down")
    /\ items' = [items EXCEPT ![w] = <<>>]
    /\ task' = [task EXCEPT ![w] = None]
    /\ answer' = [answer EXCEPT ![w] = None]
    /\ wire' \in {wire, wire \ {task[w]}}

Stop(w) ==
    /\ pc[w] # "down"
    /\ Down(w)
    /\ UNCHANGED <<status, sent, disk, legacy>>
-----------------------------------------------------------------------------
(* process_once.                                                           *)

FaultIgnoresQueue(w) == TRUE
Drained(w) == items[w] = <<>>

\* _flush_reports replays the oldest report; once the queue is empty, and only
\* then, a task is claimed (#294).
Poll(w) ==
    /\ pc[w] = "poll"
    /\ Await(w, IF Drained(w) THEN "claiming" ELSE "replaying")
    /\ UNCHANGED <<status, wire, sent, task, items, disk, legacy>>

\* A 404: nothing is pending.  run() sleeps and polls again.
NothingToClaim(w) ==
    /\ pc[w] = "claiming"
    /\ answer[w] = None
    /\ \A t \in Tasks : status[t] # "pending"
    /\ Goes(w, "poll")
    /\ UNCHANGED <<status, wire, sent, task, answer, items, disk, legacy>>

\* _execute, down to client.send_text: the message leaves.
Execute(w) ==
    /\ pc[w] = "claiming"
    /\ answer[w] # None
    /\ task' = [task EXCEPT ![w] = answer[w]]
    /\ wire' = wire \cup {answer[w]}
    /\ Await(w, "executing")
    /\ UNCHANGED <<status, sent, items, disk, legacy>>

\* ReportQueue.add, then the first await of the report.  _save is atomic, and
\* when it fails the report stays in memory and the step raises.
Add(w, r) ==
    /\ items' = [items EXCEPT ![w] = Append(@, r)]
    /\ task' = [task EXCEPT ![w] = None]
    /\ \/ /\ disk' = [disk EXCEPT ![w] = items'[w]]
          /\ Await(w, "reporting")
       \/ /\ Goes(w, "poll")
          /\ UNCHANGED <<disk, answer>>

SendReturns(w) ==
    /\ pc[w] = "executing"
    /\ sent[task[w]] > 0
    /\ Add(w, [kind |-> "complete", task |-> task[w]])
    /\ UNCHANGED <<status, wire, sent, legacy>>

\* The task was malformed, the agent failed, or the send raised: before the
\* message left, or after.
FaultSendsAgain(w) ==
    /\ pc[w] = "executing"
    /\ wire' = wire \cup {task[w]}
    /\ UNCHANGED <<pc, answer, status, sent, task, items, disk, legacy>>
ExecutionRaises(w) ==
    /\ pc[w] = "executing"
    /\ wire' \in {wire, wire \ {task[w]}}
    /\ Add(w, [kind |-> "fail", task |-> task[w]])
    /\ UNCHANGED <<status, sent, legacy>>

\* ReportQueue.ack drops the oldest report; when _save fails the file keeps it
\* (and a restart replays it).
Ack(w) ==
    /\ items' = [items EXCEPT ![w] = Tail(@)]
    /\ disk' \in {disk, [disk EXCEPT ![w] = items'[w]]}
    /\ Await(w, "poll")

Confirmed(w) ==
    /\ pc[w] \in {"replaying", "reporting"}
    /\ answer[w] = "ok"
    /\ Ack(w)
    /\ UNCHANGED <<status, wire, sent, task, legacy>>

\* A 409 on a replay: the other outcome won, and the report is dropped.
FaultKeepsConflict(w) ==
    /\ pc[w] = "replaying"
    /\ answer[w] = "conflict"
    /\ Await(w, "poll")
    /\ UNCHANGED <<status, wire, sent, task, items, disk, legacy>>
Conflicts(w) ==
    /\ pc[w] = "replaying"
    /\ answer[w] = "conflict"
    /\ Ack(w)
    /\ UNCHANGED <<status, wire, sent, task, legacy>>

\* _safe_complete_task and _safe_fail_task swallow every error of the first
\* try, a 409 or another 4xx included: the report stays queued.
FaultAcksInFinally(w) ==
    /\ pc[w] = "reporting"
    /\ Ack(w)
    /\ UNCHANGED <<status, wire, sent, task, legacy>>
ReportUnconfirmed(w) ==
    /\ pc[w] = "reporting"
    /\ Await(w, "poll")
    /\ UNCHANGED <<status, wire, sent, task, items, disk, legacy>>

\* No answer reaches a replay or a claim, or a 5xx does: run() sleeps and polls
\* again.  A task claimed by a request whose answer is lost stays claimed.
Unanswered(w) ==
    /\ pc[w] \in {"replaying", "claiming"}
    /\ Await(w, "poll")
    /\ UNCHANGED <<status, wire, sent, task, items, disk, legacy>>

\* A 4xx other than the replay's 409: run() raises and the process ends.
Refused(w) ==
    /\ pc[w] \in {"replaying", "claiming"}
    /\ answer[w] = None
    /\ Down(w)
    /\ UNCHANGED <<status, sent, disk, legacy>>
-----------------------------------------------------------------------------
(* The factory and Telegram.                                               *)

FactoryClaims(w, t) ==
    /\ pc[w] = "claiming"
    /\ answer[w] = None
    /\ status[t] = "pending"
    /\ status' = [status EXCEPT ![t] = "claimed"]
    /\ Answered(w, t)
    /\ UNCHANGED <<wire, sent, pc, task, items, disk, legacy>>

\* The report w is posting: a replay posts the oldest, a first try the newest.
Posted(w) == IF pc[w] = "replaying" THEN Head(items[w]) ELSE Last(items[w])

\* "The factory treats an identical replay of a terminal report as success and
\* a conflicting one as 409."
FactoryHears(w) ==
    LET r == Posted(w) IN
    /\ pc[w] \in {"replaying", "reporting"}
    /\ answer[w] = None
    /\ IF status[r.task] \in {"claimed", Outcome(r.kind)}
       THEN /\ status' = [status EXCEPT ![r.task] = Outcome(r.kind)]
            /\ Answered(w, "ok")
       ELSE /\ UNCHANGED status
            /\ Answered(w, "conflict")
    /\ UNCHANGED <<wire, sent, pc, task, items, disk, legacy>>

\* Another outcome wins at the factory.
FactoryOverrides(t) ==
    /\ status[t] = "claimed"
    /\ status' = [status EXCEPT ![t] = "overridden"]
    /\ UNCHANGED <<wire, sent, pc, task, answer, items, disk, legacy>>

TelegramSends(t) ==
    /\ t \in wire
    /\ wire' = wire \ {t}
    /\ sent' = [sent EXCEPT ![t] = @ + 1]
    /\ UNCHANGED <<status, pc, task, answer, items, disk, legacy>>

Next ==
    \/ \E w \in Workers :
        \/ Start(w) \/ Adopt(w) \/ StartWithoutLegacy(w) \/ Stop(w)
        \/ Poll(w) \/ NothingToClaim(w) \/ Execute(w)
        \/ SendReturns(w) \/ ExecutionRaises(w)
        \/ Confirmed(w) \/ Conflicts(w) \/ ReportUnconfirmed(w)
        \/ Unanswered(w) \/ Refused(w) \/ FactoryHears(w)
    \/ \E w \in Workers, t \in Tasks : FactoryClaims(w, t)
    \/ \E t \in Tasks : FactoryOverrides(t) \/ TelegramSends(t)

\* What a session with a file needs for its reports to arrive.  The process is
\* started again after it ends and is not stopped before every first step; the
\* network and the disk are not down for ever: a report posted again and again
\* is heard in the end, and one heard again and again is acknowledged and the
\* file saved.  Nothing is assumed of Telegram, of claims, of migrations, or of
\* how often the worker is stopped.
Acknowledged(w) == (Confirmed(w) \/ Conflicts(w)) /\ disk'[w] = items'[w]

Fairness ==
    \A w \in Workers :
        /\ WF_vars(Start(w))
        /\ SF_vars(Poll(w))
        /\ SF_vars(FactoryHears(w))
        /\ SF_vars(Acknowledged(w))

Spec == Init /\ [][Next]_vars
FairSpec == Spec /\ Fairness
-----------------------------------------------------------------------------
(* Properties.                                                             *)

States == {"down", "adopting", "poll", "replaying", "claiming", "executing",
           "reporting"}

TypeOK ==
    /\ status \in [Tasks -> {"pending", "claimed", "completed", "failed", "overridden"}]
    /\ wire \in SUBSET Tasks
    /\ sent \in [Tasks -> Nat]
    /\ pc \in [Workers -> States]
    /\ task \in [Workers -> Tasks \cup {None}]
    /\ answer \in [Workers -> Tasks \cup {None, "ok", "conflict"}]
    /\ items \in [Workers -> Seq(Reports)]
    /\ disk \in [Workers -> Seq(Reports) \cup {None}]
    /\ legacy \in Seq(Reports) \cup {None}

\* #294: "the worker must not make more irreversible sends while a report is
\* unacknowledged", and so at most one report is ever added to a queue before
\* it is acknowledged, and the report _safe_complete_task acknowledges with
\* pop(0) is the one it posted.
NoWorkOverUnacked ==
    \A w \in Workers :
        /\ pc[w] \in {"claiming", "executing"} => items[w] = <<>>
        /\ pc[w] = "reporting" => Len(items[w]) = 1

\* The reports in files.
OnDisk ==
    (UNION {IF disk[w] = None THEN {} ELSE ToSet(disk[w]) : w \in Workers})
    \cup (IF legacy = None THEN {} ELSE ToSet(legacy))

Settled(t) == status[t] \in {"completed", "failed", "overridden"}

\* A report that has reached a file leaves the files only after the factory has
\* an outcome for its task: no restart, migration, other session's save (#305)
\* or unconfirmed request drops it.
ReportsAreDurable ==
    [][\A r \in OnDisk : r \in OnDisk' \/ Settled(r.task)']_vars

\* A report in a session's file (an adopted one included) reaches the factory: nothing queued before it
\* (a conflicting report, say) holds it up for ever, however often the worker
\* is stopped.
ReportsArrive ==
    \A t \in Tasks :
        (\E w \in Workers : \E i \in DOMAIN Loaded(w) : Loaded(w)[i].task = t) ~> Settled(t)

\* worker.py:17 "a Telegram send is irreversible, so its completion/failure
\* report must never be lost": once a message is sent its task is settled, or
\* its report is queued, or its worker still executes it.
SentIsReported ==
    \A t \in Tasks : sent[t] > 0 =>
        \/ Settled(t)
        \/ \E w \in Workers : task[w] = t
        \/ \E r \in Reports :
             /\ r.task = t
             /\ r \in OnDisk \cup UNION {ToSet(items[w]) : w \in Workers}

Ledger == INSTANCE TaskLedger

\* A task is claimed once, sends at most one message, is reported completed only
\* if it sent it, and never changes its outcome: through crashes, replays, lost
\* answers and several workers.
KeepsLedger == Ledger!Spec
=============================================================================
