----------------------------- MODULE TaskLedger -----------------------------
(***************************************************************************)
(* What interop/worker.py promises about one factory task, whoever claims  *)
(* it and whatever crashes: it is claimed once, its message is sent at     *)
(* most once, it is reported completed only if the message was sent, and   *)
(* its outcome is final.                                                   *)
(***************************************************************************)
CONSTANTS Tasks

VARIABLES
    status,  \* the task as the factory sees it
    sent     \* sent[t]: how many messages Telegram has sent for t

vars == <<status, sent>>

Init ==
    /\ status \in [Tasks -> {"pending", "claimed"}]
    /\ sent \in [Tasks -> {0, 1}]
    /\ \A t \in Tasks : sent[t] = 1 => status[t] = "claimed"

Claim(t) ==
    /\ status[t] = "pending"
    /\ status' = [status EXCEPT ![t] = "claimed"]
    /\ UNCHANGED sent

\* The factory may have settled a task whose message is still on its way.
Send(t) ==
    /\ status[t] # "pending"
    /\ sent[t] = 0
    /\ sent' = [sent EXCEPT ![t] = 1]
    /\ UNCHANGED status

\* "failed" is reported by a worker that does not know of a message sent, and
\* "overridden" is an outcome the factory reached on its own.
Settle(t, outcome) ==
    /\ status[t] = "claimed"
    /\ outcome = "completed" => sent[t] = 1
    /\ status' = [status EXCEPT ![t] = outcome]
    /\ UNCHANGED sent

Outcomes == {"completed", "failed", "overridden"}

Next ==
    \E t \in Tasks :
        \/ Claim(t)
        \/ Send(t)
        \/ \E outcome \in Outcomes : Settle(t, outcome)

Spec == Init /\ [][Next]_vars
=============================================================================
